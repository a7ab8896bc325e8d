------------------------------ MODULE VttEditor ------------------------------
(***************************************************************************)
(* The Universal VTT editor (VttEditorView, useVttDocument): the document of *)
(* walls, portals and lights with its undo and redo stacks, the drawing     *)
(* tools, the selection, the calibration of the grid, and the ways the work *)
(* is kept: saved to the map it was opened on or, for a file that was       *)
(* dropped, downloaded or sent to a campaign. Where a feature lies is left  *)
(* out: a feature is how it is set, as drawn or changed since. The numbers *)
(* of the grid, pan and zoom, and the preview of what a player sees, which   *)
(* is kept nowhere, are left out: the document is in grid units.            *)
(***************************************************************************)
EXTENDS Integers, Sequences, SequencesExt, FiniteSets

CONSTANTS
  Tools,         \* the tools that are used
  HISTORY_LIMIT, \* steps that can be undone
  MaxFeatures    \* bound: features of the document, a changed environment counted

VARIABLES
  origin,               \* the editor is on a map, on a dropped file, or on nothing yet
  phase,                \* calibrate or edit
  doc, undo, redo,      \* docRef and its two stacks
  dirty,
  tool, draft, selection,
  reading,              \* the kinds of file being read
  sending, carried,     \* the save or upload under way, and the document in it
  dialog,               \* SendVttToCampaignDialog
  stored,               \* the document that was saved, exported or opened last
  late                  \* history: edited while a save or upload was under way

docVars == <<doc, undo, redo, dirty, late>>
toolVars == <<tool, draft, selection>>
keepVars == <<sending, carried, dialog, stored>>
vttVars == <<origin, phase, docVars, toolVars, reading, keepVars>>

TOOL_TARGET == [wall |-> "line_of_sight", object |-> "objects_line_of_sight",
                portal |-> "portals", window |-> "portals", light |-> "lights"]
POLYLINE_TOOLS == {"wall", "object"}
PORTAL_TOOLS == {"portal", "window"}
FEATURE_KEYS == {"line_of_sight", "objects_line_of_sight", "portals", "lights"}
Settings == {"drawn", "changed"}
EMPTY_DOC == [line_of_sight |-> <<>>, objects_line_of_sight |-> <<>>, portals |-> <<>>,
              lights |-> <<>>, environment |-> "drawn"]
Existing(d, keys) == UNION {{[key |-> k, index |-> i] : i \in DOMAIN d[k]} : k \in keys}
NoFeature == [key |-> "none", index |-> 0]
IsDoc(d) == d.environment \in Settings /\ \A k \in FEATURE_KEYS : d[k] \in Seq(Settings)

VttTypeOK ==
  /\ origin \in {"none", "map", "file"} /\ phase \in {"calibrate", "edit"}
  /\ IsDoc(doc) /\ Len(undo) <= HISTORY_LIMIT /\ Len(redo) <= HISTORY_LIMIT
  /\ \A i \in DOMAIN undo : IsDoc(undo[i])
  /\ \A i \in DOMAIN redo : IsDoc(redo[i])
  /\ dirty \in BOOLEAN /\ tool \in Tools /\ draft \in 0..2
  /\ selection.key \in FEATURE_KEYS \union {"none"} /\ selection.index \in 0..MaxFeatures
  /\ reading \subseteq {"image", "uvtt"} /\ sending \in {"none", "save", "upload"} /\ IsDoc(carried)
  /\ dialog \in {"closed", "opened", "chosen"} /\ IsDoc(stored) /\ late \in BOOLEAN

Docs == {EMPTY_DOC, [EMPTY_DOC EXCEPT !.line_of_sight = <<"drawn">>]}
Init ==
  /\ origin = "none" /\ phase = "calibrate"
  /\ doc = EMPTY_DOC /\ undo = <<>> /\ redo = <<>> /\ dirty = FALSE /\ late = FALSE
  /\ tool = "wall" /\ draft = 0 /\ selection = NoFeature
  /\ reading = {} /\ sending = "none" /\ carried = EMPTY_DOC /\ dialog = "closed" /\ stored \in Docs

-----------------------------------------------------------------------------
(* The document (useVttDocument)                                            *)

(* Deviation: the history is not cut.                                       *)
DeeperUncut(stack, d) == Append(stack, d)
Deeper(stack, d) == LET s == Append(stack, d) IN
                    IF Len(s) > HISTORY_LIMIT THEN Tail(s) ELSE s
Touched == late' = (late \/ sending # "none")

(* commit: the document before goes on the undo stack, the redo branch ends. *)
Commit(d) ==
  /\ undo' = Deeper(undo, doc) /\ redo' = <<>> /\ doc' = d /\ dirty' = TRUE /\ Touched

(* Deviation: going back in the history leaves the document marked saved.   *)
MovesUnmarked(from, to) ==
  /\ from # <<>> /\ doc' = Last(from) /\ from' = Front(from) /\ to' = Append(to, doc)
  /\ Touched /\ UNCHANGED dirty
(* undo and redo: the last document of one stack, the shown one to the other. *)
Moves(from, to) ==
  /\ from # <<>> /\ doc' = Last(from) /\ from' = Front(from) /\ to' = Append(to, doc)
  /\ Touched /\ dirty' = TRUE

Reset(d) == /\ doc' = d /\ undo' = <<>> /\ redo' = <<>> /\ dirty' = FALSE
            /\ stored' = d /\ late' = (sending # "none")

-----------------------------------------------------------------------------
(* Opening, and leaving                                                     *)

(* The map's stored document and grid: with one, calibration is skipped.    *)
Load ==
  /\ origin = "none" /\ reading = {} /\ origin' = "map" /\ Reset(stored)
  /\ phase' = IF stored # EMPTY_DOC THEN "edit" ELSE "calibrate"
  /\ UNCHANGED <<toolVars, reading, sending, carried, dialog>>

(* acceptFile: the picker stays until one file has been read.               *)
VttSourcePicker(kind) ==
  /\ origin = "none" /\ sending = "none" /\ kind \notin reading /\ reading' = reading \union {kind}
  /\ UNCHANGED <<origin, phase, docVars, toolVars, keepVars>>
FileRead(kind) ==
  /\ kind \in reading /\ reading' = reading \ {kind}
  /\ origin' = "file"
  /\ IF kind = "uvtt" THEN Reset([EMPTY_DOC EXCEPT !.lights = <<"drawn">>]) /\ phase' = "edit"
     ELSE Reset(EMPTY_DOC) /\ phase' = "calibrate"
  /\ UNCHANGED <<toolVars, sending, carried, dialog>>
FileFails(kind) ==
  /\ kind \in reading /\ reading' = reading \ {kind} /\ origin' = "none"
  /\ UNCHANGED <<phase, docVars, toolVars, keepVars>>

(* goBack, confirmed when something is unsaved. A save goes on.             *)
GoBack ==
  /\ origin' = "none" /\ phase' = "calibrate"
  /\ doc' = EMPTY_DOC /\ undo' = <<>> /\ redo' = <<>> /\ dirty' = FALSE /\ late' = TRUE
  /\ tool' = "wall" /\ draft' = 0 /\ selection' = NoFeature
  /\ reading' = {} /\ dialog' = "closed"
Leave == origin # "none" /\ sending # "upload" /\ GoBack /\ UNCHANGED <<sending, carried, stored>>

-----------------------------------------------------------------------------
(* The grid                                                                 *)

GridCalibrator ==
  /\ phase = "calibrate" /\ origin # "none" /\ UNCHANGED <<origin, docVars, toolVars, reading, keepVars>>
  /\ phase' = "edit"
Recalibrate ==
  /\ phase' = "calibrate" /\ UNCHANGED <<origin, docVars, toolVars, reading, keepVars>>

-----------------------------------------------------------------------------
(* Drawing                                                                  *)

UNCH_place == UNCHANGED <<origin, phase, reading, keepVars>>
Size(d) == Cardinality(Existing(d, FEATURE_KEYS)) + (IF d.environment = "drawn" THEN 0 ELSE 1)
Room == Size(doc) < MaxFeatures
Added(key) == [doc EXCEPT ![key] = Append(@, "drawn")]
Tooling(t, n, s) == tool' = t /\ draft' = n /\ selection' = s

SetTool(t) == t # tool /\ Tooling(t, 0, NoFeature) /\ UNCHANGED docVars /\ UNCH_place

(* commitPolyline, on a double click and on Enter: two points make a wall.  *)
CommitPolyline ==
  /\ draft > 0 /\ Tooling(tool, 0, selection)
  /\ IF draft >= 2
     THEN Room /\ Commit(Added(IF tool = "wall" THEN "line_of_sight" ELSE "objects_line_of_sight"))
     ELSE UNCHANGED docVars
  /\ UNCH_place

(* handleClick, by the tool: select what is hit, place a light and select   *)
(* it, add a point, complete a portal.                                      *)
SelectAt == tool = "select" /\ UNCHANGED docVars
            /\ \E s \in Existing(doc, FEATURE_KEYS) \union {NoFeature} : Tooling(tool, draft, s)
PlaceLight == /\ tool = "light" /\ Room /\ Commit(Added("lights"))
              /\ Tooling(tool, draft, [key |-> "lights", index |-> Len(doc.lights) + 1])
PlacePortal == /\ tool \in PORTAL_TOOLS
               /\ IF draft = 1 THEN Room /\ Commit(Added("portals")) /\ Tooling(tool, 0, selection)
                  ELSE UNCHANGED docVars /\ Tooling(tool, draft + 1, selection)
AddPoint == tool \in POLYLINE_TOOLS /\ draft < 2 /\ UNCHANGED docVars /\ Tooling(tool, draft + 1, selection)
HandleClick == (SelectAt \/ PlaceLight \/ PlacePortal \/ AddPoint) /\ UNCH_place

DeleteFeature ==
  /\ selection # NoFeature /\ Tooling(tool, draft, NoFeature)
  /\ Commit([doc EXCEPT ![selection.key] = IF selection.index \in DOMAIN @ THEN RemoveAt(@, selection.index) ELSE @])
  /\ UNCH_place
(* onUpdateFeature, from the panel of the selected feature.                 *)
UpdateFeature(key) ==
  /\ selection \in Existing(doc, {key}) /\ UNCHANGED toolVars
  /\ \E v \in Settings \ {doc[key][selection.index]} : Commit([doc EXCEPT ![key][selection.index] = v])
  /\ UNCH_place
LightProperties == UpdateFeature("lights") \/ (selection.key = "lights" /\ DeleteFeature)
PortalProperties == UpdateFeature("portals") \/ (selection.key = "portals" /\ DeleteFeature)
EnvironmentPanel == \E v \in Settings \ {doc.environment} : LET d == [doc EXCEPT !.environment = v] IN
                      Size(d) <= MaxFeatures /\ Commit(d) /\ UNCHANGED toolVars /\ UNCH_place

Undo == Moves(undo, redo) /\ UNCHANGED toolVars /\ UNCH_place
Redo == Moves(redo, undo) /\ UNCHANGED toolVars /\ UNCH_place
Escape == Tooling(tool, 0, NoFeature) /\ UNCHANGED docVars /\ UNCH_place

-----------------------------------------------------------------------------
(* Keeping                                                                  *)

Under(s) == sending' = s /\ carried' = doc
            /\ UNCHANGED <<origin, phase, docVars, toolVars, reading, stored, dialog>>
Save == origin = "map" /\ sending = "none" /\ Under("save")
SendToCampaign == dialog = "chosen" /\ sending = "none" /\ Under("upload")

(* markSaved, whatever the document is by then.                             *)
Saved ==
  /\ sending = "save" /\ sending' = "none" /\ stored' = carried /\ carried' = EMPTY_DOC
  /\ dirty' = FALSE /\ late' = (origin = "none" \/ doc # carried)
  /\ UNCHANGED <<origin, phase, doc, undo, redo, toolVars, reading, dialog>>
(* The upload is in the campaign, where its sender is taken.                *)
Uploaded == sending = "upload" /\ sending' = "none" /\ stored' = carried /\ carried' = EMPTY_DOC /\ GoBack
SendingFails == /\ sending # "none" /\ sending' = "none" /\ carried' = EMPTY_DOC
                /\ UNCHANGED <<origin, phase, docVars, toolVars, reading, dialog, stored>>
DownloadStandalone ==
  /\ origin = "file" /\ stored' = doc /\ dirty' = FALSE /\ late' = (late /\ sending # "none")
  /\ UNCHANGED <<origin, phase, doc, undo, redo, toolVars, reading, sending, carried, dialog>>

Dialog(d) == dialog' = d /\ UNCHANGED <<origin, phase, docVars, toolVars, reading, sending, carried, stored>>
ChooseCampaign == origin = "file" /\ dialog = "closed" /\ sending = "none" /\ Dialog("opened")
(* Only campaigns one owns are listed; then the categories of the chosen one. *)
CampaignChosen == dialog = "opened" /\ Dialog("chosen")
DialogBack == sending = "none" /\ (Dialog(IF dialog = "chosen" THEN "opened" ELSE "closed") \/ Dialog("closed"))
SendVttToCampaignDialog == dialog # "closed" /\ (CampaignChosen \/ DialogBack \/ SendToCampaign)

-----------------------------------------------------------------------------
VttToolbar == (\E t \in Tools : SetTool(t)) \/ Undo \/ Redo
VttCanvas == HandleClick \/ CommitPolyline
VttSidebar == LightProperties \/ PortalProperties \/ DeleteFeature \/ EnvironmentPanel \/ Recalibrate
OnKey == Escape \/ CommitPolyline \/ DeleteFeature \/ Undo \/ Redo
Drawing == origin # "none" /\ ((phase = "edit" /\ (VttToolbar \/ VttCanvas \/ VttSidebar)) \/ OnKey)
Opening == Load \/ \E k \in {"image", "uvtt"} : VttSourcePicker(k) \/ FileRead(k) \/ FileFails(k)
Header == Save \/ DownloadStandalone \/ ChooseCampaign \/ Leave

Next == \/ Opening \/ GridCalibrator \/ Drawing \/ Header \/ SendVttToCampaignDialog
        \/ Saved \/ Uploaded \/ SendingFails

Spec == Init /\ [][Next]_vttVars

-----------------------------------------------------------------------------
(* Properties                                                               *)

(* Whatever was drawn, undone and redone: when the editor is open and shows *)
(* no unsaved changes, the document is the one that was saved, exported or  *)
(* opened last, so that leaving without a question loses nothing. (It can   *)
(* differ after an edit that was made while a save was under way.)          *)
CleanMeansKept == origin # "none" /\ ~dirty /\ ~late => doc = stored
=============================================================================
