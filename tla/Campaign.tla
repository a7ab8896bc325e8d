------------------------------ MODULE Campaign ------------------------------
(***************************************************************************)
(* The page of a campaign (CampaignDetailView), open for its game master or *)
(* for a player while the other one acts elsewhere: the roster with its     *)
(* invitations and character sheets, the schedule and who can come, and     *)
(* archiving, which freezes all of it. Every write is followed by a fetch of*)
(* the part of the campaign it changed; until its answer arrives the page   *)
(* offers what it offered before, and the server decides.                   *)
(***************************************************************************)
EXTENDS Integers

CONSTANT MaxWrites  \* bound: writes sent from the page and made elsewhere

VARIABLES
  me,        \* who has the page open
  server,    \* the campaign
  seen,      \* campaign, schedule and availability as the page has them
  loaded,    \* the parts that have come
  panel,     \* the invite panel, the editor, the question about a sheet, or the error instead of the page
  asks,      \* requests under way, and answers on their way
  writes     \* writes so far

nVars == <<me, server, seen, loaded, panel, asks, writes>>

Users == {"gm", "pl"}
Other(u) == IF u = "gm" THEN "pl" ELSE "gm"
(* marked: who has said they come on the one date; member: of the player.   *)
Campaigns ==
  [archived : BOOLEAN, member : {"out", "invited", "accepted", "declined"}, sheet : BOOLEAN,
   sched : {"none", "off", "on"}, marked : SUBSET Users, cancelled : BOOLEAN]
Fresh == [archived |-> FALSE, member |-> "out", sheet |-> FALSE, sched |-> "none", marked |-> {}, cancelled |-> FALSE]

Parts == {"campaign", "schedule", "availability"}
FieldsOf(part) ==
  CASE part = "campaign" -> {"archived", "member", "sheet"}
    [] part = "schedule" -> {"sched"}
    [] part = "availability" -> {"marked", "cancelled"}

(* What a request asks for: the load of a part, or a write with its argument*)
Load(part) == [do |-> "load", arg |-> part, state |-> "sent", reply |-> Fresh]
Write(do, arg) == [do |-> do, arg |-> arg, state |-> "sent", reply |-> Fresh]
Loads(parts) == {Load(p) : p \in parts}
Writes ==
  [do : {"archive"}, arg : {"yes", "no"}] \union [do : {"status"}, arg : {"accepted", "declined"}]
  \union [do : {"sheet"}, arg : {"put", "remove"}] \union [do : {"mark"}, arg : Users]
  \union [do : {"schedule"}, arg : {"none", "off", "on"}] \union [do : {"remove", "invite", "cancel"}, arg : {""}]

CampaignTypeOK ==
  /\ me \in Users /\ server \in Campaigns /\ seen \in Campaigns /\ loaded \subseteq Parts
  /\ panel \in {"none", "invite", "edit", "replace", "error"}
  /\ \A a \in asks : a.state \in {"sent", "ok", "refused"} /\ a.reply \in Campaigns
  /\ writes \in 0..MaxWrites

Init ==
  /\ me \in Users /\ server \in {[Fresh EXCEPT !.member = m, !.sched = "on"] : m \in {"invited", "accepted"}}
  /\ seen = Fresh /\ loaded = {} /\ panel = "none" /\ asks = Loads(Parts) /\ writes = 0

(* To the list of campaigns and back; what was sent may still be served.    *)
Leave ==
  /\ seen' = Fresh /\ loaded' = {} /\ panel' = "none" /\ asks' = Loads(Parts)
  /\ UNCHANGED <<me, server, writes>>

-----------------------------------------------------------------------------
(* At the server                                                            *)

CanManage(u) == u = "gm" /\ ~server.archived
CanView(u) == u = "gm" \/ server.member = "accepted"

(* Deviation: the freeze is not looked at when a status is changed.         *)
AllowedFrozen(u, w) ==
  CASE w.do = "archive" -> u = "gm"
    [] w.do \in {"invite", "schedule"} -> CanManage(u) /\ (w.do = "invite" => server.member = "out")
    [] w.do = "status" -> server.member # "out"
    [] w.do = "remove" -> server.member # "out" /\ (u = "pl" \/ ~server.archived)
    [] w.do = "sheet" -> ~server.archived /\ server.member # "out"
    [] w.do = "mark" -> CanView(u) /\ ~server.archived
    [] w.do = "cancel" -> CanManage(u)
    [] OTHER -> FALSE

(* Who may do what, and what an archived campaign refuses: everything but   *)
(* unarchiving it and a player's own leaving.                               *)
Allowed(u, w) ==
  CASE w.do = "archive" -> u = "gm"
    [] w.do \in {"invite", "schedule"} -> CanManage(u) /\ (w.do = "invite" => server.member = "out")
    [] w.do = "status" -> ~server.archived /\ server.member # "out"
    [] w.do = "remove" -> server.member # "out" /\ (u = "pl" \/ ~server.archived)
    [] w.do = "sheet" -> ~server.archived /\ server.member # "out"
    [] w.do = "mark" -> CanView(u) /\ ~server.archived
    [] w.do = "cancel" -> CanManage(u)
    [] OTHER -> FALSE

(* The writes. A request to mark a date names no user: it is the caller's.  *)
Effect(u, w) ==
  CASE w.do = "archive" -> [server EXCEPT !.archived = (w.arg = "yes")]
    [] w.do = "invite" -> [server EXCEPT !.member = "invited"]
    [] w.do = "status" -> [server EXCEPT !.member = w.arg]
    [] w.do = "remove" -> [server EXCEPT !.member = "out", !.sheet = FALSE]
    [] w.do = "sheet" -> [server EXCEPT !.sheet = (w.arg = "put")]
    [] w.do = "mark" -> [server EXCEPT !.marked = @ \union {u}]
    [] w.do = "cancel" -> [server EXCEPT !.cancelled = ~@, !.marked = @ \union {u}]
    [] w.do = "schedule" -> [server EXCEPT !.sched = w.arg]

Answered(a, s, r) == asks' = (asks \ {a}) \union {[a EXCEPT !.state = s, !.reply = r]}

Serve(a) ==
  /\ a.state = "sent"
  /\ IF a.do = "load"
     THEN /\ UNCHANGED server
          /\ IF CanView(me) \/ (a.arg = "campaign" /\ server.member = "invited")
             THEN Answered(a, "ok", [f \in DOMAIN Fresh |-> IF f \in FieldsOf(a.arg) THEN server[f] ELSE Fresh[f]])
             ELSE Answered(a, "refused", Fresh)
     ELSE IF Allowed(me, a) THEN server' = Effect(me, a) /\ Answered(a, "ok", Fresh)
     ELSE UNCHANGED server /\ Answered(a, "refused", Fresh)
  /\ UNCHANGED <<me, seen, loaded, panel, writes>>

(* The other one, at a page of their own.                                   *)
Elsewhere ==
  /\ \E w \in Writes : Allowed(Other(me), w) /\ server' = Effect(Other(me), w)
  /\ writes < MaxWrites /\ writes' = writes + 1 /\ UNCHANGED <<me, seen, loaded, panel, asks>>

-----------------------------------------------------------------------------
(* Answers                                                                  *)

Loaded(a) ==
  /\ a.do = "load" /\ asks' = asks \ {a} /\ UNCHANGED <<me, server, writes>>
  /\ panel' = IF a.state = "refused" /\ a.arg = "campaign" THEN "error" ELSE panel
  /\ IF a.state = "ok"
     THEN /\ seen' = [f \in DOMAIN Fresh |-> IF f \in FieldsOf(a.arg) THEN a.reply[f] ELSE seen[f]]
          /\ loaded' = loaded \union {a.arg}
     ELSE UNCHANGED seen /\ loaded' = loaded \ ({a.arg} \intersect {"schedule", "availability"})

(* What is fetched again after a write.                                     *)
After(do) ==
  CASE do \in {"mark", "cancel"} -> {"availability"}
    [] do = "schedule" -> {"schedule", "availability"}
    [] OTHER -> {"campaign"}

(* A write that was refused changes nothing and fetches nothing.            *)
Written(a) ==
  /\ a.do # "load" /\ UNCHANGED <<me, server, writes>>
  /\ IF a.state = "ok" /\ a.do = "remove" /\ me = "pl"
     THEN seen' = Fresh /\ loaded' = {} /\ panel' = "none" /\ asks' = Loads(Parts)
     ELSE /\ asks' = (asks \ {a}) \union (IF a.state = "ok" THEN Loads(After(a.do)) ELSE {})
          /\ panel' = IF a.state = "ok" /\ a.do = "invite" /\ panel = "invite" THEN "none" ELSE panel
          /\ UNCHANGED <<seen, loaded>>

Arrives(a) == a.state # "sent" /\ (Loaded(a) \/ Written(a))

-----------------------------------------------------------------------------
(* What the page offers                                                     *)

canManage == me = "gm" /\ ~seen.archived
Shown == "campaign" \in loaded /\ panel # "error"

Send(do, arg) ==
  /\ Shown /\ writes < MaxWrites /\ writes' = writes + 1
  /\ asks' = asks \union {Write(do, arg)}
  /\ UNCHANGED <<me, server, seen, loaded>>
Ask(do, arg) == Send(do, arg) /\ UNCHANGED panel
Open(p) == Shown /\ panel' = p /\ UNCHANGED <<me, server, seen, loaded, asks, writes>>

ToggleArchived == me = "gm" /\ Ask("archive", IF seen.archived THEN "no" ELSE "yes")
LeaveCampaign == me = "pl" /\ seen.member = "accepted" /\ Ask("remove", "")

Invite == panel = "invite" /\ seen.member = "out" /\ Ask("invite", "")
Respond(status) == me = "pl" /\ seen.member = "invited" /\ Ask("status", status)
RemoveMember == canManage /\ seen.member # "out" /\ Ask("remove", "")

(* A sheet is replaced only after a question.                               *)
canEditMedia == seen.member # "out" /\ (me = "pl" \/ canManage)
UploadSheet == canEditMedia /\ IF seen.sheet THEN panel = "none" /\ Open("replace") ELSE Ask("sheet", "put")
ReplaceSheet == panel = "replace" /\ Send("sheet", "put") /\ panel' = "none"
RemoveSheet == canEditMedia /\ seen.sheet /\ Ask("sheet", "remove")

(* A cell of the chart. The page sends the date and the status, whosever    *)
(* row it is; arg is the row.                                               *)
Chart == seen.sched = "on" /\ {"schedule", "availability"} \subseteq loaded
InRow(u) == u = "gm" \/ seen.member = "accepted"
SetAvailability(row) == Chart /\ InRow(row) /\ (row = me \/ canManage) /\ ~seen.cancelled /\ Ask("mark", row)
CancelDate == Chart /\ canManage /\ Ask("cancel", "")

SaveSchedule == panel = "edit" /\ Ask("schedule", "on")
ToggleSchedule == panel = "edit" /\ seen.sched # "none" /\ Ask("schedule", IF seen.sched = "on" THEN "off" ELSE "on")
DeleteSchedule == panel = "edit" /\ seen.sched = "on" /\ Ask("schedule", "none")

Header == ToggleArchived \/ LeaveCampaign \/ Leave \/ (canManage /\ panel = "none" /\ Open("edit"))
InvitePanel == Invite \/ (panel # "none" /\ Open("none"))
Roster == (canManage /\ panel = "none" /\ Open("invite")) \/ InvitePanel
MemberRow == (\E s \in {"accepted", "declined"} : Respond(s)) \/ RemoveMember
Sheet == UploadSheet \/ ReplaceSheet \/ RemoveSheet
AvailabilityCell == CancelDate \/ \E row \in Users : SetAvailability(row)
ScheduleEditor == SaveSchedule \/ DeleteSchedule
ScheduleSetup == ToggleSchedule \/ ScheduleEditor
Editor == panel = "edit" /\ (Open("none") \/ ScheduleSetup)

Next ==
  \/ \E a \in asks : Serve(a) \/ Arrives(a)
  \/ Elsewhere
  \/ Header \/ Roster \/ MemberRow \/ Sheet \/ AvailabilityCell \/ Editor

Spec == Init /\ [][Next]_nVars

-----------------------------------------------------------------------------
(* Why it holds                                                             *)

(* A request names a status or a state of the schedule that there is.       *)
AskFields == {"do", "arg", "state", "reply"}
WellAsked(a) ==
  /\ DOMAIN a = AskFields
  /\ a.do = "status" => a.arg \in {"accepted", "declined"}
  /\ a.do = "schedule" => a.arg \in {"none", "off", "on"}
CampaignKept == me \in Users /\ server \in Campaigns /\ \A a \in asks : WellAsked(a)

-----------------------------------------------------------------------------
(* Properties                                                               *)

(* While a campaign stays archived it stays as it was, whatever pages that  *)
(* have not heard of it still send; only a player may leave it (the comment *)
(* at backend/routers/campaigns/_helpers.py:289).                           *)
KeptAsItWas ==
  server.archived /\ server'.archived =>
    \/ server' = server
    \/ server' = [server EXCEPT !.member = "out", !.sheet = FALSE]
ArchivedStaysAsItWas == [][KeptAsItWas]_nVars

(* A cell of the chart sets the row it is in: the game master may set       *)
(* another member's (the comment at backend/routers/campaigns/schedule.py:244). *)
(* It does not hold: the page drops the member that the chart passes        *)
(* (CampaignDetailView.jsx:180), and the server takes the sender's own row.  *)
CellSetsItsRow ==
  [][\A a \in asks : a.do = "mark" /\ Serve(a) => server'.marked \subseteq server.marked \union {a.arg}]_nVars
=============================================================================
