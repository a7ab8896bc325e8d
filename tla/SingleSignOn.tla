---------------------------- MODULE SingleSignOn ----------------------------
(***************************************************************************)
(* The form of the single sign-on settings (OIDCSettingsSection): a field   *)
(* is saved on its own when it is left, a box or a choice when it changes,  *)
(* the secret by its button; endpoints can be looked up at the identity     *)
(* provider. An answer holds every setting and replaces every draft. Fields *)
(* that the environment sets are locked. Each kind of row of the form (a    *)
(* text field, a box, a choice) stands for all rows of its kind.            *)
(***************************************************************************)
EXTENDS Integers, FiniteSets

CONSTANTS
  Endpoints,  \* text fields a look-up may fill; "issuer" is the one it starts from
  LockSets,   \* what the environment may lock
  MaxAsked    \* bound: requests under way

VARIABLES
  locked,          \* the fields with _env_locked
  server,          \* the settings as they are kept
  loaded, data, draft,
  saving, discovering, \* savingField, discovering
  touched,         \* history: locked fields a request has named
  asks             \* requests: [kind, put, answered, got]

ssoVars == <<locked, server, loaded, data, draft, saving, discovering, touched, asks>>

Texts == Endpoints \union {"issuer"}
Fields == Texts \union {"enabled", "choice", "secret"}
Values == {"", "typed", "found"}
Settings == [Fields -> Values]
Blank == [f \in Fields |-> ""]
Puts == UNION {[F -> Values] : F \in SUBSET Fields}
Nowhere == "none"

SsoTypeOK ==
  /\ locked \in LockSets /\ server \in Settings /\ data \in Settings /\ draft \in Settings
  /\ loaded \in BOOLEAN /\ discovering \in BOOLEAN /\ saving \in Fields \union {Nowhere}
  /\ touched \subseteq Fields
  /\ \A a \in asks : a \in [kind : {"load", "patch", "discover", "fill"}, put : Puts, answered : BOOLEAN, got : Settings]

New(kind, put) == [kind |-> kind, put |-> put, answered |-> FALSE, got |-> Blank]
Send(kind, put) ==
  /\ Cardinality(asks) < MaxAsked /\ asks' = asks \union {New(kind, put)}
  /\ touched' = touched \union (IF kind = "patch" THEN DOMAIN put \intersect locked ELSE {})

Init ==
  /\ locked \in LockSets /\ server = [f \in Fields |-> IF f \in locked THEN "typed" ELSE ""]
  /\ loaded = FALSE /\ data = Blank /\ draft = Blank
  /\ saving = Nowhere /\ discovering = FALSE /\ touched = {} /\ asks = {New("load", Blank)}

-----------------------------------------------------------------------------
(* What the form offers                                                     *)

Type(f, v) ==
  /\ loaded /\ draft[f] # v /\ draft' = [draft EXCEPT ![f] = v]
  /\ UNCHANGED <<locked, server, loaded, data, saving, discovering, touched, asks>>

SaveField(f, d) ==
  /\ loaded /\ f \notin locked /\ Send("patch", [x \in {f} |-> d[f]])
  /\ saving' = f /\ draft' = d
  /\ UNCHANGED <<locked, server, loaded, data, discovering>>

StringBlur(f) == draft[f] # data[f] /\ SaveField(f, draft)
BoolToggle(f) == SaveField(f, [draft EXCEPT ![f] = IF @ = "" THEN "typed" ELSE ""])
SelectChange(f, v) == draft[f] # v /\ SaveField(f, [draft EXCEPT ![f] = v])
SaveSecret == draft.secret # "" /\ SaveField("secret", draft)
ClearSecret ==
  /\ loaded /\ "secret" \notin locked
  /\ Send("patch", [f \in {"secret"} |-> ""]) /\ saving' = "secret"
  /\ UNCHANGED <<locked, server, loaded, data, draft, discovering>>

(* The look-up keeps the drafts of the click.                               *)
Discover ==
  /\ loaded /\ ~discovering /\ draft.issuer # "" /\ discovering' = TRUE /\ Send("discover", draft)
  /\ UNCHANGED <<locked, server, loaded, data, draft, saving>>

-----------------------------------------------------------------------------
(* The server, and its answers                                              *)

(* A request that names a locked setting is refused as a whole.             *)
Stored(put) ==
  IF DOMAIN put \intersect locked # {} THEN server
  ELSE [f \in Fields |-> IF f \in DOMAIN put THEN put[f] ELSE server[f]]
Serve(a) ==
  /\ ~a.answered
  /\ server' = (IF a.kind \in {"patch", "fill"} THEN Stored(a.put) ELSE server)
  /\ asks' = (asks \ {a}) \union {[a EXCEPT !.answered = TRUE, !.got = server']}
  /\ UNCHANGED <<locked, loaded, data, draft, saving, discovering, touched>>

(* The answer and the effect that mirrors it: whatever is in the fields by  *)
(* now gives way; only a secret being typed stays, unless it is the answer's*)
Mirrored(a) ==
  /\ data' = a.got
  /\ draft' = [a.got EXCEPT !.secret = IF a.kind = "patch" /\ "secret" \in DOMAIN a.put /\ a.put["secret"] # "" THEN "" ELSE draft.secret]

Loaded(a) ==
  /\ a.answered /\ a.kind = "load" /\ Mirrored(a) /\ loaded' = TRUE /\ asks' = asks \ {a}
  /\ UNCHANGED <<locked, server, saving, discovering, touched>>

Saved(a) ==
  /\ a.answered /\ a.kind = "patch" /\ Mirrored(a) /\ saving' = Nowhere /\ asks' = asks \ {a}
  /\ UNCHANGED <<locked, server, loaded, discovering, touched>>

(* Deviation: the issuer of the look-up is taken over even when it is set   *)
(* by the environment.                                                      *)
UpdatesUnlocked(base, found) ==
  [f \in {"issuer"} \union {x \in found \ locked : base[x] = ""} |-> "found"]

(* What a look-up changes: the issuer as the provider writes it, and the    *)
(* endpoints that were empty when it began.                                 *)
Updates(base, found) ==
  [f \in ({"issuer"} \union {x \in found : base[x] = ""}) \ locked |-> "found"]

(* The look-up answers with some of the endpoints; what it changes is saved.*)
Discovered(a, found) ==
  /\ a.answered /\ a.kind = "discover"
  /\ LET put == Updates(a.put, found)
     IN /\ touched' = touched \union (DOMAIN put \intersect locked)
        /\ IF DOMAIN put = {} THEN discovering' = FALSE /\ asks' = asks \ {a}
           ELSE asks' = (asks \ {a}) \union {New("fill", put)} /\ UNCHANGED discovering
  /\ UNCHANGED <<locked, server, loaded, data, draft, saving>>

Filled(a) ==
  /\ a.answered /\ a.kind = "fill" /\ Mirrored(a) /\ discovering' = FALSE /\ asks' = asks \ {a}
  /\ UNCHANGED <<locked, server, loaded, saving, touched>>

(* A request is lost or refused, or its answer is: the drafts stay as they  *)
(* are, ticks as well. The form that does not load stays away.              *)
Fails(a) ==
  /\ asks' = asks \ {a}
  /\ saving' = (IF a.kind = "patch" THEN Nowhere ELSE saving)
  /\ discovering' = (IF a.kind \in {"discover", "fill"} THEN FALSE ELSE discovering)
  /\ UNCHANGED <<locked, server, loaded, data, draft, touched>>

-----------------------------------------------------------------------------
(* The rows of the form: what each lets the admin do, and when              *)

Typed == {"", "typed"}
FieldRow(f) == f \notin locked /\ (StringBlur(f) \/ \E v \in Typed : Type(f, v))
CheckboxRow == "enabled" \notin locked /\ saving # "enabled" /\ BoolToggle("enabled")
SelectRow == "choice" \notin locked /\ \E v \in Typed : SelectChange("choice", v)
IssuerRow == FieldRow("issuer") \/ Discover
SecretRow ==
  /\ "secret" \notin locked
  /\ \/ \E v \in Typed : Type("secret", v)
     \/ saving # "secret" /\ SaveSecret
     \/ saving # "secret" /\ data.secret # "" /\ ClearSecret
Form ==
  \/ CheckboxRow \/ IssuerRow \/ SecretRow \/ SelectRow
  \/ \E f \in Endpoints : FieldRow(f)

Next ==
  \/ Form
  \/ \E a \in asks : \/ Serve(a) \/ Loaded(a) \/ Saved(a) \/ Filled(a) \/ Fails(a)
                     \/ \E found \in SUBSET Endpoints : Discovered(a, found)

SsoSpec == Init /\ [][Next]_ssoVars

-----------------------------------------------------------------------------
(* Properties                                                               *)

(* Whichever way a setting is changed, by hand, by its button or by a       *)
(* look-up, no request ever names a setting that the environment has set    *)
(* (OIDCSettingsSection 71-76, 121-131, 148-152, 166-168).                  *)
LockedUntouched == touched = {}

(* A look-up fills what is empty and nothing else (OIDCSettingsSection 124: *)
(* "don't overwrite values the admin already set"). It does not hold: it    *)
(* looks at the drafts of the click, so that a value saved while it runs is *)
(* overwritten.                                                             *)
FillsOnlyEmpty ==
  [][\A a \in asks : (a.kind = "fill" /\ Serve(a))
       => \A f \in DOMAIN a.put \ {"issuer"} : server[f] = ""]_ssoVars
=============================================================================
