------------------------------ MODULE Settings ------------------------------
(***************************************************************************)
(* The connection settings of an agent (src/ui/src/settings.ts), the form  *)
(* that edits them (components/Credentials.tsx) and how they are saved     *)
(* (catalog.ts).  A secret is typed once: the inspector's session stores   *)
(* it and gives a reference to it, and only the reference stays here.      *)
(*                                                                         *)
(* A value is "" or what was typed, a reference is None or what the        *)
(* session answered.  The user name, extensions and tenant are one text,   *)
(* which the code copies as it is; the masked forms are only shown.        *)
(***************************************************************************)
EXTENDS Sequences, Integers, SequencesExt

CONSTANTS None         \* a missing value: no reference, no auth

Sources == {"value", "env"}
AuthTypes == {"none", "bearer"}

EmptySecret == [source |-> "value", value |-> "", ref |-> None, lost |-> FALSE]

DefaultSettings ==
  [authType |-> "none", secret |-> EmptySecret, headers |-> <<>>, other |-> ""]

IsList(s) == s \in Seq(Range(s))

(* The entries at the places, in their order: SelectSeq in other words,    *)
(* as the provers know nothing of SelectSeq.                               *)
Place(places, n) ==
  CHOOSE i \in places : Cardinality({j \in places : j <= i}) = n

Picked(s, places) == [n \in 1..Cardinality(places) |-> s[Place(places, n)]]

(* A header of the form's list: plain, or a secret as an auth secret is.   *)
Header(name, value, secret, ref, lost) ==
  [name |-> name, value |-> value, secret |-> secret, ref |-> ref,
   lost |-> lost]

(* Settings for the headers given on the command line, whose secrets the   *)
(* session has stored already.                                             *)
SettingsFromHeaders(views) ==
  [DefaultSettings EXCEPT !.headers =
     [i \in DOMAIN views |->
        Header(views[i].name, views[i].value, views[i].ref # None,
               views[i].ref, FALSE)]]

SecretInput(s, env) ==
  IF s.ref # None /\ s.value = "" THEN [kind |-> "ref", of |-> s.ref]
  ELSE [kind |-> IF env THEN "env" ELSE "value", of |-> s.value]

(* A secret the session lost that was not entered again.                   *)
Missing(s) == s.lost /\ s.value = ""

NoAuth == [type |-> "none", secret |-> [kind |-> "plain", of |-> ""]]

AuthInput(s) ==
  IF s.authType = "none" \/ Missing(s.secret) THEN NoAuth
  ELSE [type |-> s.authType,
        secret |-> SecretInput(s.secret, s.secret.source = "env")]

HeaderInput(h) ==
  IF h.secret THEN [name |-> h.name, secret |-> SecretInput(h, FALSE)]
  ELSE [name |-> h.name, secret |-> [kind |-> "plain", of |-> h.value]]

Named(h) == h.name # ""

SettingsRequest(s) ==
  LET asked(h) == Named(h) /\ ~ (h.secret /\ Missing(h))
      sent == Picked(s.headers,
                     {i \in DOMAIN s.headers : asked(s.headers[i])})
  IN  [auth |-> AuthInput(s), other |-> s.other,
       headers |-> [i \in DOMAIN sent |-> HeaderInput(sent[i])]]

(* References to secrets of a session that ended are of no use.            *)
SettingsAfterSessionLoss(s) ==
  LET secret == s.secret
      lostHeader(h) == IF h.ref = None THEN h
                       ELSE [h EXCEPT !.ref = None, !.lost = TRUE]
  IN  [s EXCEPT
         !.secret = [secret EXCEPT
           !.ref = None,
           !.lost = @ \/ (secret.ref # None /\ secret.source = "value")],
         !.headers = [i \in DOMAIN s.headers |-> lostHeader(s.headers[i])]]

HasLostSecrets(s) ==
  \/ s.authType # "none" /\ Missing(s.secret)
  \/ \E i \in DOMAIN s.headers :
       Named(s.headers[i]) /\ s.headers[i].secret /\ Missing(s.headers[i])

(* Mutant: every row counts, as if all of them had been sent.              *)
ViewIndexOfRow(s, i) == i

(* The place of row i's header among those of the connection: rows without *)
(* a name were not sent.                                                   *)
ViewIndex(s, i) == Cardinality({j \in 1..i : Named(s.headers[j])})

(* conn.auth and conn.headers are the references the session gave, None    *)
(* for no auth and for a header that is no secret.                         *)
SettingsAfterConnect(s, conn) ==
  LET view(i) == IF ViewIndex(s, i) \in DOMAIN conn.headers
                 THEN conn.headers[ViewIndex(s, i)] ELSE None
      stored(h, ref) == [h EXCEPT !.value = "", !.ref = ref, !.lost = FALSE]
      row(i) == IF Named(s.headers[i]) /\ s.headers[i].secret /\ view(i) # None
                THEN stored(s.headers[i], view(i)) ELSE s.headers[i]
  IN  [s EXCEPT
         !.secret = IF conn.auth = None THEN @
                    ELSE IF @.source = "env"
                    THEN [@ EXCEPT !.ref = conn.auth, !.lost = FALSE]
                    ELSE stored(@, conn.auth),
         !.headers = [i \in DOMAIN s.headers |-> row(i)]]
-----------------------------------------------------------------------------
(* The form.  A new auth type or source empties the secret; a new value    *)
(* keeps the stored one beside it, which counts again when it is erased.   *)
SetAuthType(s, type) == [s EXCEPT !.authType = type, !.secret = EmptySecret]

SetSource(s, source) ==
  [s EXCEPT !.secret = [EmptySecret EXCEPT !.source = source]]

SetSecret(s, value) == [s EXCEPT !.secret.value = value]

SetHeaderName(s, i, name) == [s EXCEPT !.headers[i].name = name]

SetHeaderValue(s, i, value) == [s EXCEPT !.headers[i].value = value]

SetHeaderSecret(s, i, secret) ==
  [s EXCEPT !.headers[i].secret = secret, !.headers[i].ref = None]

RemoveHeader(s, i) == [s EXCEPT !.headers = RemoveAt(@, i)]

AddHeader(s) ==
  [s EXCEPT !.headers = Append(@, Header("", "", FALSE, None, FALSE))]

SetOther(s, text) == [s EXCEPT !.other = text]
-----------------------------------------------------------------------------
(* What is saved of the settings: no secret, only that there is one, and   *)
(* the name of an environment variable where the inspector allows them.    *)
SaveSettings(s, envSecrets) ==
  LET rows == Picked(s.headers,
                     {i \in DOMAIN s.headers : Named(s.headers[i])})
  IN  [authType |-> s.authType, other |-> s.other,
       envVar |-> IF envSecrets /\ s.authType # "none"
                       /\ s.secret.source = "env"
                  THEN s.secret.value ELSE "",
       headers |-> [i \in DOMAIN rows |->
                      [name |-> rows[i].name, secret |-> rows[i].secret,
                       value |-> IF rows[i].secret THEN ""
                                 ELSE rows[i].value]]]

ReadSettings(saved, envSecrets) ==
  [authType |-> saved.authType, other |-> saved.other,
   secret |-> IF saved.authType = "none" THEN EmptySecret
              ELSE IF envSecrets /\ saved.envVar # ""
              THEN [EmptySecret EXCEPT !.source = "env",
                                       !.value = saved.envVar]
              ELSE [EmptySecret EXCEPT !.lost = TRUE],
   headers |-> [i \in DOMAIN saved.headers |->
                  LET h == saved.headers[i]
                  IN  Header(h.name, h.value, h.secret, None, h.secret)]]
=============================================================================
