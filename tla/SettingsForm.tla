---------------------------- MODULE SettingsForm ----------------------------
(***************************************************************************)
(* The connection settings of an agent over time (components/              *)
(* Credentials.tsx, connect of App.tsx): the user edits the form; a        *)
(* message connects with the settings of the moment, and the answer puts   *)
(* references to the secrets in their place; sessions end; the page is     *)
(* loaded again.                                                           *)
(*                                                                         *)
(* A session numbers its secrets from 1 on, so a reference is a session    *)
(* and a number, and only the number is sent.                              *)
(***************************************************************************)
EXTENDS Settings

CONSTANTS Stored,        \* settings saved before, or given to the program
          Values,        \* what the user may type as a secret
          LastSecret,    \* bound on the secrets of a session
          LastFormStep   \* bound on edits

ASSUME FormAssumption ==
  LastSecret \in Nat /\ LastFormStep \in Nat /\ None \notin Nat \X Nat

(* What is there at first fits the first session: a reference is to one of *)
(* its secrets, and is for that one.                                       *)
SecretTexts ==
  [source : Sources, value : STRING, ref : {None} \cup (Nat \X Nat),
   lost : BOOLEAN]

HeaderTexts ==
  [name : STRING, value : STRING, secret : BOOLEAN,
   ref : {None} \cup (Nat \X Nat), lost : BOOLEAN]

ASSUME StoredAssumption ==
  \A s \in Stored :
    LET known(ref, value) ==
          IF ref = None THEN value = ""
          ELSE ref[1] = 1 /\ ref[2] \in DOMAIN s.vault /\ s.vault[ref[2]] = value
    IN  /\ s.settings \in [authType : AuthTypes, secret : SecretTexts,
                           headers : Seq(HeaderTexts), other : STRING]
        /\ s.means \in [auth : STRING, headers : Seq(STRING)]
        /\ Len(s.means.headers) = Len(s.settings.headers)
        /\ s.vault \in Seq(STRING)
        /\ known(s.settings.secret.ref, s.means.auth)
        /\ \A i \in DOMAIN s.settings.headers :
             known(s.settings.headers[i].ref, s.means.headers[i])

VARIABLES
  settings,   \* the agent's settings
  means,      \* the value each reference is for: the auth's and the rows'
  connecting, \* the request to connect, or None
  vault,      \* the inspector's session: the value of each of its secrets
  epoch,      \* the inspector's session, counted
  knows,      \* the session the page has the cookie of
  late,       \* whether an answer came after its session was given up
  formSteps   \* edits so far, counted

formVars == <<settings, means, connecting, vault, epoch, knows, late, formSteps>>

NoMeans(s) == [auth |-> "", headers |-> [i \in DOMAIN s.headers |-> ""]]

(* The values the secrets of a request are for: typed now, or before.      *)
Typed(value, before) == IF value = "" THEN before ELSE value

Meant(s, m) ==
  [auth |-> IF s.authType = "none" THEN m.auth
            ELSE Typed(s.secret.value, m.auth),
   headers |-> [i \in DOMAIN s.headers |->
                  LET h == s.headers[i]
                  IN  IF Named(h) /\ h.secret THEN Typed(h.value, m.headers[i])
                      ELSE m.headers[i]]]

(* The session's references for the secrets of a request, in its order:    *)
(* what was stored before is as it was, what is new is stored.             *)
Inputs(req) ==
  <<req.auth.secret>> \o
    [i \in DOMAIN req.headers |-> req.headers[i].secret]

Resolvable(input) ==
  /\ input.kind = "ref" => input.of[2] <= Len(vault)
  /\ input.kind = "env" => input.of # ""

SecretsStored(inputs) ==
  LET fresh == {i \in DOMAIN inputs : inputs[i].kind \notin {"plain", "ref"}}
      number(i) == Len(vault) + Cardinality({j \in fresh : j <= i})
      new == Picked(inputs, fresh)
  IN  [refs |-> [i \in DOMAIN inputs |->
                   IF inputs[i].kind = "plain" THEN None
                   ELSE IF inputs[i].kind = "ref" THEN <<epoch, inputs[i].of[2]>>
                   ELSE <<epoch, number(i)>>],
       vault |-> vault \o [n \in DOMAIN new |-> new[n].of]]
-----------------------------------------------------------------------------
SettingsInit ==
  /\ \E s \in Stored :
       /\ settings = s.settings /\ means = s.means /\ vault = s.vault
  /\ connecting = None /\ epoch = 1 /\ knows = 1 /\ late = FALSE
  /\ formSteps = 0

Idle == UNCHANGED <<connecting, vault, epoch, knows, late>>

Edits(s, m) ==
  /\ formSteps < LastFormStep /\ formSteps' = formSteps + 1
  /\ settings' = s /\ means' = m /\ Idle

EditAuth ==
  \/ \E type \in AuthTypes :
       Edits(SetAuthType(settings, type), [means EXCEPT !.auth = ""])
  \/ /\ settings.authType # "none"
     /\ \/ \E source \in Sources :
             Edits(SetSource(settings, source), [means EXCEPT !.auth = ""])
        \/ \E v \in Values \cup {""} : Edits(SetSecret(settings, v), means)

EditHeader ==
  \E i \in DOMAIN settings.headers :
    \/ \E name \in {"", "h"} : Edits(SetHeaderName(settings, i, name), means)
    \/ \E v \in Values \cup {""} : Edits(SetHeaderValue(settings, i, v), means)
    \/ \E secret \in BOOLEAN :
         /\ secret # settings.headers[i].secret
         /\ Edits(SetHeaderSecret(settings, i, secret),
                  [means EXCEPT !.headers[i] = ""])
    \/ Edits(RemoveHeader(settings, i),
             [means EXCEPT !.headers = RemoveAt(@, i)])

AddsHeader ==
  Edits(AddHeader(settings), [means EXCEPT !.headers = Append(@, "")])

(* A message connects with the settings and the cookie of the moment.      *)
ConnectRequest(s, m, jar, again) ==
  [settings |-> s, means |-> Meant(s, m), epoch |-> jar, again |-> again,
   answer |-> None]

ConnectsWith ==
  /\ connecting = None /\ ~ HasLostSecrets(settings)
  /\ connecting' = ConnectRequest(settings, means, knows, FALSE)
  /\ UNCHANGED <<settings, means, vault, epoch, knows, late, formSteps>>

ConnectAnswer(type, refs) == [type |-> type, epoch |-> epoch, refs |-> refs]

Serves ==
  LET inputs == Inputs(SettingsRequest(connecting.settings))
      stored == SecretsStored(inputs)
      replies(a) == connecting' = [connecting EXCEPT !.answer = a]
  IN  /\ connecting # None /\ connecting.answer = None
      /\ \/ /\ connecting.epoch # epoch
            /\ replies(ConnectAnswer("renewed", <<>>)) /\ UNCHANGED vault
         \/ /\ connecting.epoch = epoch
            /\ replies(ConnectAnswer("error", <<>>)) /\ UNCHANGED vault
         \/ /\ connecting.epoch = epoch
            /\ \A i \in DOMAIN inputs : Resolvable(inputs[i])
            /\ Len(stored.vault) <= LastSecret
            /\ vault' = stored.vault
            /\ replies(ConnectAnswer("connected", stored.refs))
      /\ UNCHANGED <<settings, means, epoch, knows, late, formSteps>>

Receives(type) ==
  IF connecting = None THEN FALSE
  ELSE connecting.answer # None /\ connecting.answer.type = type

ReceivesConnected ==
  LET refs == connecting.answer.refs
  IN  /\ Receives("connected") /\ connecting' = None
      /\ settings' = SettingsAfterConnect(connecting.settings,
                       [auth |-> refs[1], headers |-> Tail(refs)])
      /\ means' = connecting.means
      /\ late' = (late \/ connecting.answer.epoch # knows)
      /\ UNCHANGED <<vault, epoch, knows, formSteps>>

ReceivesError ==
  /\ Receives("error") /\ connecting' = None
  /\ UNCHANGED <<settings, means, vault, epoch, knows, late, formSteps>>

(* The page hears that its session is a new one.                           *)
Reset ==
  /\ knows' = epoch
  /\ settings' = SettingsAfterSessionLoss(settings)
  /\ means' = NoMeans(settings)
  /\ UNCHANGED <<vault, epoch, late, formSteps>>

(* It connects again, once, unless a secret has to be entered again.       *)
ReceivesRenewed ==
  LET left == SettingsAfterSessionLoss(connecting.settings)
  IN  /\ Receives("renewed") /\ Reset
      /\ connecting' = IF connecting.again \/ HasLostSecrets(left) THEN None
                       ELSE ConnectRequest(left, NoMeans(left), epoch, TRUE)

(* Another request of the page is told so.                                 *)
OtherRenewed == knows # epoch /\ Reset /\ UNCHANGED connecting

SessionGoes ==
  /\ epoch = 1 /\ epoch' = 2 /\ vault' = <<>>
  /\ UNCHANGED <<settings, means, connecting, knows, late, formSteps>>

LoadsAgain ==
  /\ formSteps < LastFormStep /\ formSteps' = formSteps + 1
  /\ settings' = ReadSettings(SaveSettings(settings, TRUE), TRUE)
  /\ means' = NoMeans(settings') /\ connecting' = None /\ late' = FALSE
  /\ UNCHANGED <<vault, epoch, knows>>

SettingsNext ==
  \/ EditAuth \/ EditHeader \/ AddsHeader \/ ConnectsWith \/ Serves
  \/ ReceivesConnected \/ ReceivesError \/ ReceivesRenewed \/ OtherRenewed
  \/ SessionGoes \/ LoadsAgain
-----------------------------------------------------------------------------
(* A reference in the form is for the value last connected with in its own *)
(* field, however rows come and go, unless an answer of a session that was *)
(* given up brought references that another session counts again.          *)
RefsStand ==
  LET stands(ref, value) ==
        ref # None /\ ref[1] = epoch
          => ref[2] \in DOMAIN vault /\ vault[ref[2]] = value
  IN  late \/ /\ stands(settings.secret.ref, means.auth)
              /\ \A i \in DOMAIN settings.headers :
                   stands(settings.headers[i].ref, means.headers[i])
=============================================================================
