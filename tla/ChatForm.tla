------------------------------ MODULE ChatForm ------------------------------
(***************************************************************************)
(* What the user puts together in the chat of an agent                     *)
(* (components/ChatPanel.tsx, FormPart.tsx, a2a/form.ts): a message with   *)
(* files, which are read while everything goes on, or a raw one; and the   *)
(* forms in the transcript, which stay open until the agent has answered.  *)
(* The chat goes with its tab: what was not sent is gone when another tab  *)
(* is opened.                                                              *)
(*                                                                         *)
(* Texts are told apart by whether they are empty, and JSON by whether it  *)
(* is an object, another value or not JSON.  A file stands for one choice  *)
(* of it.                                                                  *)
(***************************************************************************)
EXTENDS AgentStore, Payload

CONSTANTS Transcript,   \* data parts in the transcript, by key
          FieldTexts,   \* what may be typed in a form's field
          Numerals,     \* those that are numbers
          LastFile,     \* bound on files chosen
          LastChatStep  \* bound on what the user does

ASSUME ChatAssumption ==
  None \notin DOMAIN Transcript /\ LastFile \in Nat /\ LastChatStep \in Nat

VARIABLES
  chatter,    \* the agent, as a list of one
  mounts,     \* how often the chat was opened, counted
  shown,      \* whether it is open
  composer,   \* the state of Composer, and whether push is on
  reading,    \* files being read: those chosen together, and by which mount
  inputs,     \* what the forms' fields hold
  sending,    \* the message the agent has not answered, as a list of one
  log,        \* messages sent, and how each was answered
  lastFile,   \* files chosen, counted
  dropped,    \* files removed, not read, or gone with the chat
  chatSteps   \* what the user did so far, counted

chatVars == <<chatter, mounts, shown, composer, reading, inputs, sending, log,
              lastFile, dropped, chatSteps>>

Chatter == chatter[1]
Forms == {k \in DOMAIN Transcript : ReadForm(Transcript[k]) # Nothing}
FormOf(k) == ReadForm(Transcript[k])
Initial(k) == [f \in DOMAIN FormOf(k) |-> FormOf(k)[f].initial]

EmptyComposer ==
  [mode |-> "message", text |-> FALSE, attachments |-> <<>>, data |-> "",
   metadata |-> "", raw |-> FALSE, error |-> FALSE, push |-> FALSE]

Message(form, values, files) ==
  [form |-> form, values |-> values, files |-> files, push |-> composer.push,
   typed |-> IF form = None THEN None ELSE inputs[form], ok |-> FALSE]
-----------------------------------------------------------------------------
ChatInit ==
  /\ chatter = <<[CreateAgent(1, "u", "card") EXCEPT !.status = "done"]>>
  /\ mounts = 1 /\ shown = TRUE /\ composer = EmptyComposer /\ reading = {}
  /\ inputs = [k \in Forms |-> Initial(k)]
  /\ sending = <<>> /\ log = <<>> /\ lastFile = 0 /\ dropped = {}
  /\ chatSteps = 0

ChatStep == chatSteps < LastChatStep /\ chatSteps' = chatSteps + 1

(* The fields and options of the composer.  The first look at the raw      *)
(* message fills in its template.                                          *)
Compose ==
  /\ ChatStep /\ shown
  /\ \/ \E b \in BOOLEAN : composer' = [composer EXCEPT !.push = b]
     \/ composer' = [composer EXCEPT !.mode = "message"]
     \/ composer' = [composer EXCEPT !.mode = "raw", !.raw = TRUE]
     \/ /\ composer.mode = "raw"
        /\ \E b \in BOOLEAN : composer' = [composer EXCEPT !.raw = b]
     \/ /\ composer.mode = "message"
        /\ \/ \E b \in BOOLEAN : composer' = [composer EXCEPT !.text = b]
           \/ \E json \in {"", "object", "other", "broken"} :
                \/ composer' = [composer EXCEPT !.data = json]
                \/ composer' = [composer EXCEPT !.metadata = json]
  /\ UNCHANGED <<chatter, mounts, shown, reading, inputs, sending, log,
                 lastFile, dropped>>

(* Files chosen together are attached together, once all are read.         *)
AddFiles ==
  /\ ChatStep /\ shown /\ composer.mode = "message"
  /\ \E n \in 1..2 :
       /\ lastFile + n <= LastFile /\ lastFile' = lastFile + n
       /\ reading' = reading \cup
            {[files |-> [i \in 1..n |-> lastFile + i], mount |-> mounts]}
  /\ UNCHANGED <<chatter, mounts, shown, composer, inputs, sending, log,
                 dropped>>

FilesRead ==
  /\ \E batch \in reading :
       LET here == shown /\ batch.mount = mounts
       IN  /\ reading' = reading \ {batch}
           /\ \/ /\ here /\ UNCHANGED dropped
                 /\ composer' = [composer EXCEPT !.attachments =
                                   @ \o batch.files]
              \/ /\ dropped' = dropped \cup Range(batch.files)
                 /\ composer' = IF here THEN [composer EXCEPT !.error = TRUE]
                                ELSE composer
  /\ UNCHANGED <<chatter, mounts, shown, inputs, sending, log, lastFile,
                 chatSteps>>

RemoveAttachment ==
  /\ ChatStep /\ shown /\ composer.mode = "message"
  /\ \E i \in DOMAIN composer.attachments :
       /\ composer' = [composer EXCEPT !.attachments = RemoveAt(@, i)]
       /\ dropped' = dropped \cup {composer.attachments[i]}
  /\ UNCHANGED <<chatter, mounts, shown, reading, inputs, sending, log,
                 lastFile>>

(* App.send, up to its first await.                                        *)
Sends(message) ==
  /\ sending' = <<message>>
  /\ chatter' = Busy(Chat(chatter, 1, "sent"), 1, TRUE)

(* Mutant: the attachments stay in the composer.                           *)
ClearedText(c) == [c EXCEPT !.text = FALSE]

Cleared(c) == [c EXCEPT !.text = FALSE, !.attachments = <<>>]

(* Send, or Enter; data and metadata stay for the next message.            *)
Submit ==
  LET c == [composer EXCEPT !.error = FALSE]
      stays(d) == composer' = d /\ UNCHANGED <<chatter, sending>>
  IN  /\ ChatStep /\ shown /\ ~ Chatter.busy
      /\ IF c.mode = "raw"
         THEN /\ composer' = c
              /\ IF c.raw THEN Sends(Message(None, None, <<>>))
                 ELSE UNCHANGED <<chatter, sending>>
         ELSE IF c.data = "broken" \/ c.metadata \in {"other", "broken"}
         THEN stays([c EXCEPT !.error = TRUE])
         ELSE IF ~ c.text /\ c.attachments = <<>> /\ c.data = ""
         THEN stays(c)
         ELSE /\ Sends(Message(None, None, c.attachments))
              /\ composer' = Cleared(c)
      /\ UNCHANGED <<mounts, shown, reading, inputs, log, lastFile, dropped>>

OpenForm(k) == k \in Forms /\ k \notin DOMAIN Chatter.forms

FillForm ==
  /\ ChatStep /\ shown
  /\ \E k \in Forms : \E f \in DOMAIN FormOf(k) :
         \E v \in IF FormOf(k)[f].type = "checkbox" THEN {"on", "off"}
                   ELSE FieldTexts :
           OpenForm(k) /\ inputs' = [inputs EXCEPT ![k][f] = v]
  /\ UNCHANGED <<chatter, mounts, shown, composer, reading, sending, log,
                 lastFile, dropped>>

SubmitForm ==
  /\ ChatStep /\ shown /\ ~ Chatter.busy
  /\ \E k \in Forms :
       /\ OpenForm(k)
       /\ Sends(Message(k, FormValues(FormOf(k), inputs[k], Numerals), <<>>))
  /\ UNCHANGED <<mounts, shown, composer, reading, inputs, log, lastFile,
                 dropped>>

(* The agent answered, or did not.  A form is over when it did.            *)
AgentReplies ==
  /\ sending # <<>> /\ sending' = <<>>
  /\ \E ok \in BOOLEAN :
       LET m == sending[1]
           said == Chat(chatter, 1, IF ok THEN "answered" ELSE "error")
           idle == Busy(said, 1, FALSE)
       IN  /\ log' = Append(log, [m EXCEPT !.ok = ok])
           /\ chatter' = IF ok /\ m.form # None
                         THEN FormSubmitted(idle, 1, m.form, m.values)
                         ELSE idle
  /\ UNCHANGED <<mounts, shown, composer, reading, inputs, lastFile, dropped,
                 chatSteps>>

(* Another tab is opened, or the chat again.                               *)
OpenTab ==
  /\ ChatStep /\ shown' = ~ shown
  /\ mounts' = IF shown THEN mounts ELSE mounts + 1
  /\ dropped' = dropped \cup Range(composer.attachments)
  /\ composer' = EmptyComposer /\ inputs' = [k \in Forms |-> Initial(k)]
  /\ UNCHANGED <<chatter, reading, sending, log, lastFile>>

ChatNext ==
  \/ Compose \/ AddFiles \/ FilesRead \/ RemoveAttachment \/ Submit
  \/ FillForm \/ SubmitForm \/ AgentReplies \/ OpenTab
-----------------------------------------------------------------------------
(* A file that was chosen goes with one message, whatever is sent, failed  *)
(* or removed while it is read, or is still beside the next one.           *)
FilesOnce ==
  LET sent == log \o sending
      places(n) ==
        (IF n \in dropped THEN 1 ELSE 0)
        + Cardinality({b \in reading : n \in Range(b.files)})
        + Cardinality({i \in DOMAIN composer.attachments :
                         composer.attachments[i] = n})
        + Cardinality({i \in DOMAIN sent : n \in Range(sent[i].files)})
  IN  \A n \in 1..lastFile : places(n) = 1

(* A form is over once the agent answered to it, and shows what was typed  *)
(* when that answer was sent, whatever was typed while it was waited for.  *)
FormsShown ==
  \A k \in Forms :
    LET answered == {i \in DOMAIN log : log[i].form = k /\ log[i].ok}
        same(shows, typed) ==
          \A f \in DOMAIN FormOf(k) :
            shows[f] = IF FormOf(k)[f].type = "number" /\ typed[f] \notin Numerals
                       THEN "" ELSE typed[f]
    IN  /\ Cardinality(answered) = IF OpenForm(k) THEN 0 ELSE 1
        /\ \A i \in answered :
             same(FormInputs(FormOf(k), Chatter.forms[k]), log[i].typed)
=============================================================================
