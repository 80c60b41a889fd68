-------------------------------- MODULE Page --------------------------------
(***************************************************************************)
(* The parts of the UI's page that work beside each other and share no     *)
(* state: the list of agents, the settings, the chat, the tasks and the    *)
(* notifications of an agent, the chat with the host agent, the parser of  *)
(* event streams and the card editor.  A behaviour is one part's, and the  *)
(* others are left out of it.                                              *)
(* What operations do to the connection and the session is in App.         *)
(***************************************************************************)
EXTENDS AgentList, SettingsForm, ChatForm, Tasks, HostChat, EventStream,
        CardEditor

VARIABLE part       \* the part of the page

NoList ==
  /\ store = None /\ nextId = None /\ ready = None /\ requests = None
  /\ startup = None /\ fetches = None /\ serving = None /\ catalog = None
  /\ storage = None /\ listSteps = None

NoSettings ==
  /\ settings = None /\ means = None /\ connecting = None /\ vault = None
  /\ epoch = None /\ knows = None /\ late = None /\ formSteps = None

NoChat ==
  /\ chatter = None /\ mounts = None /\ shown = None /\ composer = None
  /\ reading = None /\ inputs = None /\ sending = None /\ log = None
  /\ lastFile = None /\ dropped = None /\ chatSteps = None

NoTasks ==
  /\ tasker = None /\ wire = None /\ calls = None /\ lastCall = None
  /\ states = None /\ clock = None /\ thread = None /\ ring = None
  /\ channel = None /\ heard = None /\ enabled = None /\ base = None
  /\ taskSteps = None

NoHost ==
  /\ crew = None /\ host = None /\ turn = None /\ jar = None /\ era = None
  /\ links = None /\ talks = None /\ lastLink = None /\ lastTalk = None
  /\ taken = None /\ hostEvents = None /\ hostSteps = None /\ losses = None

NoStream ==
  stream = None /\ received = None /\ parser = None /\ emitted = None

NoEditor ==
  /\ text = None /\ anchor = None /\ at = None /\ list = None /\ saved = None /\ due = None
  /\ asked = None /\ checked = None /\ edits = None

PageInit ==
  \/ /\ part = "list" /\ ListInit
     /\ NoSettings /\ NoChat /\ NoTasks /\ NoHost
     /\ NoStream /\ NoEditor
  \/ /\ part = "settings" /\ SettingsInit
     /\ NoList /\ NoChat /\ NoTasks /\ NoHost
     /\ NoStream /\ NoEditor
  \/ /\ part = "chat" /\ ChatInit
     /\ NoList /\ NoSettings /\ NoTasks /\ NoHost
     /\ NoStream /\ NoEditor
  \/ /\ part = "tasks" /\ TasksInit
     /\ NoList /\ NoSettings /\ NoChat /\ NoHost
     /\ NoStream /\ NoEditor
  \/ /\ part = "host" /\ HostInit
     /\ NoList /\ NoSettings /\ NoChat /\ NoTasks
     /\ NoStream /\ NoEditor
  \/ /\ part = "stream" /\ StreamInit
     /\ NoList /\ NoSettings /\ NoChat /\ NoTasks
     /\ NoHost /\ NoEditor
  \/ /\ part = "editor" /\ EditorInit
     /\ NoList /\ NoSettings /\ NoChat /\ NoTasks
     /\ NoHost /\ NoStream

PageNext ==
  \/ /\ part = "list" /\ ListNext
     /\ UNCHANGED <<part, formVars, chatVars, taskVars, hostVars,
                    streamVars, editorVars>>
  \/ /\ part = "settings" /\ SettingsNext
     /\ UNCHANGED <<part, listVars, chatVars, taskVars, hostVars,
                    streamVars, editorVars>>
  \/ /\ part = "chat" /\ ChatNext
     /\ UNCHANGED <<part, listVars, formVars, taskVars, hostVars,
                    streamVars, editorVars>>
  \/ /\ part = "tasks" /\ TasksNext
     /\ UNCHANGED <<part, listVars, formVars, chatVars, hostVars,
                    streamVars, editorVars>>
  \/ /\ part = "host" /\ HostNext
     /\ UNCHANGED <<part, listVars, formVars, chatVars, taskVars,
                    streamVars, editorVars>>
  \/ /\ part = "stream" /\ StreamNext
     /\ UNCHANGED <<part, listVars, formVars, chatVars, taskVars,
                    hostVars, editorVars>>
  \/ /\ part = "editor" /\ EditorNext
     /\ UNCHANGED <<part, listVars, formVars, chatVars, taskVars,
                    hostVars, streamVars>>

pageVars == <<part, listVars, formVars, chatVars, taskVars, hostVars,
              streamVars, editorVars>>

PageSpec == PageInit /\ [][PageNext]_pageVars
-----------------------------------------------------------------------------
(* The list of agents has no two entries for one agent, shows the one that *)
(* is selected, and what it shows of an agent agrees with its card (the    *)
(* reducer's merge of resolved cards, agents.ts).                          *)
ListSound ==
  part = "list" => ListTypeOK /\ NoTwins /\ SelectionShown /\ ListAgrees

(* An agent that is given on the command line can be one of those saved    *)
(* before: then it is selected, and what is selected is in the list (the   *)
(* first comment of the effect that starts App.tsx).                       *)
StartupShown == part = "list" => SelectionShown

(* A card that comes leaves an interface that was added by hand and is in  *)
(* use in use, whatever the card offers (the resolved case of agents.ts).  *)
CustomKept == [][part = "list" => KeepsCustom]_listVars

(* A secret stored for a field of the settings stands for what was typed   *)
(* there, and the session counts it still (settings.ts, Credentials.tsx).  *)
SettingsKept == part = "settings" => RefsStand

(* What the user puts together for the agent is sent once: files with one  *)
(* message, and a form until it is answered (ChatPanel.tsx, FormPart.tsx). *)
ChatKept == part = "chat" => FilesOnce /\ FormsShown

(* The feed leaves no notification of the inspector's out once it has      *)
(* caught up, and a task is shown as subscribed only while its stream is   *)
(* (notifications.ts, subscribe of App.tsx).                               *)
FeedSound == part = "tasks" => FeedCaughtUp /\ SubscribedHasStream

(* A parser of event streams gives the events of the text however the text *)
(* is split (sse.ts).                                                      *)
StreamsSound == part = "stream" => EventsInOrder

(* The host agent is asked once for each message, whatever the inspector   *)
(* loses meanwhile and is tried again (sendToHost of App.tsx).             *)
HostKept == part = "host" => HostAsksOnce

(* The editor's text at rest is the one that is checked, in whatever order *)
(* the checks are answered (CardEditorPanel.tsx).                          *)
CheckKept == part = "editor" => CheckedAtRest

(* So it is, and completions fit whatever the user typed since their list  *)
(* opened (cardEditor.ts).                                                 *)
EditorKept == CheckKept /\ (part = "editor" => CompletionKeepsJSON /\ NoTwinKeys)
=============================================================================
