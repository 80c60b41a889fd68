----------------------------- MODULE AgentStore -----------------------------
(***************************************************************************)
(* The agents of the UI (src/ui/src/agents.ts): an entry for each, in the  *)
(* order of the list, and one operator for each action of agentsReducer.   *)
(* Every operator takes the whole list and gives the whole list, as the    *)
(* reducer does; an action for an agent that is gone changes nothing.      *)
(*                                                                         *)
(* An interface is its key, which stands for its URL, binding, version and *)
(* tenant, and whether the inspector can talk to it.  A position in a list *)
(* counts from 1, and 0 is the code's null, as for the ID of a process.    *)
(* Card texts, payloads, names and times are opaque.                       *)
(***************************************************************************)
EXTENDS Settings, FiniteSets

CONSTANTS HostId       \* the selection that shows the host agent

(* The echo agent an entry stands for: of most entries, none.              *)
NoEcho == [id |-> 0, source |-> None, exited |-> FALSE]

IsEcho(a) == a.echo.id # 0

NewEntry(id, url, kind, settings) ==
  [id |-> id, kind |-> kind, url |-> url, status |-> "loading",
   identifier |-> None, card |-> None, savedInterface |-> None,
   shared |-> FALSE, draft |-> None, echo |-> NoEcho, result |-> None,
   error |-> FALSE, custom |-> <<>>, selected |-> 0, prefer |-> None,
   settings |-> settings, connection |-> None, key |-> None,
   resume |-> None, chat |-> <<>>, busy |-> FALSE, resetContext |-> FALSE,
   newTask |-> FALSE, connectionIds |-> {}, tasks |-> <<>>,
   selectedTask |-> None, lookup |-> None, forms |-> [f \in {} |-> None],
   extended |-> "none"]

(* An agent whose card was not fetched yet.                                *)
CreateAgent(id, url, kind) ==
  [NewEntry(id, url, kind, DefaultSettings) EXCEPT !.status = "idle"]

CardInterfaces(a) == IF a.result = None THEN <<>> ELSE a.result.interfaces

CardUrl(a) == IF a.result = None THEN None ELSE a.result.cardUrl

InterfacesOf(a) == CardInterfaces(a) \o a.custom

SelectedInterface(a) ==
  IF a.selected \in DOMAIN InterfacesOf(a) THEN InterfacesOf(a)[a.selected]
  ELSE None

SameInterface(i, j) == i # None /\ j # None /\ i.key = j.key

FirstCustom(a) == IF a.custom = <<>> THEN None ELSE a.custom[1]

(* The place of the first agent that satisfies Is, or 0.                   *)
FirstAt(agents, Is(_)) ==
  LET places == {i \in DOMAIN agents : Is(agents[i])}
  IN  IF places = {} THEN 0 ELSE Min(places)

(* Whether url is what the agent was added by or where its card was found; *)
(* an echo agent is a process, whatever its URL.                           *)
FoundBy(a, url) ==
  url # None /\ ~ IsEcho(a) /\ (a.url = url \/ CardUrl(a) = url)

FindAgent(agents, url) == LET is(a) == FoundBy(a, url) IN FirstAt(agents, is)

SameAgent(a, b) ==
  IF IsEcho(a) \/ IsEcho(b) THEN a.echo.id = b.echo.id
  ELSE IF a.kind = "endpoint" \/ b.kind = "endpoint"
  THEN a.kind = b.kind /\ SameInterface(FirstCustom(a), FirstCustom(b))
  ELSE IF a.card # None \/ b.card # None
  THEN /\ a.card # None /\ b.card # None
       /\ a.identifier # None /\ a.identifier = b.identifier
  ELSE FoundBy(a, IF CardUrl(b) = None THEN b.url ELSE CardUrl(b))

(* The agent of that id, changed by Change.                                *)
Patch(agents, id, Change(_)) ==
  [i \in DOMAIN agents |->
     IF agents[i].id = id THEN Change(agents[i]) ELSE agents[i]]

(* The place of the agent that is the same as e.                           *)
SameAt(agents, e) == LET is(a) == SameAgent(a, e) IN FirstAt(agents, is)

Entry(agents, id) ==
  LET is(a) == a.id = id
      at == FirstAt(agents, is)
  IN  IF at = 0 THEN None ELSE agents[at]

Has(agents, id) == \E i \in DOMAIN agents : agents[i].id = id

Without(agents, id) ==
  Picked(agents, {i \in DOMAIN agents : agents[i].id # id})
-----------------------------------------------------------------------------
(* The list.  A state is the agents and the selected one.                  *)
State(agents, sel) == [agents |-> agents, sel |-> sel]

Add(s, id, url, settings, prefer) ==
  State(Append(s.agents,
          [NewEntry(id, url, "card", settings) EXCEPT !.prefer = prefer]), id)

(* An interface without a card; settings is None when none were given.     *)
AddEndpoint(s, id, iface, settings) ==
  LET added == [NewEntry(id, iface.key, "endpoint",
                  IF settings = None THEN DefaultSettings ELSE settings)
                EXCEPT !.status = "done", !.custom = <<iface>>,
                       !.selected = 1]
      existing == SameAt(s.agents, added)
      set(a) == IF settings = None THEN a
                ELSE [a EXCEPT !.settings = settings]
  IN  IF existing = 0 THEN State(Append(s.agents, added), id)
      ELSE State(Patch(s.agents, s.agents[existing].id, set),
                 s.agents[existing].id)

(* Adds the entries that are not in the list yet, one after the other, and *)
(* selects the one asked for, or the one it is the same as.                *)
AddEntry(s, e, select) ==
  LET existing == SameAt(s.agents, e)
  IN  State(IF existing = 0 THEN Append(s.agents, e) ELSE s.agents,
            IF e.id # select THEN s.sel
            ELSE IF existing = 0 THEN e.id ELSE s.agents[existing].id)

AddEntries(s, entries, select) ==
  LET added[n \in 0..Len(entries)] ==
        IF n = 0 THEN s ELSE AddEntry(added[n - 1], entries[n], select)
  IN  added[Len(entries)]

(* The agents of the shared catalog, which are marked; those marked before *)
(* that it no longer lists go.                                             *)
Shared(s, entries) ==
  LET among(list, b) == \E i \in DOMAIN list : SameAgent(list[i], b)
      listed(a) == \E i \in DOMAIN entries : SameAgent(a, entries[i])
      stays(a) == ~ a.shared \/ listed(a)
      kept == Picked(s.agents, {i \in DOMAIN s.agents : stays(s.agents[i])})
      marked == [i \in DOMAIN kept |->
                   IF listed(kept[i]) THEN [kept[i] EXCEPT !.shared = TRUE]
                   ELSE kept[i]]
      new == {i \in DOMAIN entries : ~ among(marked, entries[i])}
  IN  State(marked \o Picked(entries, new),
            IF Has(marked, s.sel) \/ s.sel = HostId THEN s.sel ELSE None)

(* A card written in the editor, open in it.                               *)
NewCard(s, id, identifier, card) ==
  State(Append(s.agents,
          [CreateAgent(id, None, "card") EXCEPT
             !.identifier = identifier, !.card = card,
             !.draft = [text |-> card, saved |-> card]]), id)

Edit(agents, id) ==
  LET open(a) == IF a.card = None THEN a
                 ELSE [a EXCEPT !.draft =
                         IF @ = None THEN [text |-> a.card, saved |-> a.card]
                         ELSE @]
  IN  Patch(agents, id, open)

Draft(agents, id, text) ==
  LET set(a) == IF a.draft = None THEN a ELSE [a EXCEPT !.draft.text = text]
  IN  Patch(agents, id, set)

SaveCard(agents, id, card) ==
  LET saved(draft) == IF draft = None THEN None
                      ELSE [draft EXCEPT !.saved = draft.text]
      save(a) == [a EXCEPT !.card = card, !.draft = saved(@)]
  IN  Patch(agents, id, save)

DiscardDraft(agents, id) ==
  LET undo(a) == IF a.draft = None THEN a
                 ELSE [a EXCEPT !.draft.text = a.draft.saved]
  IN  Patch(agents, id, undo)

CloseEditor(agents, id) ==
  LET close(a) == [a EXCEPT !.draft = None] IN Patch(agents, id, close)

Unsaved(a) == a.draft # None /\ a.draft.text # a.draft.saved

Editable(a) == a.card # None /\ ~ a.shared /\ ~ IsEcho(a)

EchoStatus(agents, id, echo) ==
  LET set(a) == [a EXCEPT !.echo = echo] IN Patch(agents, id, set)

(* The card is being fetched.                                              *)
Loading(a) == [a EXCEPT !.status = "loading", !.error = FALSE]

Refresh(s, id, select) ==
  State(Patch(s.agents, id, Loading), IF select THEN id ELSE s.sel)

(* The interface of the card that the preferences of the command line ask  *)
(* for: keys in the order of preference, then any it supports.             *)
PreferredInterface(interfaces, prefer) ==
  LET candidates == {i \in DOMAIN interfaces : interfaces[i].supported}
      of(key) == {i \in candidates : interfaces[i].key = key}
      offered == {k \in DOMAIN prefer : of(prefer[k]) # {}}
  IN  IF offered # {} THEN Min(of(prefer[Min(offered)]))
      ELSE IF candidates = {} THEN 0 ELSE Min(candidates)

(* Mutant: a custom interface keeps its place instead of moving along.     *)
PickAfterInPlace(result, a) ==
  IF a.selected > 0 THEN a.selected ELSE result.default

(* The interface to use after the card came: the custom one in use, moved  *)
(* behind the card's; the place the user picked if it is supported; the    *)
(* saved one; the preferred or default one.                                *)
PickAfter(result, a) ==
  LET old == Len(CardInterfaces(a))
      new == result.interfaces
      all == new \o a.custom
      saved == {i \in DOMAIN all : all[i].supported
                                     /\ SameInterface(all[i], a.savedInterface)}
  IN  IF a.selected > old THEN Len(new) + a.selected - old
      ELSE IF a.selected \in DOMAIN new /\ new[a.selected].supported
      THEN a.selected
      ELSE IF saved # {} THEN Min(saved)
      ELSE IF a.prefer # None THEN PreferredInterface(new, a.prefer)
      ELSE result.default

ResolvedEntry(a, result) ==
  [a EXCEPT !.status = IF result.ok THEN "done" ELSE "failed",
            !.result = result, !.error = FALSE,
            !.selected = PickAfter(result, a), !.savedInterface = None]

(* Mutant: the twin is looked for by its text only, so one whose card came *)
(* by another reference is missed.                                         *)
TwinByText(agents, id, cardUrl) ==
  LET is(a) == a.id # id /\ ~ IsEcho(a) /\ a.url = cardUrl /\ cardUrl # None
  IN  FirstAt(agents, is)

(* The place of another agent that is the card at this URL already.        *)
Twin(agents, id, cardUrl) ==
  LET entry == Entry(agents, id)
      is(a) == /\ a.id # id /\ ~ IsEcho(a) /\ a.kind = "card"
               /\ a.card = None
               /\ CardUrl(a) = cardUrl \/ a.url = cardUrl
  IN  IF cardUrl = None \/ IsEcho(entry) THEN 0 ELSE FirstAt(agents, is)

(* The card came.  A reference that leads to the card of another agent     *)
(* ends in that agent.                                                     *)
Resolved(s, id, result) ==
  LET set(a) == ResolvedEntry(a, result)
      existing == Twin(s.agents, id, result.cardUrl)
      twin == s.agents[existing].id
  IN  IF ~ Has(s.agents, id) THEN s
      ELSE IF existing = 0 THEN State(Patch(s.agents, id, set), s.sel)
      ELSE State(Patch(Without(s.agents, id), twin, set),
                 IF s.sel = id THEN twin ELSE s.sel)

Failed(agents, id) ==
  LET fail(a) == [a EXCEPT !.status = "failed", !.error = TRUE]
  IN  Patch(agents, id, fail)

Select(s, id) == State(s.agents, id)

(* Removes the agents of these IDs, but for those of the shared catalog.   *)
RemoveEntries(s, ids) ==
  LET stays(a) == a.id \notin ids \/ a.shared
      kept == Picked(s.agents, {i \in DOMAIN s.agents : stays(s.agents[i])})
  IN  State(kept,
            IF s.sel \in ids /\ ~ Has(kept, s.sel) THEN None ELSE s.sel)

SelectInterface(agents, id, i) ==
  LET pick(a) == [a EXCEPT !.selected = i] IN Patch(agents, id, pick)

AddInterface(agents, id, iface) ==
  LET add(a) == [a EXCEPT !.custom = Append(@, iface),
                          !.selected = Len(InterfacesOf(a)) + 1]
  IN  Patch(agents, id, add)

RemoveInterface(agents, id, i) ==
  LET offset(a) == Len(CardInterfaces(a))
      default(a) == IF a.result = None THEN 0 ELSE a.result.default
      drop(a) == [a EXCEPT
        !.custom = IF i - offset(a) \in DOMAIN @
                   THEN RemoveAt(@, i - offset(a)) ELSE @,
        !.selected = IF @ = i THEN default(a) ELSE IF @ > i THEN @ - 1 ELSE @]
  IN  Patch(agents, id, drop)
-----------------------------------------------------------------------------
(* The connection and the conversation.                                    *)
ChangeSettings(agents, id, settings) ==
  LET set(a) == [a EXCEPT !.settings = settings] IN Patch(agents, id, set)

Connected(agents, id, conn, key, settings) ==
  LET set(a) == [a EXCEPT !.connection = conn, !.key = key,
                          !.settings = settings, !.resume = None,
                          !.connectionIds = @ \cup {conn.id}]
  IN  Patch(agents, id, set)

Disconnected(agents, id) ==
  LET drop(a) == [a EXCEPT !.connection = None, !.key = None]
  IN  Patch(agents, id, drop)

Conv(context, task) == [context |-> context, task |-> task]

(* The agent without its connection, to continue the conversation later.   *)
WithoutConnection(a) ==
  [a EXCEPT !.connection = None, !.key = None,
            !.resume = IF a.connection = None THEN @
                       ELSE Conv(a.connection.context, a.connection.task)]

AfterSessionLoss(a) ==
  [WithoutConnection(a) EXCEPT
     !.settings = SettingsAfterSessionLoss(a.settings)]

SessionReset(agents) ==
  [i \in DOMAIN agents |-> AfterSessionLoss(agents[i])]

(* The chat, as how each of the user's messages went: a message is added   *)
(* as "sent"; a result, an error or a note under it says how it goes on.   *)
Chat(agents, id, item) ==
  LET add(a) == [a EXCEPT !.chat = IF item = "sent" THEN Append(@, item)
                                   ELSE [@ EXCEPT ![Len(@)] = item]]
  IN  Patch(agents, id, add)

Busy(agents, id, busy) ==
  LET set(a) == [a EXCEPT !.busy = busy] IN Patch(agents, id, set)

(* Mutant: every result ends the reset.                                    *)
ConversationOfAny(a, conv, source) ==
  IF a.connection = None THEN a
  ELSE [a EXCEPT !.connection.context = conv.context,
                 !.connection.task = conv.task, !.resetContext = FALSE,
                 !.newTask = FALSE]

(* The conversation after a result.  Only the answer to a message undoes   *)
(* "New conversation" and "New task".                                      *)
Conversation(a, conv, source) ==
  LET moved == conv.task # None /\ conv.task # a.connection.task
  IN  IF a.connection = None \/ (source = "other" /\ a.resetContext) THEN a
      ELSE [a EXCEPT
              !.connection.context = conv.context,
              !.connection.task = conv.task,
              !.resetContext = IF source = "send" THEN FALSE ELSE @,
              !.newTask = IF source = "send" \/ moved THEN FALSE ELSE @]

Converse(agents, id, conv, source) ==
  LET set(a) == Conversation(a, conv, source) IN Patch(agents, id, set)

(* The same from the notifications feed, which names the connection.       *)
NotificationConversation(agents, conn, conv) ==
  [i \in DOMAIN agents |->
     IF agents[i].connection # None /\ agents[i].connection.id = conn
     THEN Conversation(agents[i], conv, "other") ELSE agents[i]]

NewConversation(agents, id) ==
  LET reset(a) == [a EXCEPT !.connection = IF @ = None THEN None
                              ELSE [@ EXCEPT !.context = None,
                                             !.task = None],
                            !.resetContext = TRUE, !.newTask = FALSE]
  IN  Patch(agents, id, reset)

NewTask(agents, id) ==
  LET set(a) == [a EXCEPT !.newTask = TRUE] IN Patch(agents, id, set)
-----------------------------------------------------------------------------
(* The tasks the UI saw, in the order it saw them.                         *)
EmptyTask(task) ==
  [id |-> task, state |-> None, context |-> None, updated |-> 0,
   activity |-> <<>>, configs |-> <<>>, subscribed |-> FALSE]

(* The agent's task, added first if it is new, changed by Change.          *)
PatchTask(agents, id, task, Change(_)) ==
  LET with(a) == IF Has(a.tasks, task) THEN a.tasks
                 ELSE Append(a.tasks, EmptyTask(task))
      set(a) == [a EXCEPT !.tasks = Patch(with(a), task, Change)]
  IN  Patch(agents, id, set)

(* What a result says about a task, and what to add to its activity; a     *)
(* None says nothing.                                                      *)
Task(agents, id, task, state, context, time, activity, select) ==
  LET see(t) == [t EXCEPT !.state = IF state = None THEN @ ELSE state,
                          !.updated = IF state = None THEN @ ELSE time,
                          !.context = IF context = None THEN @ ELSE context,
                          !.activity = IF activity = None THEN @
                                       ELSE Append(@, activity)]
      seen == PatchTask(agents, id, task, see)
      show(a) == [a EXCEPT !.selectedTask = task]
  IN  IF select THEN Patch(seen, id, show) ELSE seen

SelectTask(agents, id, task) ==
  LET set(a) == [a EXCEPT !.selectedTask = task] IN Patch(agents, id, set)

Subscribed(agents, id, task, on) ==
  LET set(t) == [t EXCEPT !.subscribed = on] IN PatchTask(agents, id, task, set)

(* The push notification configs of a task: all of them, one to add or     *)
(* change, or one that is gone; None for those that are not meant.         *)
PushConfigs(agents, id, task, replace, upsert, remove) ==
  LET without(list) == IF remove = None THEN list ELSE Without(list, remove)
      put(list) == IF upsert = None THEN list
                   ELSE IF \E i \in DOMAIN list : list[i].id = upsert.id
                   THEN [i \in DOMAIN list |->
                           IF list[i].id = upsert.id THEN upsert ELSE list[i]]
                   ELSE Append(list, upsert)
      set(t) == [t EXCEPT !.configs =
                   without(put(IF replace = None THEN @ ELSE replace))]
  IN  PatchTask(agents, id, task, set)

TaskLookup(agents, id, lookup) ==
  LET set(a) == [a EXCEPT !.lookup = lookup] IN Patch(agents, id, set)

FormSubmitted(agents, id, form, values) ==
  LET set(a) == [a EXCEPT !.forms =
                   [f \in DOMAIN @ \cup {form} |->
                      IF f = form THEN values ELSE @[f]]]
  IN  Patch(agents, id, set)

ExtendedCard(agents, id, value) ==
  LET set(a) == [a EXCEPT !.extended = value] IN Patch(agents, id, set)
=============================================================================
