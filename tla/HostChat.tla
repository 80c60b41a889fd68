------------------------------- MODULE HostChat -------------------------------
(***************************************************************************)
(* The chat with the host agent (src/ui/src/host.ts, sendToHost of         *)
(* App.tsx, components/HostChat.tsx and HostPanel.tsx).  A message goes to *)
(* the agents the host may delegate to, each of which is connected first;  *)
(* then the turn streams texts, delegations and their results.  The        *)
(* session, a connection or the conversation can be gone by then: the turn *)
(* is tried once more.                                                     *)
(*                                                                         *)
(* The inspector is a session, its connections and its conversations, both *)
(* numbered from 1 on, and what a turn streams is any sequence of events.  *)
(***************************************************************************)
EXTENDS AgentStore, TLC

CONSTANTS Delegable,    \* the agents of the list: how each was fetched
          LastHostConn, \* bound on connections
          LastHostEvent,\* bound on events of turns
          LastHostStep, \* bound on what the user does
          LastHostLoss  \* bound on what the inspector loses

VARIABLES
  crew,       \* the list of agents
  host,       \* the state of hostReducer
  turn,       \* the message being answered, or None
  jar,        \* the session of the browser's cookie
  era,        \* the inspector's session
  links,      \* its connections
  talks,      \* its conversations with the host agent
  lastLink, lastTalk,
  taken,      \* turns that started for the message
  hostEvents, hostSteps, losses

hostVars == <<crew, host, turn, jar, era, links, talks, lastLink, lastTalk,
              taken, hostEvents, hostSteps, losses>>
inspectorVars == <<era, links, talks, lastLink, lastTalk, losses>>

Ids == DOMAIN Delegable
-----------------------------------------------------------------------------
(* host.ts                                                                 *)
Line(type, of) == [type |-> type, of |-> of, open |-> FALSE, results |-> 0]

AppendLine(h, line) == [h EXCEPT !.items = Append(@, line)]

OpenText(h) ==
  IF h.items = <<>> THEN FALSE
  ELSE Last(h.items).type = "text" /\ Last(h.items).open

(* A piece of the answer, or the whole of the part it belongs to.          *)
SayText(h, partial) ==
  IF OpenText(h)
  THEN [h EXCEPT !.items[Len(h.items)].open = partial]
  ELSE AppendLine(h, [Line("text", None) EXCEPT !.open = partial])

IsDelegation(line, d) == line.type = "delegation" /\ line.of.id = d

SetDelegation(h, d) ==
  LET known == {i \in DOMAIN h.items : IsDelegation(h.items[i], d.id)}
  IN  IF known = {} THEN AppendLine(h, Line("delegation", d))
      ELSE [h EXCEPT !.items[CHOOSE i \in known : TRUE].of = d]

AddResult(h, d) ==
  [h EXCEPT !.items = [i \in DOMAIN @ |->
     IF IsDelegation(@[i], d) THEN [@[i] EXCEPT !.results = 1] ELSE @[i]]]

ApplyEvent(h, e) ==
  IF e.type = "conversation" THEN [h EXCEPT !.conv = e.conv]
  ELSE IF e.type = "text" THEN SayText(h, e.partial)
  ELSE IF e.type = "delegation" THEN SetDelegation(h, e.of)
  ELSE IF e.type = "result" THEN AddResult(h, e.of.id)
  ELSE AppendLine(h, Line("error", None))

(* Text still open when the turn ends won't get more.                      *)
Closed(line) == [line EXCEPT !.open = FALSE]

SetBusy(h, busy) ==
  [h EXCEPT !.busy = busy,
            !.items = IF busy THEN @ ELSE [i \in DOMAIN @ |-> Closed(@[i])]]

Exclude(h, id, excluded) ==
  [h EXCEPT !.excluded = IF excluded THEN @ \cup {id} ELSE @ \ {id}]

(* Why the host cannot reach an agent.                                     *)
Unreachable(a) ==
  LET iface == SelectedInterface(a)
  IN  IF a.echo.exited THEN "stopped"
      ELSE IF a.status \in {"idle", "loading"} THEN "fetching"
      ELSE IF iface = None THEN a.status
      ELSE IF ~ iface.supported THEN "unsupported"
      ELSE IF HasLostSecrets(a.settings) THEN "credentials"
      ELSE None

Delegates ==
  LET may(a) == a.id \notin host.excluded /\ Unreachable(a) = None
  IN  SelectSeq(crew, may)
-----------------------------------------------------------------------------
HostInit ==
  /\ crew = [i \in Ids |-> [CreateAgent(i, "u", "card") EXCEPT
                              !.status = Delegable[i].status,
                              !.custom = Delegable[i].interfaces,
                              !.selected = Len(Delegable[i].interfaces)]]
  /\ host = [conv |-> None, items |-> <<>>, busy |-> FALSE, excluded |-> {}]
  /\ turn = None /\ jar = 1 /\ era = 1 /\ links = {} /\ talks = {}
  /\ lastLink = 0 /\ lastTalk = 0 /\ taken = 0
  /\ hostEvents = 0 /\ hostSteps = 0 /\ losses = 0

HostStep == hostSteps < LastHostStep /\ hostSteps' = hostSteps + 1

Turn(targets, conv, prepare, again) ==
  [targets |-> targets, todo |-> targets, conv |-> conv, prepare |-> prepare,
   again |-> again, refs |-> <<>>, pc |-> "next", cookie |-> 0,
   answer |-> None, aborted |-> FALSE, known |-> <<>>]

(* The composer.                                                           *)
SendToHost ==
  /\ HostStep /\ ~ host.busy
  /\ turn' = Turn(Delegates, host.conv, "same", FALSE)
  /\ host' = SetBusy(AppendLine(host, Line("user", None)), TRUE)
  /\ taken' = 0
  /\ UNCHANGED <<crew, jar, inspectorVars, hostEvents>>

(* The agent as it is by now, or as it was if it was removed.              *)
Prepared(a) ==
  LET current == IF Has(crew, a.id) THEN Entry(crew, a.id) ELSE a
  IN  IF turn.prepare = "loss" THEN AfterSessionLoss(current)
      ELSE IF turn.prepare = "without" THEN WithoutConnection(current)
      ELSE current

Cannot(h) == AppendLine(h, Line("note", None))

(* connect for the next target: it has a connection, or asks for one.      *)
ConnectNext ==
  /\ turn # None /\ turn.pc = "next" /\ turn.todo # <<>>
  /\ LET a == Prepared(Head(turn.todo))
     IN  IF SelectedInterface(a) = None \/ HasLostSecrets(a.settings)
         THEN /\ host' = Cannot(host)
              /\ turn' = [turn EXCEPT !.todo = Tail(@)]
         ELSE IF a.connection # None
         THEN /\ turn' = [turn EXCEPT !.todo = Tail(@),
                            !.refs = Append(@, a.connection.id)]
              /\ UNCHANGED host
         ELSE /\ turn' = [turn EXCEPT !.pc = "connecting", !.cookie = jar]
              /\ UNCHANGED host
  /\ UNCHANGED <<crew, jar, inspectorVars, taken, hostEvents, hostSteps>>

(* The inspector connects, refuses, or has a new session; the agent may be *)
(* removed by the time it answers.  One that fails is left out.            *)
Connects ==
  /\ turn # None /\ turn.pc = "connecting"
  /\ LET a == Prepared(Head(turn.todo))
         next == [turn EXCEPT !.pc = "next", !.todo = Tail(@)]
         conn == [id |-> lastLink + 1, context |-> None, task |-> None]
     IN  \/ /\ turn.cookie = era /\ lastLink < LastHostConn
            /\ lastLink' = lastLink + 1
            /\ IF Has(crew, a.id)
               THEN /\ links' = links \cup {conn.id}
                    /\ crew' = Connected(crew, a.id, conn, None, a.settings)
                    /\ turn' = [next EXCEPT !.refs = Append(@, conn.id)]
                    /\ UNCHANGED host
               ELSE /\ turn' = next /\ host' = Cannot(host)
                    /\ UNCHANGED <<crew, links>>
            /\ UNCHANGED jar
         \/ /\ turn' = next /\ host' = Cannot(host)
            /\ UNCHANGED <<crew, jar, links, lastLink>>
         \/ /\ turn.cookie # era /\ jar' = era
            /\ crew' = SessionReset(crew)
            /\ turn' = next /\ host' = Cannot(host)
            /\ UNCHANGED <<links, lastLink>>
  /\ UNCHANGED <<era, talks, lastTalk, losses, taken, hostEvents, hostSteps>>

(* All are connected: the turn is asked for, unless Stop was clicked.      *)
AskTurn ==
  /\ turn # None /\ turn.pc = "next" /\ turn.todo = <<>>
  /\ turn' = [turn EXCEPT !.cookie = jar, !.pc = "asked",
                          !.answer = IF turn.aborted THEN "aborted" ELSE None]
  /\ UNCHANGED <<crew, host, jar, inspectorVars, taken, hostEvents, hostSteps>>

(* handleHostStream: what it refuses, it refuses before the turn.          *)
TakeTurn ==
  /\ turn # None /\ turn.pc = "asked" /\ turn.answer = None
  /\ LET refs == {turn.refs[i] : i \in DOMAIN turn.refs}
         refuse(why) == /\ turn' = [turn EXCEPT !.answer = why]
                        /\ UNCHANGED <<talks, lastTalk, taken>>
     IN  IF turn.cookie # era THEN refuse("renewed")
         ELSE IF turn.conv # None /\ turn.conv \notin talks
         THEN refuse("unknownConversation")
         ELSE IF ~ refs \subseteq links THEN refuse("unknownConnection")
         ELSE \/ refuse("error")
              \/ /\ taken' = taken + 1
                 /\ IF turn.conv # None
                    THEN /\ turn' = [turn EXCEPT !.pc = "streams"]
                         /\ UNCHANGED <<talks, lastTalk>>
                    ELSE /\ lastTalk' = lastTalk + 1
                         /\ talks' = talks \cup {lastTalk + 1}
                         /\ turn' = [turn EXCEPT !.pc = "streams",
                                                 !.conv = lastTalk + 1]
  /\ UNCHANGED <<crew, host, jar, era, links, lastLink, losses, hostEvents,
                 hostSteps>>

Event(type, of) ==
  [type |-> type, of |-> of, conv |-> None, partial |-> FALSE]

Delegation(id, agent, status) == [id |-> id, agent |-> agent, status |-> status]

(* What the turn streams: a delegation starts, has results, and ends.      *)
Streamed ==
  {[Event("conversation", None) EXCEPT !.conv = turn.conv], Event("error", None)}
  \cup {[Event("text", None) EXCEPT !.partial = p] : p \in BOOLEAN}
  \cup {Event("delegation", Delegation(a, a, status)) :
          a \in {turn.targets[i].id : i \in DOMAIN turn.targets},
          status \in {"working", "done", "failed"}}
  \cup {Event("result", Delegation(d, turn.known[d], None)) :
          d \in DOMAIN turn.known}

(* The tasks of a delegation show in the agent's own tab.                  *)
HearEvent ==
  /\ turn # None /\ turn.pc = "streams" /\ hostEvents < LastHostEvent
  /\ hostEvents' = hostEvents + 1
  /\ \E e \in Streamed :
       /\ host' = ApplyEvent(host, e)
       /\ turn' = IF e.type # "delegation" THEN turn
                  ELSE [turn EXCEPT !.known = (e.of.id :> e.of.agent) @@ @]
       /\ crew' = IF e.type # "result" THEN crew
                  ELSE Task(crew, e.of.agent, "t", "completed", None, 0,
                            None, FALSE)
  /\ UNCHANGED <<jar, inspectorVars, taken, hostSteps>>

EndTurn(h) == host' = SetBusy(h, FALSE) /\ turn' = None

(* Mutant: whatever fails is tried again.                                  *)
RetriesAll(type) == IF turn.again THEN "no" ELSE "same"

(* How a turn that failed is tried once more, with or without its          *)
(* conversation.                                                           *)
Retries(type) ==
  IF turn.again THEN "no"
  ELSE IF type = "renewed" THEN "loss"
  ELSE IF type = "unknownConversation" THEN "same"
  ELSE IF type = "unknownConnection" THEN "without"
  ELSE "no"

TurnFails(type) ==
  LET how == Retries(type)
      again == [Turn(turn.targets, IF how = "without" THEN turn.conv ELSE None,
                     how, TRUE) EXCEPT !.aborted = turn.aborted]
  IN  IF how = "no"
      THEN EndTurn(AppendLine(host, Line(IF turn.aborted THEN "note"
                                         ELSE "error", None)))
      ELSE /\ turn' = again
           /\ host' = IF how = "without" THEN host ELSE Cannot(host)

TurnRefused ==
  /\ turn # None /\ turn.pc = "asked" /\ turn.answer # None
  /\ LET renewed == turn.answer = "renewed"
     IN  /\ jar' = IF renewed THEN era ELSE jar
         /\ crew' = IF renewed THEN SessionReset(crew) ELSE crew
  /\ TurnFails(turn.answer)
  /\ UNCHANGED <<inspectorVars, taken, hostEvents, hostSteps>>

(* The turn ends, or its stream breaks.                                    *)
TurnEnds ==
  /\ turn # None /\ turn.pc = "streams"
  /\ EndTurn(host) \/ TurnFails("error")
  /\ UNCHANGED <<crew, jar, inspectorVars, taken, hostEvents, hostSteps>>

StopHost ==
  /\ HostStep /\ turn # None /\ ~ turn.aborted
  /\ IF turn.pc \in {"asked", "streams"}
     THEN EndTurn(AppendLine(host, Line("note", None)))
     ELSE turn' = [turn EXCEPT !.aborted = TRUE] /\ UNCHANGED host
  /\ UNCHANGED <<crew, jar, inspectorVars, taken, hostEvents>>

NewHostConversation ==
  /\ HostStep /\ ~ host.busy
  /\ host' = AppendLine([host EXCEPT !.conv = None], Line("note", None))
  /\ UNCHANGED <<crew, turn, jar, inspectorVars, taken, hostEvents>>

(* The boxes beside the agents it can reach.                               *)
PickDelegate ==
  /\ HostStep
  /\ \E i \in DOMAIN crew :
       /\ Unreachable(crew[i]) = None
       /\ host' = Exclude(host, crew[i].id, crew[i].id \notin host.excluded)
  /\ UNCHANGED <<crew, turn, jar, inspectorVars, taken, hostEvents>>

RemoveDelegate ==
  /\ HostStep
  /\ \E i \in DOMAIN crew :
       /\ crew' = Without(crew, crew[i].id)
       /\ links' = IF crew[i].connection = None \/ jar # era THEN links
                   ELSE links \ {crew[i].connection.id}
  /\ UNCHANGED <<host, turn, jar, era, talks, lastLink, lastTalk, losses, taken,
                 hostEvents>>

(* The inspector loses the session, a connection or a conversation.        *)
Loses ==
  /\ losses < LastHostLoss /\ losses' = losses + 1
  /\ \/ /\ era' = era + 1 /\ links' = {} /\ talks' = {}
        /\ lastLink' = 0 /\ lastTalk' = 0
     \/ /\ \E c \in links : links' = links \ {c}
        /\ UNCHANGED <<era, talks, lastLink, lastTalk>>
     \/ /\ \E c \in talks : talks' = talks \ {c}
        /\ UNCHANGED <<era, links, lastLink, lastTalk>>
  /\ UNCHANGED <<crew, host, turn, jar, taken, hostEvents, hostSteps>>

HostNext ==
  \/ SendToHost \/ ConnectNext \/ Connects \/ AskTurn \/ TakeTurn \/ HearEvent
  \/ TurnRefused \/ TurnEnds \/ StopHost \/ NewHostConversation
  \/ PickDelegate \/ RemoveDelegate \/ Loses
-----------------------------------------------------------------------------
(* However the message fails and is tried again, the host agent gets it    *)
(* once.                                                                   *)
HostAsksOnce == taken <= 1
=============================================================================
