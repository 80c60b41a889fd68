------------------------------ MODULE AgentList ------------------------------
(***************************************************************************)
(* The list of agents over time (src/ui/src/App.tsx, catalog.ts): agents   *)
(* come from URLs, catalogs, files, the shared catalog, the command line,  *)
(* the card editor and echo agents; their cards are fetched, several at    *)
(* once and answered in any order; and every change is saved in the        *)
(* browser, from where a reload of the page takes it.                      *)
(*                                                                         *)
(* A reference is a URL the user may enter; it always leads to the same    *)
(* card URL.  A card's text is its value, and what the inspector says of a *)
(* card is the interfaces it offers, which change from fetch to fetch.     *)
(***************************************************************************)
EXTENDS AgentStore

CONSTANTS Refs,         \* references to cards
          Leads,        \* the card URL each reference leads to
          Offers,       \* what a card may offer: sequences of interfaces
          Custom,       \* interfaces the user may add by hand
          Cards,        \* texts of cards
          Uuids,        \* identifiers for new cards
          Listings,     \* catalogs: sequences of agents
          SharedList,   \* what the shared catalog lists
          Startups,     \* what the command line may ask for
          MayLackCatalog, \* whether it may leave out the shared catalog
          LastId,       \* bound on entries made
          LastStep      \* bound on what the user does

ASSUME ListAssumption ==
  /\ Leads \in [Refs -> Refs] /\ \A r \in Refs : Leads[Leads[r]] = Leads[r]
  /\ LastId \in Nat /\ LastStep \in Nat

(* What the inspector says of a card.                                      *)
Results ==
  [ok : BOOLEAN, cardUrl : Refs \cup {None}, raw : Cards,
   interfaces : Offers \cup {<<>>}, default : Nat]

(* An entry of a catalog has its card or where it is; entries with neither *)
(* are left out of what is listed (agentsFromCatalog).                     *)
EntryAllowed(e) ==
  /\ e.card \in Cards \cup {None} /\ (e.card = None => e.cardUrl \in Refs)
  /\ e.saved = None \/ IsList(e.saved.custom)

CatalogAllowed(l) == IsList(l) /\ \A i \in DOMAIN l : EntryAllowed(l[i])

(* None stands for nothing else, and the inspector names each card URL of  *)
(* the shared catalog once (Resolve of internal/catalog/catalog.go).       *)
ASSUME ValuesAssumption ==
  /\ Refs # {} /\ Cards # {}
  /\ None \notin Refs /\ None \notin Cards /\ None \notin Results
  /\ \A o \in Offers : IsList(o)
  /\ \A l \in DOMAIN Listings : CatalogAllowed(Listings[l])
  /\ CatalogAllowed(SharedList)
  /\ \A i, j \in DOMAIN SharedList :
       i # j /\ SharedList[i].card = None /\ SharedList[j].card = None
         => SharedList[i].cardUrl # SharedList[j].cardUrl
  /\ \A s \in Startups :
       s # None => /\ s.endpoint # None \/ s.ref \in Refs
                   /\ s.prefer = None \/ IsList(s.prefer)

VARIABLES
  store,     \* the state of agentsReducer
  nextId,    \* App.nextId
  ready,     \* whether the configuration came: session.state
  requests,  \* other requests that are not answered: their kind and subject
  startup,   \* what the command line asks for
  fetches,   \* requests for cards, in the order they were sent
  serving,   \* the card being served as an echo agent, or None
  catalog,   \* the catalog shown in the panel: catalogView
  storage,   \* the catalog saved in the browser
  listSteps  \* what the user did so far, counted

listVars == <<store, nextId, ready, requests, startup, fetches, serving,
              catalog, storage, listSteps>>

NoCatalog == [entries |-> <<>>, endpoints |-> <<>>]
Entries == store.agents
EntryOf(id) == Entry(Entries, id)
Selected == Entry(Entries, store.sel)
-----------------------------------------------------------------------------
(* The catalog of the agents (catalog.ts).  Echo agents are not in it, and *)
(* an agent without a card is in its extension.                            *)
SavedAgent(a) ==
  [iface |-> IF SelectedInterface(a) # None THEN SelectedInterface(a)
             ELSE a.savedInterface,
   custom |-> a.custom, settings |-> SaveSettings(a.settings, TRUE),
   shared |-> a.shared]

EntryUrl(a) == IF CardUrl(a) # None THEN CardUrl(a) ELSE a.url

CatalogEntry(a) ==
  [identifier |-> IF a.identifier # None THEN a.identifier ELSE EntryUrl(a),
   cardUrl |-> IF a.card # None THEN None ELSE EntryUrl(a),
   card |-> a.card, saved |-> SavedAgent(a)]

ToCatalog(agents) ==
  LET of(kind) == {i \in DOMAIN agents :
                     ~ IsEcho(agents[i]) /\ agents[i].kind = kind}
      entries == Picked(agents, of("card"))
      endpoints == Picked(agents, of("endpoint"))
  IN  [entries |-> [i \in DOMAIN entries |-> CatalogEntry(entries[i])],
       endpoints |-> [i \in DOMAIN endpoints |-> SavedAgent(endpoints[i])]]

(* The agent parts of a saved extension.                                   *)
ReadSaved(a, saved) ==
  [a EXCEPT !.savedInterface = saved.iface, !.custom = saved.custom,
            !.settings = ReadSettings(saved.settings, TRUE),
            !.shared = saved.shared]

ReadEntry(id, e) ==
  LET a == [CreateAgent(id, e.cardUrl, "card") EXCEPT
              !.identifier = e.identifier, !.card = e.card]
  IN  IF e.saved = None THEN a ELSE ReadSaved(a, e.saved)

ReadEndpoint(id, saved) ==
  LET same == {i \in DOMAIN saved.custom :
                 SameInterface(saved.custom[i], saved.iface)}
      first == IF same = {} THEN 1 ELSE Min(same)
  IN  ReadSaved([CreateAgent(id, saved.custom[1].key, "endpoint") EXCEPT
                   !.status = "done", !.selected = first], saved)

(* The agents of a catalog, with IDs from first on.  An agent without a    *)
(* card is nothing without its interface.                                  *)
AgentsFromCatalog(doc, first) ==
  LET usable == {i \in DOMAIN doc.endpoints : doc.endpoints[i].custom # <<>>}
      endpoints == Picked(doc.endpoints, usable)
  IN  [i \in DOMAIN doc.entries |-> ReadEntry(first + i - 1, doc.entries[i])]
      \o [i \in DOMAIN endpoints |->
            ReadEndpoint(first + Len(doc.entries) + i - 1, endpoints[i])]

IsListed(agents, e) ==
  \E i \in DOMAIN agents :
    LET a == agents[i]
    IN  IF e.card # None
        THEN a.card # None /\ e.identifier # None
               /\ a.identifier = e.identifier
        ELSE e.cardUrl # None /\ a.kind = "card" /\ a.card = None
               /\ e.cardUrl \in {a.url, CardUrl(a)}

Listed(entries) == [entries |-> entries, endpoints |-> <<>>]

(* The panel: nothing, or catalog l being listed, listed or failed. *)
Panel(state, l) == [state |-> state, of |-> l]
(* What the middle of the page shows of an agent (CardView): its buttons   *)
(* and forms come with it.  The interface picker is in the last four.      *)
CardContent(a) ==
  IF a.status \in {"idle", "loading"} THEN a.status
  ELSE IF a.kind = "endpoint" THEN "endpoint"
  ELSE IF a.error THEN "error"
  ELSE IF a.result = None THEN "nothing"
  ELSE IF a.result.ok THEN "overview" ELSE "failure"

(* What the list shows of an agent.                                        *)
AgentStatus(a) ==
  IF a.echo.exited THEN "stopped"
  ELSE IF a.status \in {"idle", "loading"} THEN a.status
  ELSE IF a.kind = "endpoint" THEN "endpoint"
  ELSE IF a.status = "failed" \/ a.result = None THEN "failed"
  ELSE IF a.result.ok THEN "checked" ELSE "failed"

Center(a) == IF a = None THEN "empty"
             ELSE IF a.draft # None THEN "editor" ELSE CardContent(a)
-----------------------------------------------------------------------------
ListInit ==
  /\ store = State(<<>>, None) /\ nextId = 1
  /\ ready = FALSE /\ requests = {} /\ startup \in Startups
  /\ fetches = <<>> /\ serving = None
  /\ catalog = Panel("none", 0) /\ storage = NoCatalog /\ listSteps = 0

Acts == ready /\ listSteps < LastStep /\ listSteps' = listSteps + 1

Others(r) == requests' = requests \cup r /\ UNCHANGED <<ready, startup>>

Asked(kind, about) == [kind |-> kind, about |-> about]

(* Every change of the list is saved.                                      *)
Becomes(s) == store' = s /\ storage' = ToCatalog(s.agents)

(* IDs for the n entries made from first on.                               *)
Made(first, n) == nextId' = first + n /\ first + n - 1 <= LastId

(* resolveAgent: the entry shows that its card is fetched; the request     *)
(* takes the agent as it was.                                              *)
Fetch(a) == [id |-> a.id, ref |-> a.url, card |-> a.card, again |-> FALSE]

Resolve(s, a) ==
  Becomes(Refresh(s, a.id, TRUE)) /\ fetches' = Append(fetches, Fetch(a))

(* An agent that is in the list already is fetched again.                  *)
AddAgent(s, known, id, ref, prefer) ==
  LET existing == FindAgent(known, ref)
  IN  IF existing # 0 THEN Resolve(s, known[existing]) /\ Made(id, 0)
      ELSE /\ Made(id, 1)
           /\ Resolve(Add(s, id, ref, DefaultSettings, prefer),
                      CreateAgent(id, ref, "card"))

(* The configuration came: the agents saved before, and what the command   *)
(* line asks for.  Without a shared catalog, the agents it listed go right *)
(* away, but the command line's is still looked for among those saved.     *)
Start ==
  LET saved == AgentsFromCatalog(storage, 1)
      came == AddEntries(State(<<>>, None), saved, None)
      id == Len(saved) + 1
      begins(s, asked) ==
        /\ requests' = {Asked(kind, None) : kind \in asked}
        /\ IF startup = None
           THEN Becomes(s) /\ Made(id, 0) /\ UNCHANGED fetches
           ELSE IF startup.endpoint # None
           THEN /\ Becomes(AddEndpoint(s, id, startup.endpoint, None))
                /\ Made(id, 1) /\ UNCHANGED fetches
           ELSE AddAgent(s, came.agents, id, startup.ref, startup.prefer)
  IN  /\ ~ ready /\ ready' = TRUE
      /\ IF MayLackCatalog
         THEN \/ begins(came, {"shared", "echoes"})
              \/ begins(Shared(came, <<>>), {"echoes"})
         ELSE begins(came, {"shared", "echoes"})
      /\ UNCHANGED <<startup, serving, catalog, listSteps>>

EnterUrl ==
  /\ Acts /\ \E ref \in Refs : AddAgent(store, Entries, nextId, ref, None)
  /\ Others({}) /\ UNCHANGED <<serving, catalog>>

(* An agent not fetched yet is fetched when it is selected; of an echo     *)
(* agent, the inspector is asked whether it still runs.                    *)
SelectAgent ==
  /\ Acts
  /\ \E i \in DOMAIN Entries :
       LET a == Entries[i]
       IN  /\ IF a.status = "idle" THEN Resolve(store, a)
              ELSE Becomes(Select(store, a.id)) /\ UNCHANGED fetches
           /\ Others(IF ~ IsEcho(a) \/ a.echo.exited THEN {}
                     ELSE {Asked("echo", a.id)})
  /\ UNCHANGED <<nextId, serving, catalog>>

(* The host agent needs the cards not fetched yet.                         *)
SelectHost ==
  LET idle == {i \in DOMAIN Entries : Entries[i].status = "idle"}
      todo == Picked(Entries, idle)
  IN  /\ Acts
      /\ Becomes(State([i \in DOMAIN Entries |->
                          IF i \in idle THEN Loading(Entries[i])
                          ELSE Entries[i]], HostId))
      /\ fetches' = fetches \o [i \in DOMAIN todo |-> Fetch(todo[i])]
      /\ Others({}) /\ UNCHANGED <<nextId, serving, catalog>>

RemoveAgent ==
  /\ Acts
  /\ \E i \in DOMAIN Entries :
       ~ Entries[i].shared /\ Becomes(RemoveEntries(store, {Entries[i].id}))
  /\ Others({}) /\ UNCHANGED <<nextId, fetches, serving, catalog>>

FetchCard ==
  /\ Acts /\ Center(Selected) \in {"idle", "failure"}
  /\ Resolve(store, Selected)
  /\ Others({}) /\ UNCHANGED <<nextId, serving, catalog>>

(* The interface picker: what the inspector supports can be picked, what   *)
(* was added by hand can be removed.                                       *)
PickInterface ==
  /\ Acts /\ Center(Selected) \in {"endpoint", "error", "failure", "overview"}
  /\ \/ \E i \in DOMAIN InterfacesOf(Selected) :
          /\ InterfacesOf(Selected)[i].supported
          /\ Becomes([store EXCEPT !.agents = SelectInterface(@, Selected.id, i)])
     \/ \E iface \in Custom :
          Becomes([store EXCEPT !.agents = AddInterface(@, Selected.id, iface)])
     \/ \E i \in DOMAIN InterfacesOf(Selected) :
          /\ i > Len(CardInterfaces(Selected))
          /\ Becomes([store EXCEPT !.agents = RemoveInterface(@, Selected.id, i)])
  /\ Others({}) /\ UNCHANGED <<nextId, fetches, serving, catalog>>
-----------------------------------------------------------------------------
(* The card editor, as the list sees it.                                   *)
OpenNew(card) ==
  LET used == {Entries[i].identifier : i \in DOMAIN Entries}
      s == NewCard(store, nextId, CHOOSE u \in Uuids : u \notin used, card)
  IN  Uuids \ used # {} /\ Made(nextId, 1) /\ Resolve(s, Entry(s.agents, nextId))

WriteCard ==
  /\ Acts /\ \E card \in Cards : OpenNew(card)
  /\ Others({}) /\ UNCHANGED <<serving, catalog>>

(* A card that cannot be changed in place is edited as a copy.             *)
EditAgent ==
  /\ Acts /\ Center(Selected) = "overview" /\ ~ IsEcho(Selected)
  /\ IF Editable(Selected)
     THEN /\ Becomes([store EXCEPT !.agents = Edit(@, Selected.id)])
          /\ UNCHANGED <<nextId, fetches>>
     ELSE OpenNew(Selected.result.raw)
  /\ Others({}) /\ UNCHANGED <<serving, catalog>>

ChangeDraft ==
  /\ Acts /\ Center(Selected) = "editor"
  /\ \/ \E text \in Cards :
          Becomes([store EXCEPT !.agents = Draft(@, Selected.id, text)])
     \/ Becomes([store EXCEPT !.agents = DiscardDraft(@, Selected.id)])
     \/ Becomes([store EXCEPT !.agents = CloseEditor(@, Selected.id)])
  /\ Others({}) /\ UNCHANGED <<nextId, fetches, serving, catalog>>

Saving(a) ==
  LET card == a.draft.text
  IN  Resolve([store EXCEPT !.agents = SaveCard(@, a.id, card)],
              [a EXCEPT !.card = card])

SaveDraft ==
  /\ Acts /\ Center(Selected) = "editor" /\ Unsaved(Selected)
  /\ Saving(Selected)
  /\ Others({}) /\ UNCHANGED <<nextId, serving, catalog>>

(* Serving a card saves it; the echo agents it had are those of now.       *)
Serve ==
  /\ Acts /\ serving = None /\ Center(Selected) = "editor"
  /\ IF Unsaved(Selected) THEN Saving(Selected)
     ELSE UNCHANGED <<store, storage, fetches>>
  /\ LET old == {i \in DOMAIN Entries :
                   /\ IsEcho(Entries[i])
                   /\ Entries[i].echo.source = Selected.identifier}
     IN  serving' = [source |-> Selected.identifier,
                     old |-> {Entries[i].id : i \in old}]
  /\ Others({}) /\ UNCHANGED <<nextId, catalog>>

EchoEntry(id, source) ==
  [CreateAgent(id, CHOOSE r \in Refs : Leads[r] = r, "card") EXCEPT
     !.echo = [id |-> id, source |-> source, exited |-> FALSE]]

Served ==
  LET left == RemoveEntries(store, serving.old)
      echo == EchoEntry(nextId, serving.source)
  IN  /\ serving # None /\ serving' = None
      /\ \/ /\ Made(nextId, 1)
            /\ Resolve(AddEntries(left, <<echo>>, nextId), echo)
         \/ UNCHANGED <<store, storage, fetches, nextId>>
      /\ Others({}) /\ UNCHANGED <<catalog, listSteps>>
-----------------------------------------------------------------------------
(* Catalogs.  The view can be closed, and another catalog listed, before   *)
(* an answer comes.                                                        *)
ListCatalog ==
  /\ Acts /\ catalog.state # "loading"
  /\ \E l \in DOMAIN Listings :
       catalog' = Panel("loading", l) /\ Others({Asked("list", l)})
  /\ UNCHANGED <<store, storage, nextId, fetches, serving>>

CloseCatalog ==
  /\ Acts /\ catalog.state # "none" /\ catalog' = Panel("none", 0)
  /\ Others({}) /\ UNCHANGED <<store, storage, nextId, fetches, serving>>

(* One of the agents listed, which is fetched, or all that are not in the  *)
(* list yet.                                                               *)
AddFromCatalog ==
  LET new(l) == {i \in DOMAIN Listings[l] : ~ IsListed(Entries, Listings[l][i])}
      unlisted(l) == Picked(Listings[l], new(l))
      added(list) == AgentsFromCatalog(Listed(list), nextId)
      same(e) == SameAt(Entries, e)
  IN  /\ Acts
      /\ \E l \in DOMAIN Listings :
           /\ catalog = Panel("done", l)
           /\ \/ /\ Len(unlisted(l)) > 1 /\ Made(nextId, Len(unlisted(l)))
                 /\ Becomes(AddEntries(store, added(unlisted(l)), None))
                 /\ UNCHANGED fetches
              \/ \E i \in DOMAIN unlisted(l) :
                   LET e == added(<<unlisted(l)[i]>>)[1]
                   IN  /\ Made(nextId, 1)
                       /\ Resolve(AddEntries(store, <<e>>, e.id),
                                  IF same(e) = 0 THEN e ELSE Entries[same(e)])
      /\ Others({}) /\ UNCHANGED <<serving, catalog>>

Import ==
  /\ Acts /\ \E l \in DOMAIN Listings : Others({Asked("import", l)})
  /\ UNCHANGED <<store, storage, nextId, fetches, serving, catalog>>
-----------------------------------------------------------------------------
(* Answers, in any order.                                                  *)
Drops(i) == fetches' = RemoveAt(fetches, i)

Default(interfaces) == PreferredInterface(interfaces, <<>>)

(* What the inspector says of a card: where it was found, what it offers.  *)
CardResult(f, ok, offer) ==
  [ok |-> ok, cardUrl |-> IF f.card = None THEN Leads[f.ref] ELSE None,
   raw |-> IF f.card = None THEN CHOOSE c \in Cards : TRUE ELSE f.card,
   interfaces |-> offer, default |-> Default(offer)]

CardCame ==
  /\ \E i \in DOMAIN fetches :
       /\ Drops(i)
       /\ \/ \E offer \in Offers :
               Becomes(Resolved(store, fetches[i].id,
                                CardResult(fetches[i], TRUE, offer)))
          \/ /\ fetches[i].card = None
             /\ Becomes(Resolved(store, fetches[i].id,
                                 CardResult(fetches[i], FALSE, <<>>)))
          \/ Becomes([store EXCEPT !.agents = Failed(@, fetches[i].id)])
  /\ Others({}) /\ UNCHANGED <<nextId, serving, catalog, listSteps>>

(* The session ended: the request is sent once more, without its secrets.  *)
CardRenewed ==
  /\ \E i \in DOMAIN fetches :
       ~ fetches[i].again /\ fetches' = [fetches EXCEPT ![i].again = TRUE]
  /\ Becomes([store EXCEPT !.agents = SessionReset(@)])
  /\ Others({}) /\ UNCHANGED <<nextId, serving, catalog, listSteps>>

Answers(kind, about) ==
  /\ Asked(kind, about) \in requests
  /\ requests' = requests \ {Asked(kind, about)}
  /\ UNCHANGED <<ready, startup, fetches, serving, listSteps>>

(* What the shared catalog lists, or nothing.                              *)
SharedCame ==
  LET entries == AgentsFromCatalog(Listed(SharedList), nextId)
      marked == [i \in DOMAIN entries |-> [entries[i] EXCEPT !.shared = TRUE]]
  IN  /\ Answers("shared", None)
      /\ \/ Made(nextId, Len(marked)) /\ Becomes(Shared(store, marked))
         \/ Becomes(Shared(store, <<>>)) /\ UNCHANGED nextId
         \/ UNCHANGED <<store, storage, nextId>>
      /\ UNCHANGED catalog

(* An echo agent the inspector still runs outlives the page.               *)
EchoesCame ==
  /\ Answers("echoes", None)
  /\ \/ /\ Made(nextId, 1)
        /\ Becomes(AddEntries(store, <<EchoEntry(nextId, None)>>, None))
     \/ UNCHANGED <<store, storage, nextId>>
  /\ UNCHANGED catalog

EchoCame ==
  /\ \E id \in 1..LastId :
       LET a == EntryOf(id)
       IN  /\ Answers("echo", id)
           /\ \/ UNCHANGED <<store, storage>>
              \/ /\ a # None
                 /\ Becomes([store EXCEPT !.agents =
                      EchoStatus(@, id, [a.echo EXCEPT !.exited = TRUE])])
  /\ UNCHANGED <<nextId, catalog>>

ListCame ==
  /\ \E l \in DOMAIN Listings :
       /\ Answers("list", l)
       /\ catalog' \in {Panel("done", l), Panel("failed", l)}
  /\ UNCHANGED <<store, storage, nextId>>

ImportCame ==
  /\ \E l \in DOMAIN Listings :
       LET entries == AgentsFromCatalog(Listed(Listings[l]), nextId)
       IN  /\ Answers("import", l)
           /\ \/ /\ Made(nextId, Len(entries))
                 /\ Becomes(AddEntries(store, entries, None))
              \/ UNCHANGED <<store, storage, nextId>>
  /\ UNCHANGED catalog

(* The page is loaded again; what was saved is all that stays.             *)
Reload ==
  /\ Acts /\ ready' = FALSE
  /\ store' = State(<<>>, None) /\ nextId' = 1
  /\ requests' = {} /\ fetches' = <<>> /\ serving' = None
  /\ catalog' = Panel("none", 0)
  /\ UNCHANGED <<startup, storage>>

ListNext ==
  \/ Start \/ EnterUrl \/ SelectAgent \/ SelectHost \/ RemoveAgent
  \/ FetchCard \/ PickInterface \/ WriteCard \/ EditAgent \/ ChangeDraft
  \/ SaveDraft \/ Serve \/ Served \/ ListCatalog \/ CloseCatalog
  \/ AddFromCatalog \/ Import \/ CardCame \/ CardRenewed \/ SharedCame
  \/ EchoesCame \/ EchoCame \/ ListCame \/ ImportCame \/ Reload
-----------------------------------------------------------------------------
ListTypeOK ==
  /\ Len(Entries) < nextId /\ nextId \in 1..(LastId + 1)
  /\ \A i \in DOMAIN Entries :
       /\ Entries[i].selected \in 0..Len(InterfacesOf(Entries[i]))
       /\ \A j \in DOMAIN Entries : Entries[i].id = Entries[j].id => i = j

(* Whatever order cards come in, no two agents of the list are the same    *)
(* card: none was found where another one was, or is to be looked for.     *)
NoTwins ==
  \A i, j \in DOMAIN Entries :
    LET a == Entries[i]  b == Entries[j]
        byUrl(e) == e.kind = "card" /\ e.card = None /\ ~ IsEcho(e)
    IN  i # j /\ byUrl(a) /\ byUrl(b) /\ CardUrl(a) # None
          => CardUrl(a) \notin {CardUrl(b), b.url}

(* What is selected is in the list, or the host agent.                     *)
SelectionShown == store.sel \in {None, HostId} \/ Has(Entries, store.sel)

(* The list and the card tell the same of an agent, also when a card is    *)
(* fetched again that came before, or answers come out of order.           *)
ListAgrees ==
  \A i \in DOMAIN Entries :
    LET said == AgentStatus(Entries[i])
    IN  said # "stopped" =>
          CASE CardContent(Entries[i]) = "overview" -> said = "checked"
            [] CardContent(Entries[i]) \in {"error", "failure"} -> said = "failed"
            [] OTHER -> said = CardContent(Entries[i])

(* A step keeps an interface added by hand that is in use in use, whatever *)
(* the card offers when it comes, unless the user picks another.           *)
KeepsCustom ==
  listSteps' = listSteps /\ ready =>
    \A i \in DOMAIN Entries, j \in DOMAIN store'.agents :
      LET a == Entries[i]  b == store'.agents[j]
      IN  a.id = b.id /\ a.selected > Len(CardInterfaces(a))
            => SelectedInterface(b) = SelectedInterface(a)
=============================================================================
