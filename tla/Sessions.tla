------------------------------ MODULE Sessions ------------------------------
(***************************************************************************)
(* The sessions of a hosted inspector (src/internal/server/session.go):    *)
(* a pool of sessions, the shares of its clients, and the renewal of       *)
(* sessions that ended.  ss.mu serializes starting and sweeping sessions;  *)
(* requests acquire and release sessions under the pool's own lock, so     *)
(* they interleave with both, and so does the server's Close.              *)
(*                                                                         *)
(* An object of the pool is a session, a group is a client's quota (its    *)
(* identity: sess.quota == q), GroupMax is Limits.ClientSessions and Max   *)
(* is Limits.MaxSessions.  A caller is the goroutine of an API request, or *)
(* the one of sweepSessions.  Clocks are what they let the code conclude:  *)
(* a session is too old, idle for too long, a renewal past its grace.      *)
(***************************************************************************)
EXTENDS Pool

CONSTANTS Clients,      \* what clientOf tells apart
          Sweeper,      \* the goroutine of sweepSessions
          StartBurst,   \* clientSessionBurst
          CreateBurst   \* sessionBurst

ASSUME SweeperIsCaller == Sweeper \in Callers
ASSUME NoneIsNobody == None \notin Callers \cup Groups \cup Clients
ASSUME BurstsArePositive ==
  StartBurst \in Nat \ {0} /\ CreateBurst \in Nat \ {0}

VARIABLES
  mu,           \* who holds sessions.mu
  pc,           \* where each goroutine is
  old,          \* the ended session a request's cookie names, or None
  client,       \* the client a request comes from
  quota,        \* the quota startLocked is starting a session in
  renewed,      \* sessions.renewed: the session that replaced each ended one
  lapsed,       \* the renewals past renewalGrace
  clients,      \* sessions.clients: each client's quota, or None
  startTokens,  \* tokens of each quota's start limiter
  createTokens, \* tokens of sessions.create
  aged,         \* sessions older than MaxAge
  idle,         \* sessions whose lastUse is longer than IdleTimeout ago
  owner,        \* history: the client that started each session
  origin        \* history: the ended session it was started for, in its grace

sessionVars == <<mu, pc, old, client, quota, renewed, lapsed, clients,
                 startTokens, createTokens, aged, idle, owner, origin>>
vars == <<poolVars, sessionVars>>

Requests == Callers \ {Sweeper}

SessionsTypeOK ==
  /\ mu \in Callers \cup {None}
  /\ pc \in [Callers -> {"idle", "lock", "sweep", "forget", "add", "record",
                         "failed", "answer", "serving"}]
  /\ old \in [Callers -> Objects \cup {None}]
  /\ client \in [Callers -> Clients \cup {None}]
  /\ quota \in [Callers -> Groups \cup {None}]
  /\ renewed \in [Objects -> Objects \cup {None}]
  /\ lapsed \in SUBSET Objects
  /\ clients \in [Clients -> Groups \cup {None}]
  /\ startTokens \in [Groups -> 0..StartBurst]
  /\ createTokens \in 0..CreateBurst
  /\ aged \in SUBSET items /\ idle \in SUBSET items
  /\ owner \in [Objects -> Clients \cup {None}]
  /\ origin \in [Objects -> Objects \cup {None}]

SessionsInit ==
  /\ PoolInit
  /\ mu = None
  /\ pc = [c \in Callers |-> "idle"]
  /\ old = [c \in Callers |-> None]
  /\ client = [c \in Callers |-> None]
  /\ quota = [c \in Callers |-> None]
  /\ renewed = [o \in Objects |-> None]
  /\ lapsed = {}
  /\ clients = [k \in Clients |-> None]
  /\ startTokens = [q \in Groups |-> StartBurst]
  /\ createTokens = CreateBurst
  /\ aged = {} /\ idle = {}
  /\ owner = [o \in Objects |-> None]
  /\ origin = [o \in Objects |-> None]

Goto(c, label) == pc' = [pc EXCEPT ![c] = label]

(* The clocks and the history of sessions that left the pool no longer     *)
(* matter; o, if not None, enters it for the client and cookie of c.       *)
Tracks(c, o) ==
  /\ aged' = aged \cap items'
  /\ idle' = idle \cap items'
  /\ owner' = [x \in Objects |-> IF x = o THEN client[c]
                                ELSE IF x \in items' THEN owner[x] ELSE None]
  /\ origin' = [x \in Objects |-> IF x = o THEN old[c]
                                 ELSE IF x \in items' THEN origin[x] ELSE None]

(* A request ends, and forgets what it was about.                          *)
Ends(c) ==
  /\ Goto(c, "idle")
  /\ old' = [old EXCEPT ![c] = None]
  /\ client' = [client EXCEPT ![c] = None]
  /\ quota' = [quota EXCEPT ![c] = None]

-----------------------------------------------------------------------------
(* apiSession: the cookie's session is in the pool.                        *)
RequestWithSession(c, o) ==
  /\ pc[c] = "idle"
  /\ Acquire(c, o)
  /\ Goto(c, "serving")
  /\ UNCHANGED <<mu, old, client, quota, renewed, lapsed, clients,
                 startTokens, createTokens, aged, idle, owner, origin>>

(* The bound on session IDs, which the code never runs out of: a request   *)
(* that may start a session comes only while one is left for it.           *)
IdsRemain ==
  Cardinality({c \in Requests : pc[c] \in {"lock", "sweep", "forget", "add"}})
    < Cardinality(fresh)

(* apiSession: no cookie, or one of a session that ended.                  *)
RequestWithout(c, k, o) ==
  /\ pc[c] = "idle" /\ Idle(c)
  /\ IdsRemain
  /\ o \in {None} \cup removed
  /\ Goto(c, "lock")
  /\ old' = [old EXCEPT ![c] = o]
  /\ client' = [client EXCEPT ![c] = k]
  /\ UNCHANGED <<poolVars, mu, quota, renewed, lapsed, clients, startTokens,
                 createTokens, aged, idle, owner, origin>>

(* renew finds the session that replaced this one moments ago.             *)
Replaced(o) ==
  /\ o # None
  /\ o \notin lapsed
  /\ renewed[o] \in items

RenewAgain(c) ==
  /\ pc[c] = "lock" /\ mu = None
  /\ Replaced(old[c])
  /\ Acquire(c, renewed[old[c]])
  /\ Goto(c, "answer")
  /\ UNCHANGED <<mu, old, client, quota, renewed, lapsed, clients,
                 startTokens, createTokens, aged, idle, owner, origin>>

(* quotaLocked: the client's quota, or a new one with full limiters.       *)
InUse(q) == (\E k \in Clients : clients[k] = q) \/ InGroup(items, q) # {}

Quotas(k) ==
  IF clients[k] # None THEN {clients[k]} ELSE {q \in Groups : ~InUse(q)}

(* Mutant: a request needs a token of one of the limiters only.            *)
AllowedByOne(tokens, q) == tokens[q] > 0 \/ createTokens > 0

(* limits.allow takes a token from both limiters, or from none.            *)
Allowed(tokens, q) == tokens[q] > 0 /\ createTokens > 0

StartQuota(c, q) ==
  /\ pc[c] = "lock" /\ mu = None
  /\ ~Replaced(old[c])
  /\ q \in Quotas(client[c])
  /\ clients' = [clients EXCEPT ![client[c]] = q]
  /\ LET tokens == IF clients[client[c]] = None
                   THEN [startTokens EXCEPT ![q] = StartBurst]
                   ELSE startTokens
     IN IF Allowed(tokens, q)
        THEN /\ startTokens' = [tokens EXCEPT ![q] = @ - 1]
             /\ createTokens' = createTokens - 1
             /\ mu' = c
             /\ quota' = [quota EXCEPT ![c] = q]
             /\ Goto(c, "sweep")
             /\ UNCHANGED <<old, client>>
        ELSE /\ startTokens' = tokens
             /\ Ends(c)
             /\ UNCHANGED <<createTokens, mu>>
  /\ UNCHANGED <<poolVars, renewed, lapsed, aged, idle, owner, origin>>

(* Mutant: sweepLocked does not ask whether the session is held.           *)
EndingHeld == aged \cup idle

(* Mutant: sweepLocked ends no idle session.                               *)
EndingAged == aged

(* The sessions sweepLocked ends.                                          *)
Ending == aged \cup {o \in idle : refs[o] = 0}

(* sweepLocked's removeIf.  The ticker's goroutine locks mu to get there.  *)
SweepPool(c) ==
  /\ IF c = Sweeper THEN pc[c] = "idle" /\ mu = None /\ Idle(c)
                    ELSE pc[c] = "sweep"
  /\ \/ Ending # {} /\ RemoveIf(c, Ending)
     \/ Ending = {} /\ UNCHANGED poolVars
  /\ Tracks(c, None)
  /\ mu' = c
  /\ Goto(c, "forget")
  /\ UNCHANGED <<old, client, quota, renewed, lapsed, clients,
                 startTokens, createTokens>>

(* Mutant: quotas of clients without sessions are forgotten at once.       *)
KeepsUsed(q) == InGroup(items, q) # {}

(* Mutant: quotas with full limiters are forgotten under live sessions.    *)
KeepsSpent(q) == startTokens[q] < StartBurst

(* The quotas sweepLocked keeps: of live sessions, or with used limiters.  *)
Keeps(q) == InGroup(items, q) # {} \/ startTokens[q] < StartBurst

SweepMaps(c) ==
  /\ pc[c] = "forget" /\ Idle(c)
  /\ renewed' = [o \in Objects |-> IF o \in lapsed THEN None ELSE renewed[o]]
  /\ lapsed' = {}
  /\ clients' = [k \in Clients |->
                   IF clients[k] # None /\ Keeps(clients[k]) THEN clients[k]
                                                             ELSE None]
  /\ IF c = Sweeper THEN mu' = None /\ Goto(c, "idle")
                    ELSE mu' = mu /\ Goto(c, "add")
  /\ UNCHANGED <<poolVars, old, client, quota, startTokens, createTokens,
                 aged, idle, owner, origin>>

AddSession(c, o) ==
  /\ pc[c] = "add"
  /\ Add(c, o, quota[c])
  /\ Tracks(c, o)
  /\ Goto(c, "record")
  /\ UNCHANGED <<mu, old, client, quota, renewed, lapsed, clients,
                 startTokens, createTokens>>

(* The limits' sessions are all held, or the server is closing.            *)
AddSessionFails(c, o) ==
  /\ pc[c] = "add"
  /\ AddFails(c, o, quota[c])
  /\ Goto(c, "failed")
  /\ UNCHANGED <<mu, old, client, quota, renewed, lapsed, clients,
                 startTokens, createTokens, aged, idle, owner, origin>>

(* Mutant: returns without unlocking mu.                                   *)
StartFailsLocked(c) ==
  /\ pc[c] = "failed" /\ Idle(c)
  /\ Ends(c)
  /\ UNCHANGED <<poolVars, mu, renewed, lapsed, clients, startTokens,
                 createTokens, aged, idle, owner, origin>>

StartFails(c) ==
  /\ pc[c] = "failed" /\ Idle(c)
  /\ mu' = None
  /\ Ends(c)
  /\ UNCHANGED <<poolVars, renewed, lapsed, clients, startTokens,
                 createTokens, aged, idle, owner, origin>>

(* Mutant: renew does not record what replaced the ended session.          *)
RecordNothing(c) ==
  /\ pc[c] = "record" /\ Idle(c)
  /\ mu' = None
  /\ Goto(c, "answer")
  /\ UNCHANGED <<poolVars, old, client, quota, renewed, lapsed, clients,
                 startTokens, createTokens, aged, idle, owner, origin>>

Record(c) ==
  /\ pc[c] = "record" /\ Idle(c)
  /\ IF old[c] = None
     THEN UNCHANGED <<renewed, lapsed>>
     ELSE /\ renewed' = [renewed EXCEPT ![old[c]] = holding[c]]
          /\ lapsed' = lapsed \ {old[c]}
  /\ mu' = None
  /\ Goto(c, "answer")
  /\ UNCHANGED <<poolVars, old, client, quota, clients, startTokens,
                 createTokens, aged, idle, owner, origin>>

(* Mutant: the answer sessionRenewed forgets to release the session.       *)
AnswerRenewedHolding(c) ==
  /\ pc[c] = "answer" /\ old[c] # None
  /\ Ends(c)
  /\ UNCHANGED <<poolVars, mu, renewed, lapsed, clients, startTokens,
                 createTokens, aged, idle, owner, origin>>

(* A request whose cookie was stale is told so (sessionRenewed).           *)
AnswerRenewed(c) ==
  /\ pc[c] = "answer" /\ old[c] # None
  /\ Release(c)
  /\ idle' = idle \ {holding[c]}
  /\ Ends(c)
  /\ UNCHANGED <<mu, renewed, lapsed, clients, startTokens, createTokens,
                 aged, owner, origin>>

(* A request without a cookie goes on with its new session.                *)
AnswerNew(c) ==
  /\ pc[c] = "answer" /\ old[c] = None
  /\ Goto(c, "serving")
  /\ UNCHANGED <<poolVars, mu, old, client, quota, renewed, lapsed, clients,
                 startTokens, createTokens, aged, idle, owner, origin>>

Respond(c) ==
  /\ pc[c] = "serving"
  /\ Release(c)
  /\ idle' = idle \ {holding[c]}
  /\ Ends(c)
  /\ UNCHANGED <<mu, renewed, lapsed, clients, startTokens, createTokens,
                 aged, owner, origin>>

(* Server.Close stops the sweeper's goroutine, and closeAll takes only the *)
(* pool's lock: a request may be in the middle of renew.                   *)
CloseAll ==
  /\ pc[Sweeper] = "idle"
  /\ Close(Sweeper)
  /\ Tracks(Sweeper, None)
  /\ UNCHANGED <<mu, pc, old, client, quota, renewed, lapsed, clients,
                 startTokens, createTokens>>

Finishes(c) == Finish(c) /\ UNCHANGED sessionVars

-----------------------------------------------------------------------------
(* Time passes.                                                            *)
GrowsOld(o) ==
  /\ o \in items \ aged
  /\ aged' = aged \cup {o}
  /\ UNCHANGED <<poolVars, mu, pc, old, client, quota, renewed, lapsed,
                 clients, startTokens, createTokens, idle, owner, origin>>

GoesIdle(o) ==
  /\ o \in items \ idle
  /\ \A x \in items : <<x, o>> \in usedBefore => x \in idle
  /\ idle' = idle \cup {o}
  /\ UNCHANGED <<poolVars, mu, pc, old, client, quota, renewed, lapsed,
                 clients, startTokens, createTokens, aged, owner, origin>>

Lapses(o) ==
  /\ renewed[o] # None /\ o \notin lapsed
  /\ lapsed' = lapsed \cup {o}
  /\ origin' = [origin EXCEPT ![renewed[o]] = None]
  /\ UNCHANGED <<poolVars, mu, pc, old, client, quota, renewed, clients,
                 startTokens, createTokens, aged, idle, owner>>

(* Under mu, now is fixed: allow and refilled see the limiters at one time. *)
RefillStart(q) ==
  /\ mu = None
  /\ startTokens[q] < StartBurst
  /\ startTokens' = [startTokens EXCEPT ![q] = @ + 1]
  /\ UNCHANGED <<poolVars, mu, pc, old, client, quota, renewed, lapsed,
                 clients, createTokens, aged, idle, owner, origin>>

RefillCreate ==
  /\ mu = None
  /\ createTokens < CreateBurst
  /\ createTokens' = createTokens + 1
  /\ UNCHANGED <<poolVars, mu, pc, old, client, quota, renewed, lapsed,
                 clients, startTokens, aged, idle, owner, origin>>

-----------------------------------------------------------------------------
Start(c) == \E q \in Groups : StartQuota(c, q)

(* What a goroutine does on its own, once a request or a tick woke it.     *)
Proceed(c) ==
  \/ SweepMaps(c) \/ StartFails(c) \/ Record(c)
  \/ AnswerRenewed(c) \/ AnswerNew(c) \/ Finishes(c)
  \/ \E o \in Objects : AddSession(c, o) \/ AddSessionFails(c, o)

SessionsNext ==
  \/ \E c \in Requests :
       \/ \E o \in Objects : RequestWithSession(c, o)
       \/ \E k \in Clients, o \in Objects \cup {None} : RequestWithout(c, k, o)
       \/ RenewAgain(c) \/ Start(c) \/ Respond(c)
  \/ \E c \in Callers : SweepPool(c) \/ Proceed(c)
  \/ CloseAll
  \/ \E o \in Objects : GrowsOld(o) \/ GoesIdle(o) \/ Lapses(o)
  \/ \E q \in Groups : RefillStart(q)
  \/ RefillCreate

SessionsSpec == SessionsInit /\ [][SessionsNext]_vars
-----------------------------------------------------------------------------
(* A client never has more sessions than ClientSessions, although its      *)
(* quota is an object the sweep may forget and renew create again.         *)
ClientCap ==
  GroupMax > 0 =>
    \A k \in Clients : Cardinality({o \in items : owner[o] = k}) <= GroupMax

(* The sessions of a client share one quota, the one its next session will *)
(* be counted in: its rate limits cannot be escaped by starting another.   *)
OneQuotaPerClient == \A o \in items : clients[owner[o]] = group[o]

(* Parallel requests of a browser whose session ended get one new session  *)
(* between them (session.go:43-45), within the grace.                      *)
RenewedOnce ==
  \A a, b \in items : a # b /\ origin[a] # None => origin[a] # origin[b]

(* A session somebody uses ends only at its maximum age or when the server *)
(* closes: never by idling, nor to make room for another client's.         *)
HeldEndsOnlyByAge ==
  [][\A o \in items \ items' : refs[o] > 0 => o \in aged \/ closed']_vars

(* A request that is over holds no session, however it was answered: a     *)
(* leaked hold would keep the session from idling out or being replaced.   *)
NoHoldLeaked ==
  \A c \in Callers : pc[c] \notin {"record", "answer", "serving"} =>
                       holding[c] = None

(* Every request that needs a new session is answered.                     *)
RequestsAnswered ==
  \A c \in Requests : pc[c] = "lock" ~> pc[c] \in {"idle", "serving"}

(* A session idle for too long ends, unless it is used again.              *)
IdleEnds ==
  \A o \in Objects : o \in idle /\ refs[o] = 0 ~> o \notin idle \/ refs[o] > 0
=============================================================================
