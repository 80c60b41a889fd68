------------------------------- MODULE Server -------------------------------
(***************************************************************************)
(* What the goroutines of a hosted inspector's server get done: those of   *)
(* its sessions, and those of the traffic feed.  They share no state, so a *)
(* behaviour is one part's, and the other part stays as it starts.         *)
(***************************************************************************)
EXTENDS Naturals

CONSTANTS Objects, Callers, Groups, GroupMax, Max, None,
          Clients, Sweeper, StartBurst, CreateBurst,
          Connections, Followers, Capacity, MaxBytes, MaxFrames, QueueSize,
          LastID, AtOnce, Weights

VARIABLES
  closed, items, removed, refs, usedBefore, group, fresh, holding, toStop,
  toDestroy, destroyed, mu, pc, old, client, quota, renewed, lapsed, clients,
  startTokens, createTokens, aged, idle, owner, origin,
  nextID, entry, bytes, subs, queue, filter, kind, phase, chunk, feed, shown,
  part         \* the part of the server

S == INSTANCE Sessions
T == INSTANCE Traffic

sessionsVars == <<closed, items, removed, refs, usedBefore, group, fresh,
                  holding, toStop, toDestroy, destroyed, mu, pc, old, client,
                  quota, renewed, lapsed, clients, startTokens, createTokens,
                  aged, idle, owner, origin>>
trafficVars == <<nextID, entry, bytes, subs, queue, filter, kind, phase,
                 chunk, feed, shown>>
serverVars == <<sessionsVars, trafficVars, part>>

ServerInit ==
  /\ part \in {"sessions", "traffic"}
  /\ S!SessionsInit /\ T!TrafficInit

ServerNext ==
  \/ part = "sessions" /\ S!SessionsNext /\ UNCHANGED <<trafficVars, part>>
  \/ part = "traffic" /\ T!TrafficNext /\ UNCHANGED <<sessionsVars, part>>

(* Goroutines run, sync.Mutex is fair (a waiter is not overtaken forever), *)
(* and the ticker ticks.  Requests need not end and need not come.         *)
SessionsFairness ==
  /\ \A c \in Callers :
       /\ WF_sessionsVars(part = "sessions" /\ S!Proceed(c))
       /\ SF_sessionsVars(part = "sessions" /\ S!SweepPool(c))
  /\ \A c \in S!Requests :
       SF_sessionsVars(part = "sessions" /\ (S!RenewAgain(c) \/ S!Start(c)))

(* handleTraffic's loop takes what is in its channel.                      *)
TrafficFairness ==
  \A f \in Followers :
    WF_trafficVars(part = "traffic" /\ (T!Deliver(f) \/ T!FellBehind(f)))

ServerSpec ==
  /\ ServerInit /\ [][ServerNext]_serverVars
  /\ SessionsFairness /\ TrafficFairness
-----------------------------------------------------------------------------
(* Every request that needs a new session is answered.                     *)
RequestsAnswered == S!RequestsAnswered

(* A session idle for too long ends, unless it is used again.              *)
IdleEnds == S!IdleEnds

(* A UI that keeps up learns that an exchange is over; one that does not   *)
(* is cut off, to start again from a snapshot.                             *)
OverIsShown == T!OverIsShown
=============================================================================
