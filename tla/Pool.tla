-------------------------------- MODULE Pool --------------------------------
(***************************************************************************)
(* The generic pool of src/internal/server/pool.go, which holds the        *)
(* sessions of a hosted inspector and the connections of a session.        *)
(*                                                                         *)
(* Every method body between p.mu.Lock and p.mu.Unlock is one action.  The *)
(* calls of stop() and destroy() come after the unlock, so they are steps  *)
(* of their own that every other goroutine can interleave with.            *)
(***************************************************************************)
EXTENDS Naturals, FiniteSets

CONSTANTS Objects,    \* objects (and their IDs, which are never reused)
          Callers,    \* goroutines; one stands for one hold at a time
          Groups,     \* what a limit's match tells apart: clients' quotas
          GroupMax,   \* the limit on the objects of one group, 0 for none
          Max,        \* the limit on all objects, 0 for none
          None        \* "holds no object"

ASSUME NoneIsNoObject == None \notin Objects
ASSUME LimitsAreCounts == GroupMax \in Nat /\ Max \in Nat
ASSUME ObjectsAreFinite == IsFiniteSet(Objects) /\ IsFiniteSet(Callers)

VARIABLES
  closed,       \* pool.closed
  items,        \* the objects in pool.items
  removed,      \* the entries with removed set
  refs,         \* poolEntry.refs
  usedBefore,   \* <<a, b>> when a.lastUse.Before(b.lastUse), both in items
  group,        \* the group an object belongs to, once it is created
  fresh,        \* objects nobody created yet
  holding,      \* the object whose release func a caller still has to call
  toStop,       \* per caller: objects its finish funcs have yet to stop
  toDestroy,    \* per caller: objects it has yet to destroy
  destroyed     \* objects whose destroy() was called

poolVars == <<closed, items, removed, refs, usedBefore, group, fresh,
              holding, toStop, toDestroy, destroyed>>

PoolTypeOK ==
  /\ closed \in BOOLEAN
  /\ items \in SUBSET Objects
  /\ removed \in SUBSET Objects
  /\ refs \in [Objects -> Nat]
  /\ usedBefore \in SUBSET (Objects \X Objects)
  /\ group \in [Objects -> Groups \cup {None}]
  /\ fresh \in SUBSET Objects
  /\ holding \in [Callers -> Objects \cup {None}]
  /\ toStop \in [Callers -> SUBSET Objects]
  /\ toDestroy \in [Callers -> SUBSET Objects]
  /\ destroyed \in SUBSET Objects

PoolInit ==
  /\ closed = FALSE
  /\ items = {}
  /\ removed = {}
  /\ refs = [o \in Objects |-> 0]
  /\ usedBefore = {}
  /\ group = [o \in Objects |-> None]
  /\ fresh = Objects
  /\ holding = [c \in Callers |-> None]
  /\ toStop = [c \in Callers |-> {}]
  /\ toDestroy = [c \in Callers |-> {}]
  /\ destroyed = {}

(* The caller is not inside a method of the pool.                          *)
Idle(c) == toStop[c] = {} /\ toDestroy[c] = {}

(* Mutant: forgets e.refs++.                                               *)
HoldsUncounted(c, o) ==
  /\ refs' = refs
  /\ holding' = [holding EXCEPT ![c] = o]

(* holdLocked without the release func: one more holder.                   *)
Holds(c, o) ==
  /\ refs' = [refs EXCEPT ![o] = @ + 1]
  /\ holding' = [holding EXCEPT ![c] = o]

(* o's lastUse becomes the latest of the entries S.                        *)
Touched(order, S, o) ==
  {p \in order : o \notin {p[1], p[2]}} \cup ((S \ {o}) \X {o})

(* lastUse of the entries that stay.                                       *)
Kept(S) == {p \in usedBefore : p[1] \in S /\ p[2] \in S}

(* Mutant: the finish funcs destroy without asking whether the object was  *)
(* held.                                                                   *)
RemovesHeld(c, S) ==
  /\ removed' = removed \cup S
  /\ toStop' = [toStop EXCEPT ![c] = S]
  /\ toDestroy' = [toDestroy EXCEPT ![c] = S]

(* removeLocked for every entry of S, and the finish funcs it returns.     *)
Removes(c, S) ==
  /\ removed' = removed \cup S
  /\ toStop' = [toStop EXCEPT ![c] = S]
  /\ toDestroy' = [toDestroy EXCEPT ![c] = {o \in S : refs[o] = 0}]

-----------------------------------------------------------------------------
Acquire(c, o) ==
  /\ Idle(c) /\ holding[c] = None
  /\ o \in items
  /\ Holds(c, o)
  /\ UNCHANGED <<closed, items, removed, usedBefore, group, fresh, toStop,
                 toDestroy, destroyed>>

(* Mutant: the last holder does not destroy.                               *)
ReleaseWithoutDestroy(c) ==
  /\ Idle(c) /\ holding[c] # None
  /\ refs' = [refs EXCEPT ![holding[c]] = @ - 1]
  /\ holding' = [holding EXCEPT ![c] = None]
  /\ UNCHANGED <<closed, items, removed, usedBefore, group, fresh, toStop,
                 toDestroy, destroyed>>

(* The release func.  Its once.Do is the guard on holding.                 *)
Release(c) ==
  /\ Idle(c) /\ holding[c] # None
  /\ LET o    == holding[c]
         last == o \in removed /\ refs[o] = 1
     IN /\ refs' = [refs EXCEPT ![o] = @ - 1]
        /\ usedBefore' = IF o \in items THEN Touched(usedBefore, items, o)
                                        ELSE usedBefore
        /\ toDestroy' = [toDestroy EXCEPT ![c] = IF last THEN {o} ELSE {}]
        /\ holding' = [holding EXCEPT ![c] = None]
  /\ UNCHANGED <<closed, items, removed, group, fresh, toStop, destroyed>>

(* The entries of S that nobody holds and no such entry was used before.   *)
Oldest(S) ==
  {o \in S : /\ refs[o] = 0
             /\ \A x \in S : refs[x] = 0 => <<x, o>> \notin usedBefore}

(* Mutant: room for one object more than the limit.                        *)
VictimsOffByOne(S, max) ==
  IF max = 0 \/ Cardinality(S) <= max THEN {{}} ELSE {{o} : o \in Oldest(S)}

(* The ways one limit of add picks victims among the entries S it counts:  *)
(* none if there is room, else one, else (no way) the limit's error.       *)
Victims(S, max) ==
  IF max = 0 \/ Cardinality(S) < max THEN {{}} ELSE {{o} : o \in Oldest(S)}

InGroup(S, g) == {o \in S : group[o] = g}

(* Mutant: the total counts the group's victim again.                      *)
ChoicesCountedTwice(g) ==
  UNION {{V \cup W : W \in Victims(items, Max)} :
           V \in Victims(InGroup(items, g), GroupMax)}

(* The group's limit first; the total does not count its victim again.     *)
Choices(g) ==
  UNION {{V \cup W : W \in Victims(items \ V, Max)} :
           V \in Victims(InGroup(items, g), GroupMax)}

(* Mutant: add does not look at closed.                                    *)
AddToClosed(c, o, g) ==
  /\ Idle(c) /\ holding[c] = None
  /\ o \in fresh
  /\ \E V \in Choices(g) :
       /\ items' = (items \ V) \cup {o}
       /\ Removes(c, V)
       /\ usedBefore' = Touched(Kept(items \ V), items \ V, o)
  /\ Holds(c, o)
  /\ fresh' = fresh \ {o}
  /\ group' = [group EXCEPT ![o] = g]
  /\ UNCHANGED <<closed, destroyed>>

Add(c, o, g) ==
  /\ Idle(c) /\ holding[c] = None
  /\ o \in fresh
  /\ ~closed
  /\ \E V \in Choices(g) :
       /\ items' = (items \ V) \cup {o}
       /\ Removes(c, V)
       /\ usedBefore' = Touched(Kept(items \ V), items \ V, o)
  /\ Holds(c, o)
  /\ fresh' = fresh \ {o}
  /\ group' = [group EXCEPT ![o] = g]
  /\ UNCHANGED <<closed, destroyed>>

(* add fails: closed, or the objects a limit counts are all held.  The     *)
(* caller destroys the object it created (session.go:281-284,              *)
(* connections.go in handleCreateConnection).                              *)
AddFails(c, o, g) ==
  /\ Idle(c) /\ holding[c] = None
  /\ o \in fresh
  /\ closed \/ Choices(g) = {}
  /\ fresh' = fresh \ {o}
  /\ toDestroy' = [toDestroy EXCEPT ![c] = {o}]
  /\ UNCHANGED <<closed, items, removed, refs, usedBefore, group, holding,
                 toStop, destroyed>>

(* remove of one object, and removeIf of those its callback picks.         *)
RemoveIf(c, S) ==
  /\ Idle(c) /\ holding[c] = None
  /\ S # {} /\ S \subseteq items
  /\ items' = items \ S
  /\ Removes(c, S)
  /\ usedBefore' = Kept(items \ S)
  /\ UNCHANGED <<closed, refs, group, fresh, holding, destroyed>>

Close(c) ==
  /\ Idle(c) /\ holding[c] = None
  /\ closed' = TRUE
  /\ items' = {}
  /\ Removes(c, items)
  /\ usedBefore' = {}
  /\ UNCHANGED <<refs, group, fresh, holding, destroyed>>

(* The finish funcs run one after the other, in any order: stop(), then    *)
(* destroy() if the object was unheld when it was removed.                 *)
Stop(c, o) ==
  /\ o \in toStop[c]
  /\ toDestroy[c] \subseteq toStop[c]
  /\ toStop' = [toStop EXCEPT ![c] = @ \ {o}]
  /\ UNCHANGED <<closed, items, removed, refs, usedBefore, group, fresh,
                 holding, toDestroy, destroyed>>

Destroy(c, o) ==
  /\ o \in toDestroy[c] \ toStop[c]
  /\ toDestroy' = [toDestroy EXCEPT ![c] = @ \ {o}]
  /\ destroyed' = destroyed \cup {o}
  /\ UNCHANGED <<closed, items, removed, refs, usedBefore, group, fresh,
                 holding, toStop>>

-----------------------------------------------------------------------------
Finish(c) == \E o \in Objects : Stop(c, o) \/ Destroy(c, o)

PoolNext ==
  \E c \in Callers :
    \/ Release(c) \/ Close(c) \/ Finish(c)
    \/ \E o \in Objects : Acquire(c, o)
    \/ \E o \in Objects, g \in Groups : Add(c, o, g) \/ AddFails(c, o, g)
    \/ \E S \in SUBSET Objects : RemoveIf(c, S)

PoolSpec == PoolInit /\ [][PoolNext]_poolVars

(* A goroutine that left the lock runs its finish funcs, and the holders   *)
(* of a removed object let go: stop() ended the calls they wait for.       *)
PoolFairSpec ==
  /\ PoolSpec
  /\ \A c \in Callers : /\ WF_poolVars(Finish(c))
                        /\ WF_poolVars(Release(c) /\ holding[c] \in removed)
-----------------------------------------------------------------------------
Holders(o) == {c \in Callers : holding[c] = o}

(* An object is never destroyed while a handler still uses it (pool.go:37: *)
(* "a removed object is destroyed only when its last holder releases it"). *)
NeverDestroyedWhileHeld ==
  \A o \in Objects : Holders(o) # {} =>
    o \notin destroyed /\ \A c \in Callers : o \notin toDestroy[c]

(* No object is destroyed twice: whoever is about to destroy one is the    *)
(* only one, however removal and the last release interleave.              *)
DestroyedOnce ==
  \A c \in Callers :
    /\ toDestroy[c] \cap destroyed = {}
    /\ \A d \in Callers \ {c} : toDestroy[c] \cap toDestroy[d] = {}

(* The pool stays within the limits given to add, whatever is replaced.    *)
WithinLimits ==
  /\ Max > 0 => Cardinality(items) <= Max
  /\ GroupMax > 0 =>
       \A g \in Groups : Cardinality(InGroup(items, g)) <= GroupMax

(* A new object takes the place of another group's only when its own group *)
(* has room: a client at its own limit costs no other client a session.    *)
OwnVictimFirst ==
  [][\A c \in Callers, o \in Objects, g \in Groups : Add(c, o, g) =>
       \A v \in items \ items' :
         group[v] # g =>
           GroupMax = 0 \/ Cardinality(InGroup(items, g)) < GroupMax
    ]_poolVars

(* Once the pool is closed, every object ever created is destroyed in the  *)
(* end: those it held, and those whose add comes too late.                 *)
ClosedIsDrained == closed ~> (fresh \cup destroyed = Objects)

-----------------------------------------------------------------------------
Stage(o) == IF o \in fresh THEN "new"
            ELSE IF o \in items THEN "pooled"
            ELSE IF o \in destroyed THEN "gone" ELSE "removed"

Lifetimes == INSTANCE Custody WITH
               stage <- [o \in Objects |-> Stage(o)],
               holders <- [o \in Objects |-> Holders(o)]

(* The pool implements the custody its users rely on.                      *)
PoolImplementsCustody == Lifetimes!CustodySpec

(* Every object that left the pool, or that it refused, is destroyed once  *)
(* its holders let go.                                                     *)
RemovedIsDestroyed == Lifetimes!CustodyLive
=============================================================================
