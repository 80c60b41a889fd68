------------------------------ MODULE Custody ------------------------------
(***************************************************************************)
(* What the users of a pool (src/internal/server/pool.go) rely on, without *)
(* saying how the pool keeps it: an object enters the pool held by the     *)
(* goroutine that adds it, can be held only while it is in the pool, may   *)
(* leave the pool while it is held, and is destroyed after it left and its *)
(* last holder let go of it.  There are no reference counts, no flags and  *)
(* no deferred calls here; module Pool has them and implements this one.   *)
(***************************************************************************)
CONSTANTS Objects,   \* the objects that may ever enter the pool
          Callers    \* the goroutines that use it

VARIABLES stage,     \* where each object is in its life
          holders    \* who holds each object

custodyVars == <<stage, holders>>

Stages == {"new", "pooled", "removed", "gone"}

CustodyTypeOK ==
  /\ stage \in [Objects -> Stages]
  /\ holders \in [Objects -> SUBSET Callers]

CustodyInit ==
  /\ stage = [o \in Objects |-> "new"]
  /\ holders = [o \in Objects |-> {}]

(* The object o enters held by c, and the objects of V make room for it:   *)
(* none of them is held.                                                   *)
Enter(c, o, V) ==
  /\ stage[o] = "new"
  /\ \A v \in V : stage[v] = "pooled" /\ holders[v] = {}
  /\ stage' = [x \in Objects |-> IF x = o THEN "pooled"
                                 ELSE IF x \in V THEN "removed" ELSE stage[x]]
  /\ holders' = [holders EXCEPT ![o] = {c}]

(* The pool refuses o, which its creator then owns alone.                  *)
Refuse(o) ==
  /\ stage[o] = "new"
  /\ stage' = [stage EXCEPT ![o] = "removed"]
  /\ UNCHANGED holders

Hold(c, o) ==
  /\ stage[o] = "pooled"
  /\ holders' = [holders EXCEPT ![o] = @ \cup {c}]
  /\ UNCHANGED stage

LetGo(c, o) ==
  /\ c \in holders[o]
  /\ holders' = [holders EXCEPT ![o] = @ \ {c}]
  /\ UNCHANGED stage

(* The objects of S leave the pool, held or not.                           *)
Leave(S) ==
  /\ \A o \in S : stage[o] = "pooled"
  /\ stage' = [o \in Objects |-> IF o \in S THEN "removed" ELSE stage[o]]
  /\ UNCHANGED holders

Perish(o) ==
  /\ stage[o] = "removed"
  /\ holders[o] = {}
  /\ stage' = [stage EXCEPT ![o] = "gone"]
  /\ UNCHANGED holders

CustodyNext ==
  \/ \E c \in Callers, o \in Objects, V \in SUBSET Objects : Enter(c, o, V)
  \/ \E c \in Callers, o \in Objects : Hold(c, o) \/ LetGo(c, o)
  \/ \E o \in Objects : Refuse(o) \/ Perish(o)
  \/ \E S \in SUBSET Objects : Leave(S)

CustodySpec == CustodyInit /\ [][CustodyNext]_custodyVars

(* An object that left the pool is destroyed in the end.                   *)
CustodyLive == \A o \in Objects : stage[o] = "removed" ~> stage[o] = "gone"
=============================================================================
