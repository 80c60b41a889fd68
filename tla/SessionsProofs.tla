--------------------------- MODULE SessionsProofs ---------------------------
(***************************************************************************)
(* Theorems about module Pool, for every set of objects, goroutines and    *)
(* groups and every pair of limits, and then, as a step of a session is    *)
(* one of its pool, about module Sessions, for any numbers of sessions,    *)
(* goroutines and clients, any limits and any bursts.                      *)
(***************************************************************************)
EXTENDS Sessions, FiniteSetTheorems, TLAPS
-----------------------------------------------------------------------------
(* The pool.                                                               *)

(* The count of holders that add, release and removeLocked decide by is    *)
(* the number of callers that will still call their release func.          *)
RefsCountHolders == \A o \in Objects : refs[o] = Cardinality(Holders(o))

(* An object is in one place: not created, in the pool, or removed; what   *)
(* is destroyed or about to be is out of the pool for good.                *)
OnePlace ==
  /\ items \cap (fresh \cup removed) = {}
  /\ removed \cap fresh = {}
  /\ destroyed \cap (items \cup fresh) = {}
  /\ \A c \in Callers : toDestroy[c] \cap (items \cup fresh) = {}

(* What is held is in the pool or was removed from it.                     *)
HeldWasPooled == \A c \in Callers : holding[c] # None =>
                   holding[c] \in items \cup removed

(* What is destroyed or about to be has no holders.                        *)
DoomedUnheld ==
  /\ \A o \in destroyed : refs[o] = 0
  /\ \A c \in Callers : \A o \in toDestroy[c] : refs[o] = 0

(* The inductive invariant: none of its parts is inductive alone.          *)
IInv ==
  /\ PoolTypeOK
  /\ RefsCountHolders
  /\ OnePlace
  /\ HeldWasPooled
  /\ DoomedUnheld
  /\ DestroyedOnce

-----------------------------------------------------------------------------
(* The holders of an object are among the goroutines, finitely many.       *)
LEMMA HoldersFinite ==
  \A o \in Objects : IsFiniteSet(Holders(o)) /\ Cardinality(Holders(o)) \in Nat
<1>1. TAKE o \in Objects
<1>2. Holders(o) \subseteq Callers /\ IsFiniteSet(Callers)
  BY ObjectsAreFinite DEF Holders
<1>3. QED
  BY <1>2, FS_Subset, FS_CardinalityType

(* One more caller holds o: its count of holders goes up by one.           *)
LEMMA HolderAdded ==
  ASSUME PoolTypeOK, RefsCountHolders,
         NEW c \in Callers, NEW o \in Objects,
         holding[c] = None, Holds(c, o)
  PROVE  RefsCountHolders'
<1>1. SUFFICES ASSUME NEW x \in Objects
               PROVE  refs'[x] = Cardinality(Holders(x)')
  BY DEF RefsCountHolders
<1>2. IsFiniteSet(Holders(x)) /\ refs[x] = Cardinality(Holders(x))
  BY HoldersFinite DEF RefsCountHolders
<1>3. CASE x = o
  <2>1. Holders(x)' = Holders(x) \cup {c} /\ c \notin Holders(x)
    BY <1>3, NoneIsNoObject DEF Holders, Holds, PoolTypeOK
  <2>2. refs'[x] = refs[x] + 1
    BY <1>3 DEF Holds, PoolTypeOK
  <2>3. QED
    BY <1>2, <2>1, <2>2, FS_AddElement
<1>4. CASE x # o
  <2>1. Holders(x)' = Holders(x)
    BY <1>4, NoneIsNoObject DEF Holders, Holds, PoolTypeOK
  <2>2. refs'[x] = refs[x]
    BY <1>4 DEF Holds, PoolTypeOK
  <2>3. QED
    BY <1>2, <2>1, <2>2
<1>5. QED
  BY <1>3, <1>4

(* A holder lets go: the object had one, and has one fewer.                *)
LEMMA HolderGone ==
  ASSUME PoolTypeOK, RefsCountHolders,
         NEW c \in Callers, holding[c] # None,
         refs' = [refs EXCEPT ![holding[c]] = @ - 1],
         holding' = [holding EXCEPT ![c] = None]
  PROVE  /\ refs[holding[c]] \in Nat \ {0}
         /\ RefsCountHolders'
<1> DEFINE o == holding[c]
<1>1. o \in Objects
  BY DEF PoolTypeOK
<1>2. IsFiniteSet(Holders(o)) /\ c \in Holders(o)
  BY <1>1, HoldersFinite DEF Holders
<1>3. refs[o] = Cardinality(Holders(o))
  BY <1>1 DEF RefsCountHolders
<1>4. Holders(o) # {}
  BY <1>2
<1>5. refs[o] \in Nat \ {0}
  BY <1>2, <1>3, <1>4, FS_EmptySet, FS_CardinalityType
<1>6. ASSUME NEW x \in Objects
      PROVE  refs'[x] = Cardinality(Holders(x)')
  <2>1. IsFiniteSet(Holders(x)) /\ refs[x] = Cardinality(Holders(x))
    BY <1>6, HoldersFinite DEF RefsCountHolders
  <2>2. CASE x = o
    <3>1. Holders(x)' = Holders(x) \ {c} /\ c \in Holders(x)
      BY <1>1, <1>2, <2>2, NoneIsNoObject DEF Holders, PoolTypeOK
    <3>2. refs'[x] = refs[x] - 1
      BY <1>1, <2>2 DEF PoolTypeOK
    <3>3. QED
      BY <2>1, <3>1, <3>2, FS_RemoveElement
  <2>3. CASE x # o
    <3>1. Holders(x)' = Holders(x)
      BY <1>1, <2>3, NoneIsNoObject DEF Holders, PoolTypeOK
    <3>2. refs'[x] = refs[x]
      BY <1>1, <2>3 DEF PoolTypeOK
    <3>3. QED
      BY <2>1, <3>1, <3>2
  <2>4. QED
    BY <2>2, <2>3
<1>7. QED
  BY <1>5, <1>6 DEF RefsCountHolders

(* Whoever else holds o, it has a positive count: the last holder is alone.*)
LEMMA LastHolderAlone ==
  ASSUME PoolTypeOK, RefsCountHolders,
         NEW c \in Callers, holding[c] # None
  PROVE  refs[holding[c]] # 0
<1>1. holding[c] \in Objects
  BY DEF PoolTypeOK
<1>2. c \in Holders(holding[c])
  BY DEF Holders
<1>3. QED
  BY <1>1, <1>2, HoldersFinite, FS_EmptySet DEF RefsCountHolders

(* Steps that keep refs and holding keep the count of holders right.       *)
LEMMA HoldersSame ==
  ASSUME RefsCountHolders, UNCHANGED <<refs, holding>>
  PROVE  RefsCountHolders'
BY DEF RefsCountHolders, Holders

(* add only ever replaces objects of the pool that nobody holds.           *)
LEMMA ChoicesUnheld ==
  ASSUME PoolTypeOK, NEW g \in Groups, NEW V \in Choices(g)
  PROVE  V \subseteq items /\ \A o \in V : refs[o] = 0
<1>1. ASSUME NEW S, NEW m, NEW W \in Victims(S, m)
      PROVE  W \subseteq S /\ \A o \in W : refs[o] = 0
  BY <1>1 DEF Victims, Oldest
<1>2. PICK V1 \in Victims(InGroup(items, g), GroupMax) :
        \E W \in Victims(items \ V1, Max) : V = V1 \cup W
  BY DEF Choices
<1>0. PICK W \in Victims(items \ V1, Max) : V = V1 \cup W
  BY <1>2
<1>3. V1 \subseteq InGroup(items, g) /\ \A o \in V1 : refs[o] = 0
  BY <1>1, <1>2
<1>4. W \subseteq items \ V1 /\ \A o \in W : refs[o] = 0
  BY <1>0, <1>1
<1>5. InGroup(items, g) \subseteq items
  BY DEF InGroup
<1>6. QED
  BY <1>0, <1>3, <1>4, <1>5

-----------------------------------------------------------------------------
(* The empty pool of newPool satisfies the invariant.                      *)
LEMMA InitInv == PoolInit => IInv
<1> SUFFICES ASSUME PoolInit PROVE IInv
  OBVIOUS
<1>1. PoolTypeOK
  BY DEF PoolInit, PoolTypeOK
<1>2. RefsCountHolders
  <2>1. \A o \in Objects : Holders(o) = {}
    BY NoneIsNoObject DEF PoolInit, Holders
  <2>2. QED
    BY <2>1, FS_EmptySet DEF PoolInit, RefsCountHolders
<1>3. OnePlace /\ HeldWasPooled /\ DoomedUnheld /\ DestroyedOnce
  BY DEF PoolInit, OnePlace, HeldWasPooled, DoomedUnheld, DestroyedOnce
<1>4. QED
  BY <1>1, <1>2, <1>3 DEF IInv

(* acquire adds the caller to an object's holders, and counts it.          *)
LEMMA AcquireInv ==
  ASSUME IInv, NEW c \in Callers, NEW o \in Objects, Acquire(c, o)
  PROVE  IInv'
<1> USE DEF IInv
<1>1. PoolTypeOK'
  BY DEF PoolTypeOK, Acquire, Holds
<1>2. RefsCountHolders'
  BY HolderAdded DEF Acquire
<1>3. OnePlace' /\ HeldWasPooled' /\ DestroyedOnce'
  BY DEF PoolTypeOK, OnePlace, HeldWasPooled, DestroyedOnce, Acquire, Holds
<1>4. DoomedUnheld'
  BY DEF PoolTypeOK, DoomedUnheld, OnePlace, Acquire, Holds
<1>5. QED
  BY <1>1, <1>2, <1>3, <1>4

(* Letting go of a hold keeps the invariant, the last hold of a removed    *)
(* object included, which dooms it.                                        *)
LEMMA ReleaseInv ==
  ASSUME IInv, NEW c \in Callers, Release(c)
  PROVE  IInv'
<1> USE DEF IInv
<1> DEFINE o == holding[c]
<1>1. o \in Objects /\ refs[o] \in Nat \ {0} /\ RefsCountHolders'
  BY HolderGone DEF Release, PoolTypeOK
<1>2. PoolTypeOK'
  <2>1. usedBefore' \in SUBSET (Objects \X Objects)
    BY <1>1 DEF PoolTypeOK, Release, Touched
  <2>2. QED
    BY <1>1, <2>1 DEF PoolTypeOK, Release
<1>3. OnePlace' /\ HeldWasPooled'
  BY <1>1 DEF PoolTypeOK, OnePlace, HeldWasPooled, Release
<1>4. DoomedUnheld'
  BY <1>1 DEF PoolTypeOK, DoomedUnheld, Release
<1>5. DestroyedOnce'
  BY <1>1 DEF PoolTypeOK, DoomedUnheld, DestroyedOnce, Release
<1>6. QED
  BY <1>1, <1>2, <1>3, <1>4, <1>5

(* add keeps the invariant: the new object has one holder, and those that  *)
(* make room for it have none.                                             *)
LEMMA AddInv ==
  ASSUME IInv, NEW c \in Callers, NEW o \in Objects,
         NEW g \in Groups, Add(c, o, g)
  PROVE  IInv'
<1> USE DEF IInv
<1>1. PICK V \in Choices(g) :
        /\ items' = (items \ V) \cup {o}
        /\ Removes(c, V)
        /\ usedBefore' = Touched(Kept(items \ V), items \ V, o)
  BY DEF Add
<1>2. V \subseteq items /\ \A x \in V : refs[x] = 0
  BY ChoicesUnheld DEF PoolTypeOK
<1>3. o \in fresh /\ holding[c] = None /\ Holds(c, o) /\ fresh' = fresh \ {o}
      /\ group' = [group EXCEPT ![o] = g] /\ UNCHANGED <<closed, destroyed>>
  BY DEF Add
<1>4. toDestroy' = [toDestroy EXCEPT ![c] = V]
  BY <1>1, <1>2 DEF Removes
<1>5. PoolTypeOK'
  <2>1. usedBefore' \in SUBSET (Objects \X Objects)
    BY <1>1 DEF PoolTypeOK, Touched, Kept
  <2>2. V \in SUBSET Objects
    BY <1>2 DEF PoolTypeOK
  <2>3. items' \in SUBSET Objects /\ removed' \in SUBSET Objects
    BY <1>1, <2>2 DEF PoolTypeOK, Removes
  <2>4. toStop' \in [Callers -> SUBSET Objects]
        /\ toDestroy' \in [Callers -> SUBSET Objects]
    BY <1>1, <1>4, <2>2 DEF PoolTypeOK, Removes
  <2>5. refs' \in [Objects -> Nat] /\ holding' \in [Callers -> Objects \cup {None}]
    BY <1>3 DEF PoolTypeOK, Holds
  <2>6. QED
    BY <1>3, <2>1, <2>3, <2>4, <2>5 DEF PoolTypeOK
<1>6. RefsCountHolders'
  BY <1>3, HolderAdded
<1>7. OnePlace' /\ HeldWasPooled'
  BY <1>1, <1>2, <1>3, <1>4
  DEF PoolTypeOK, OnePlace, HeldWasPooled, Removes, Holds
<1>8. DoomedUnheld'
  BY <1>1, <1>2, <1>3, <1>4 DEF PoolTypeOK, OnePlace, DoomedUnheld, Holds
<1>9. DestroyedOnce'
  BY <1>2, <1>3, <1>4 DEF PoolTypeOK, OnePlace, DestroyedOnce
<1>10. QED
  BY <1>5, <1>6, <1>7, <1>8, <1>9

(* A new object that was refused has no holders.                           *)
LEMMA FreshUnheld ==
  ASSUME IInv, NEW o \in fresh
  PROVE  refs[o] = 0
<1>1. o \in Objects /\ Holders(o) = {}
  BY NoneIsNoObject
  DEF IInv, PoolTypeOK, OnePlace, HeldWasPooled, Holders
<1>2. QED
  BY <1>1, FS_EmptySet DEF IInv, RefsCountHolders

(* The object add refuses leaves the pool's reach with no holder.          *)
LEMMA AddFailsInv ==
  ASSUME IInv, NEW c \in Callers, NEW o \in Objects,
         NEW g \in Groups, AddFails(c, o, g)
  PROVE  IInv'
<1> USE DEF IInv
<1>1. refs[o] = 0
  BY FreshUnheld DEF AddFails
<1>2. PoolTypeOK' /\ OnePlace' /\ HeldWasPooled' /\ DestroyedOnce'
  BY DEF PoolTypeOK, OnePlace, HeldWasPooled, DestroyedOnce, AddFails
<1>3. RefsCountHolders'
  BY HoldersSame DEF AddFails
<1>4. DoomedUnheld'
  BY <1>1 DEF PoolTypeOK, DoomedUnheld, AddFails
<1>5. QED
  BY <1>2, <1>3, <1>4

(* What removeIf and close share: the objects of S leave the pool.         *)
LEMMA LeaveInv ==
  ASSUME IInv, NEW c \in Callers, NEW S \in SUBSET items,
         items' = items \ S, Removes(c, S), closed' \in BOOLEAN,
         usedBefore' \subseteq usedBefore,
         UNCHANGED <<refs, group, fresh, holding, destroyed>>
  PROVE  IInv'
<1> USE DEF IInv
<1>1. PoolTypeOK'
  BY DEF PoolTypeOK, Removes
<1>2. RefsCountHolders'
  BY HoldersSame
<1>3. OnePlace' /\ HeldWasPooled' /\ DestroyedOnce'
  BY DEF PoolTypeOK, OnePlace, HeldWasPooled, DestroyedOnce, Removes
<1>4. DoomedUnheld'
  BY DEF PoolTypeOK, DoomedUnheld, Removes
<1>5. QED
  BY <1>1, <1>2, <1>3, <1>4

(* Stopping and destroying an object keep the invariant: nobody holds it.  *)
LEMMA FinishInv ==
  ASSUME IInv, NEW c \in Callers, Finish(c)
  PROVE  IInv'
<1> USE DEF IInv
<1>1. PICK o \in Objects : Stop(c, o) \/ Destroy(c, o)
  BY DEF Finish
<1>2. CASE Stop(c, o)
  <2>1. RefsCountHolders'
    BY <1>2, HoldersSame DEF Stop
  <2>2. QED
    BY <1>2, <2>1 DEF PoolTypeOK, OnePlace, HeldWasPooled, DoomedUnheld,
                      DestroyedOnce, Stop
<1>3. CASE Destroy(c, o)
  <2>1. RefsCountHolders'
    BY <1>3, HoldersSame DEF Destroy
  <2>2. PoolTypeOK' /\ OnePlace' /\ HeldWasPooled' /\ DoomedUnheld'
    BY <1>3 DEF PoolTypeOK, OnePlace, HeldWasPooled, DoomedUnheld, Destroy
  <2>3. DestroyedOnce'
    BY <1>3 DEF PoolTypeOK, DestroyedOnce, Destroy
  <2>4. QED
    BY <2>1, <2>2, <2>3
<1>4. QED
  BY <1>1, <1>2, <1>3

(* The invariant speaks of the pool's variables only.                      *)
LEMMA StutterInv == IInv /\ UNCHANGED poolVars => IInv'
<1> SUFFICES ASSUME IInv, UNCHANGED poolVars PROVE IInv'
  OBVIOUS
<1>1. RefsCountHolders'
  BY HoldersSame DEF IInv, poolVars
<1>2. QED
  BY <1>1 DEF IInv, poolVars, PoolTypeOK, OnePlace, HeldWasPooled,
              DoomedUnheld, DestroyedOnce

(* Every step of the pool keeps the invariant.                             *)
LEMMA StepInv == IInv /\ [PoolNext]_poolVars => IInv'
<1> SUFFICES ASSUME IInv, [PoolNext]_poolVars PROVE IInv'
  OBVIOUS
<1>1. ASSUME NEW c \in Callers, Release(c) PROVE IInv'
  BY <1>1, ReleaseInv
<1>2. ASSUME NEW c \in Callers, Close(c) PROVE IInv'
  <2>1. Removes(c, items) /\ items' = items \ items /\ closed' \in BOOLEAN
        /\ usedBefore' \subseteq usedBefore
        /\ UNCHANGED <<refs, group, fresh, holding, destroyed>>
    BY <1>2 DEF Close
  <2>2. QED
    BY <2>1, LeaveInv
<1>3. ASSUME NEW c \in Callers, Finish(c) PROVE IInv'
  BY <1>3, FinishInv
<1>4. ASSUME NEW c \in Callers, NEW o \in Objects,
             \/ Acquire(c, o)
             \/ \E g \in Groups : Add(c, o, g) \/ AddFails(c, o, g)
      PROVE  IInv'
  BY <1>4, AcquireInv, AddInv, AddFailsInv
<1>5. ASSUME NEW c \in Callers, NEW S \in SUBSET Objects, RemoveIf(c, S)
      PROVE  IInv'
  <2>1. S \in SUBSET items /\ Removes(c, S) /\ items' = items \ S
        /\ closed' \in BOOLEAN /\ usedBefore' \subseteq usedBefore
        /\ UNCHANGED <<refs, group, fresh, holding, destroyed>>
    BY <1>5 DEF RemoveIf, Kept, IInv, PoolTypeOK
  <2>2. QED
    BY <2>1, LeaveInv
<1>6. CASE UNCHANGED poolVars
  BY <1>6, StutterInv
<1>7. QED
  BY <1>1, <1>2, <1>3, <1>4, <1>5, <1>6 DEF PoolNext

(* The inductive invariant holds in every behaviour of the pool, whatever  *)
(* goroutines acquire, add, remove and close at once.                      *)
THEOREM PoolInvariant == PoolSpec => []IInv
<1>1. QED
  BY InitInv, StepInv, PTL DEF PoolSpec

(* Type correctness of the pool.                                           *)
THEOREM PoolTyped == PoolSpec => []PoolTypeOK
<1>1. IInv => PoolTypeOK
  BY DEF IInv
<1>2. QED
  BY <1>1, PoolInvariant, PTL

(* No object is destroyed while a handler still uses it, or is about to be *)
(* (pool.go:35-38).                                                        *)
THEOREM PoolSafeToUse == PoolSpec => []NeverDestroyedWhileHeld
<1>1. IInv => NeverDestroyedWhileHeld
  <2> SUFFICES ASSUME IInv, NEW c \in Callers, holding[c] \in Objects
               PROVE  /\ holding[c] \notin destroyed
                      /\ \A d \in Callers : holding[c] \notin toDestroy[d]
    BY DEF NeverDestroyedWhileHeld, Holders
  <2>1. refs[holding[c]] # 0
    BY LastHolderAlone, NoneIsNoObject DEF IInv
  <2>2. QED
    BY <2>1 DEF IInv, DoomedUnheld
<1>2. QED
  BY <1>1, PoolInvariant, PTL

(* No object is destroyed twice.                                           *)
THEOREM PoolDestroysOnce == PoolSpec => []DestroyedOnce
<1>1. IInv => DestroyedOnce
  BY DEF IInv
<1>2. QED
  BY <1>1, PoolInvariant, PTL

-----------------------------------------------------------------------------
(* A limit's victims make room: what they leave of the counted entries is  *)
(* below the limit, if the entries were within it.                         *)
LEMMA VictimsMakeRoom ==
  ASSUME NEW S, IsFiniteSet(S), NEW m \in Nat, m > 0, Cardinality(S) <= m,
         NEW V \in Victims(S, m)
  PROVE  Cardinality(S \ V) < m /\ IsFiniteSet(S \ V)
<1>1. CASE Cardinality(S) < m
  <2>1. V = {}
    BY <1>1, m # 0 DEF Victims
  <2>2. S \ V = S
    BY <2>1
  <2>3. QED
    BY <1>1, <2>2
<1>2. CASE ~(Cardinality(S) < m)
  <2>1. PICK o \in S : V = {o}
    BY <1>2, m # 0 DEF Victims, Oldest
  <2>2. Cardinality(S \ V) = Cardinality(S) - 1 /\ IsFiniteSet(S \ V)
    BY <2>1, FS_RemoveElement
  <2>3. Cardinality(S) \in Nat
    BY FS_CardinalityType
  <2>4. QED
    BY <2>2, <2>3
<1>3. QED
  BY <1>1, <1>2

(* Fewer objects than m, and one more, or fewer still, are at most m.      *)
LEMMA AtMost ==
  ASSUME NEW T, NEW S, NEW o, NEW m \in Nat, IsFiniteSet(S),
         Cardinality(S) < m, T \subseteq S \cup {o}
  PROVE  Cardinality(T) <= m
<1> DEFINE U == S \cup {o}
<1>0. Cardinality(S) \in Nat
  BY FS_CardinalityType
<1>1. IsFiniteSet(U) /\ Cardinality(U) <= Cardinality(S) + 1
  <2>1. IsFiniteSet(U)
        /\ (Cardinality(U) = Cardinality(S) + 1 \/ Cardinality(U) = Cardinality(S))
    BY FS_AddElement
  <2>2. QED
    BY <1>0, <2>1
<1>2. IsFiniteSet(T) /\ Cardinality(T) <= Cardinality(S \cup {o})
  BY <1>1, FS_Subset
<1>3. Cardinality(S) \in Nat /\ Cardinality(T) \in Nat
      /\ Cardinality(S \cup {o}) \in Nat
  BY <1>1, <1>2, FS_CardinalityType
<1>4. QED
  BY <1>1, <1>2, <1>3

(* Dropping entries never breaks a limit.                                  *)
LEMMA FewerWithinLimits ==
  ASSUME PoolTypeOK, WithinLimits, items' \subseteq items, group' = group
  PROVE  WithinLimits'
<1>1. IsFiniteSet(items)
  BY ObjectsAreFinite, FS_Subset DEF PoolTypeOK
<1>2. Cardinality(items') <= Cardinality(items)
  BY <1>1, FS_Subset
<1>3. ASSUME NEW g \in Groups
      PROVE  Cardinality(InGroup(items, g)') <= Cardinality(InGroup(items, g))
             /\ Cardinality(InGroup(items, g)) \in Nat
             /\ Cardinality(InGroup(items, g)') \in Nat
  <2>1. InGroup(items, g)' \subseteq InGroup(items, g)
    BY DEF InGroup
  <2>2. IsFiniteSet(InGroup(items, g)) /\ IsFiniteSet(InGroup(items, g)')
    BY <1>1, <2>1, FS_Subset DEF InGroup
  <2>3. QED
    BY <2>1, <2>2, FS_Subset, FS_CardinalityType
<1>4. Cardinality(items) \in Nat /\ Cardinality(items') \in Nat
  BY <1>1, FS_Subset, FS_CardinalityType
<1>5. (Max > 0 => Cardinality(items) <= Max)'
  BY <1>2, <1>4, LimitsAreCounts DEF WithinLimits
<1>6. ASSUME GroupMax > 0, NEW g \in Groups
      PROVE  Cardinality(InGroup(items, g)') <= GroupMax
  <2>1. Cardinality(InGroup(items, g)) <= GroupMax
    BY <1>6 DEF WithinLimits
  <2>2. QED
    BY <1>3, <2>1, LimitsAreCounts
<1>7. QED
  BY <1>5, <1>6 DEF WithinLimits

(* add leaves no more objects than the limits allow: it removes as many    *)
(* as it needs before it puts its own in.                                  *)
LEMMA AddWithinLimits ==
  ASSUME PoolTypeOK, WithinLimits, NEW c \in Callers, NEW o \in Objects,
         NEW g \in Groups, Add(c, o, g)
  PROVE  WithinLimits'
<1>1. /\ IsFiniteSet(items) /\ items \subseteq Objects
      /\ group' = [group EXCEPT ![o] = g]
      /\ group \in [Objects -> Groups \cup {None}]
  BY ObjectsAreFinite, FS_Subset DEF PoolTypeOK, Add
<1>2. PICK V \in Choices(g) : items' = (items \ V) \cup {o}
  BY DEF Add
<1>3. PICK V1 \in Victims(InGroup(items, g), GroupMax) :
        \E W \in Victims(items \ V1, Max) : V = V1 \cup W
  BY <1>2 DEF Choices
<1>4. PICK W \in Victims(items \ V1, Max) : V = V1 \cup W
  BY <1>3
<1>5. ASSUME Max > 0
      PROVE  Cardinality(items') <= Max
  <2>1. IsFiniteSet(items \ V1) /\ Cardinality(items \ V1) <= Max
    <3>1. Cardinality(items \ V1) <= Cardinality(items) /\ IsFiniteSet(items \ V1)
      BY <1>1, FS_Subset
    <3>2. Cardinality(items) \in Nat /\ Cardinality(items \ V1) \in Nat
      BY <1>1, <3>1, FS_CardinalityType
    <3>3. Cardinality(items) <= Max
      BY <1>5 DEF WithinLimits
    <3>4. QED
      BY <3>1, <3>2, <3>3, LimitsAreCounts
  <2>2. Cardinality((items \ V1) \ W) < Max /\ IsFiniteSet((items \ V1) \ W)
    BY <1>4, <1>5, <2>1, VictimsMakeRoom, LimitsAreCounts
  <2>3. items' \subseteq ((items \ V1) \ W) \cup {o}
    BY <1>2, <1>4
  <2>4. QED
    BY <2>2, <2>3, AtMost, LimitsAreCounts
<1>6. ASSUME GroupMax > 0, NEW h \in Groups
      PROVE  Cardinality(InGroup(items, h)') <= GroupMax
  <2>1. IsFiniteSet(InGroup(items, h)) /\ IsFiniteSet(InGroup(items, g))
    BY <1>1, FS_Subset DEF InGroup
  <2>2. Cardinality(InGroup(items, h)) <= GroupMax
        /\ Cardinality(InGroup(items, g)) <= GroupMax
    BY <1>1, <1>6 DEF WithinLimits
  <2>3. CASE h = g
    <3>1. Cardinality(InGroup(items, g) \ V1) < GroupMax
          /\ IsFiniteSet(InGroup(items, g) \ V1)
      BY <1>3, <1>6, <2>1, <2>2, VictimsMakeRoom, LimitsAreCounts
    <3>2. InGroup(items, h)' \subseteq (InGroup(items, g) \ V1) \cup {o}
      BY <1>1, <1>2, <1>4, <2>3 DEF InGroup
    <3>3. QED
      BY <3>1, <3>2, AtMost, LimitsAreCounts
  <2>4. CASE h # g
    <3>1. InGroup(items, h)' \subseteq InGroup(items, h)
      BY <1>1, <1>2, <2>4 DEF InGroup
    <3>2. Cardinality(InGroup(items, h)') <= Cardinality(InGroup(items, h))
          /\ IsFiniteSet(InGroup(items, h)')
      BY <2>1, <3>1, FS_Subset
    <3>3. QED
      BY <2>1, <2>2, <3>2, FS_CardinalityType, LimitsAreCounts
  <2>5. QED
    BY <2>3, <2>4
<1>7. QED
  BY <1>5, <1>6 DEF WithinLimits

(* The pool stays within its limits, whatever is replaced to keep them.    *)
THEOREM PoolKeepsLimits == PoolSpec => []WithinLimits
<1>1. PoolInit => WithinLimits
  <2> SUFFICES ASSUME PoolInit PROVE WithinLimits
    OBVIOUS
  <2>1. items = {} /\ \A g \in Groups : InGroup(items, g) = {}
    BY DEF PoolInit, InGroup
  <2>2. Cardinality({}) = 0
    BY FS_EmptySet
  <2>3. QED
    BY <2>1, <2>2, LimitsAreCounts DEF WithinLimits
<1>2. PoolTypeOK /\ WithinLimits /\ [PoolNext]_poolVars => WithinLimits'
  <2> SUFFICES ASSUME PoolTypeOK, WithinLimits, [PoolNext]_poolVars
               PROVE  WithinLimits'
    OBVIOUS
  <2>1. ASSUME NEW c \in Callers, NEW o \in Objects,
         NEW g \in Groups, Add(c, o, g)
        PROVE  WithinLimits'
    BY <2>1, AddWithinLimits
  <2>2. CASE items' \subseteq items /\ group' = group
    BY <2>2, FewerWithinLimits
  <2>3. CASE UNCHANGED poolVars
    BY <2>2, <2>3 DEF poolVars
  <2>4. ASSUME NEW c \in Callers, Release(c) \/ Close(c) \/ Finish(c)
        PROVE  WithinLimits'
    BY <2>2, <2>4 DEF Release, Close, Finish, Stop, Destroy
  <2>5. ASSUME NEW c \in Callers, NEW o \in Objects,
               Acquire(c, o) \/ \E g \in Groups : AddFails(c, o, g)
        PROVE  WithinLimits'
    BY <2>2, <2>5 DEF Acquire, AddFails
  <2>6. ASSUME NEW c \in Callers, NEW S \in SUBSET Objects, RemoveIf(c, S)
        PROVE  WithinLimits'
    BY <2>2, <2>6 DEF RemoveIf
  <2>7. QED
    BY <2>1, <2>3, <2>4, <2>5, <2>6 DEF PoolNext
<1>3. QED
  BY <1>1, <1>2, PoolTyped, PTL DEF PoolSpec

(* The group's victim makes room in the whole pool, which was within its   *)
(* limit, so that the pool's limit takes no second one.                    *)
LEMMA VictimsAreOwn ==
  ASSUME PoolTypeOK, WithinLimits, NEW c \in Callers, NEW o \in Objects,
         NEW g \in Groups, Add(c, o, g), NEW v \in items \ items',
         group[v] # g
  PROVE  GroupMax = 0 \/ Cardinality(InGroup(items, g)) < GroupMax
<1> DEFINE S == InGroup(items, g)
<1> SUFFICES ASSUME GroupMax # 0, ~ (Cardinality(S) < GroupMax)
             PROVE  FALSE
  OBVIOUS
<1>1. PICK V1 \in Victims(S, GroupMax) :
        \E W \in Victims(items \ V1, Max) : items' = (items \ (V1 \cup W)) \cup {o}
  BY DEF Add, Choices
<1>2. PICK W \in Victims(items \ V1, Max) :
        items' = (items \ (V1 \cup W)) \cup {o}
  BY <1>1
<1>3. PICK x \in S : V1 = {x}
  BY <1>1 DEF Victims, Oldest
<1>4. v \in W
  <2>1. v \in V1 \cup W BY <1>2
  <2>2. v \notin V1 BY <1>3 DEF InGroup
  <2>3. QED
    BY <2>1, <2>2
<1>5. IsFiniteSet(items) /\ x \in items
  BY <1>3, ObjectsAreFinite, FS_Subset DEF PoolTypeOK, InGroup
<1>6. Max # 0 /\ ~ (Cardinality(items \ V1) < Max)
  BY <1>2, <1>4 DEF Victims
<1>7. Cardinality(items \ V1) = Cardinality(items) - 1 /\ Cardinality(items) \in Nat
  BY <1>3, <1>5, FS_RemoveElement, FS_CardinalityType
<1>8. Cardinality(items) <= Max
  BY <1>6, LimitsAreCounts DEF WithinLimits
<1>9. QED
  BY <1>6, <1>7, <1>8, LimitsAreCounts

(* A client at its own limit costs no other client a session: a new object *)
(* takes the place of another group's only when its own group has room     *)
(* (add of pool.go).                                                       *)
THEOREM PoolOwnVictimFirst == PoolSpec => OwnVictimFirst
<1>1. PoolTypeOK /\ WithinLimits =>
        \A c \in Callers, o \in Objects, g \in Groups : Add(c, o, g) =>
          \A v \in items \ items' :
            group[v] # g =>
              GroupMax = 0 \/ Cardinality(InGroup(items, g)) < GroupMax
  BY VictimsAreOwn
<1>2. QED
  BY <1>1, PoolTyped, PoolKeepsLimits, PTL DEF OwnVictimFirst

-----------------------------------------------------------------------------
(* An object's stage and holders after a step, from the step's effect on   *)
(* the sets they are read from.                                            *)
LEMMA StageSame ==
  ASSUME NEW o \in Objects,
         (o \in fresh)' <=> o \in fresh,
         (o \in destroyed)' <=> o \in destroyed,
         (o \in items)' <=> o \in items
  PROVE  Stage(o)' = Stage(o)
BY DEF Stage

(* add is the custody's Enter: the victims leave and the object enters.    *)
LEMMA AddRefines ==
  ASSUME IInv, NEW c \in Callers, NEW o \in Objects,
         NEW g \in Groups, Add(c, o, g)
  PROVE  \E V \in SUBSET Objects : Lifetimes!Enter(c, o, V)
<1> USE DEF IInv
<1>1. PICK V \in Choices(g) :
        items' = (items \ V) \cup {o} /\ Removes(c, V)
  BY DEF Add
<1>2. V \subseteq items /\ \A x \in V : refs[x] = 0
  BY ChoicesUnheld DEF Add, PoolTypeOK
<1>3. o \in fresh /\ holding[c] = None /\ fresh' = fresh \ {o}
      /\ destroyed' = destroyed /\ holding' = [holding EXCEPT ![c] = o]
  BY DEF Add, Holds
<1>4. V \in SUBSET Objects /\ o \notin V
  BY <1>2, <1>3 DEF PoolTypeOK, OnePlace
<1>5. Stage(o) = "new"
  BY <1>3 DEF Stage
<1>6. ASSUME NEW v \in V
      PROVE  Stage(v) = "pooled" /\ Holders(v) = {}
  <2>1. v \in items /\ v \notin fresh /\ v \notin destroyed /\ v \in Objects
    BY <1>2, <1>4 DEF OnePlace
  <2>2. \A d \in Callers : holding[d] # v
    BY <1>2, <2>1, LastHolderAlone, NoneIsNoObject
  <2>3. QED
    BY <2>1, <2>2 DEF Stage, Holders
<1>7. ASSUME NEW x \in Objects
      PROVE  Stage(x)' = IF x = o THEN "pooled"
                         ELSE IF x \in V THEN "removed" ELSE Stage(x)
  <2>1. CASE x = o
    BY <1>1, <1>3, <2>1 DEF Stage, OnePlace
  <2>2. CASE x \in V
    BY <1>1, <1>2, <1>3, <1>4, <2>2 DEF Stage, OnePlace
  <2>3. CASE x # o /\ x \notin V
    BY <1>1, <1>3, <2>3, StageSame
  <2>4. QED
    BY <1>4, <2>1, <2>2, <2>3
<1>8. ASSUME NEW x \in Objects
      PROVE  Holders(x)' = IF x = o THEN {c} ELSE Holders(x)
  <2>1. Holders(o) = {}
    BY <1>3, NoneIsNoObject DEF Holders, OnePlace, HeldWasPooled
  <2>2. QED
    BY <1>3, <2>1, NoneIsNoObject DEF Holders, PoolTypeOK
<1>9. Lifetimes!Enter(c, o, V)
  BY <1>4, <1>5, <1>6, <1>7, <1>8 DEF Lifetimes!Enter
<1>10. QED
  BY <1>4, <1>9

(* Taking objects out of the pool is the custody's Leave.                  *)
LEMMA LeaveRefines ==
  ASSUME IInv, NEW c \in Callers, NEW S \in SUBSET items,
         items' = items \ S, UNCHANGED <<fresh, holding, destroyed>>
  PROVE  Lifetimes!Leave(S)
<1>1. ASSUME NEW o \in S PROVE Stage(o) = "pooled"
  BY DEF IInv, OnePlace, Stage
<1>2. ASSUME NEW o \in Objects
      PROVE  Stage(o)' = IF o \in S THEN "removed" ELSE Stage(o)
  <2>1. CASE o \in S
    BY <2>1 DEF IInv, OnePlace, Stage
  <2>2. CASE o \notin S
    BY <2>2, StageSame
  <2>3. QED
    BY <2>1, <2>2
<1>3. \A o \in Objects : Holders(o)' = Holders(o)
  BY DEF Holders
<1>4. S \subseteq Objects
  BY DEF IInv, PoolTypeOK
<1>5. QED
  BY <1>1, <1>2, <1>3, <1>4 DEF Lifetimes!Leave

(* The other operations of the pool are steps of the custody; stopping an  *)
(* object is none of its business.                                         *)
LEMMA OtherStepsRefine ==
  ASSUME IInv, NEW c \in Callers, NEW o \in Objects
  PROVE  /\ Acquire(c, o) => Lifetimes!Hold(c, o)
         /\ Release(c) => Lifetimes!LetGo(c, holding[c])
         /\ \A g \in Groups : AddFails(c, o, g) => Lifetimes!Refuse(o)
         /\ Stop(c, o) => UNCHANGED Lifetimes!custodyVars
         /\ Destroy(c, o) => Lifetimes!Perish(o)
<1> USE DEF IInv
<1>1. ASSUME Acquire(c, o) PROVE Lifetimes!Hold(c, o)
  <2>1. Stage(o) = "pooled"
    BY <1>1 DEF Acquire, Stage, OnePlace
  <2>2. \A x \in Objects : Stage(x)' = Stage(x)
    BY <1>1, StageSame DEF Acquire
  <2>3. \A x \in Objects :
          Holders(x)' = IF x = o THEN Holders(x) \cup {c} ELSE Holders(x)
    BY <1>1, NoneIsNoObject DEF Acquire, Holds, Holders, PoolTypeOK
  <2>4. QED
    BY <2>1, <2>2, <2>3 DEF Lifetimes!Hold
<1>2. ASSUME Release(c) PROVE Lifetimes!LetGo(c, holding[c])
  <2>1. holding[c] \in Objects /\ c \in Holders(holding[c])
    BY <1>2 DEF Release, Holders, PoolTypeOK
  <2>2. \A x \in Objects : Stage(x)' = Stage(x)
    BY <1>2, StageSame DEF Release
  <2>3. \A x \in Objects :
          Holders(x)' = IF x = holding[c] THEN Holders(x) \ {c} ELSE Holders(x)
    BY <1>2, NoneIsNoObject DEF Release, Holders, PoolTypeOK
  <2>4. QED
    BY <2>1, <2>2, <2>3 DEF Lifetimes!LetGo
<1>3. ASSUME NEW g \in Groups, AddFails(c, o, g) PROVE Lifetimes!Refuse(o)
  <2>1. Stage(o) = "new"
    BY <1>3 DEF AddFails, Stage
  <2>2. Stage(o)' = "removed"
    BY <1>3 DEF AddFails, Stage, OnePlace
  <2>3. \A x \in Objects : x # o => Stage(x)' = Stage(x)
    BY <1>3, StageSame DEF AddFails
  <2>4. \A x \in Objects : Holders(x)' = Holders(x)
    BY <1>3 DEF AddFails, Holders
  <2>5. QED
    BY <2>1, <2>2, <2>3, <2>4 DEF Lifetimes!Refuse
<1>4. ASSUME Stop(c, o) PROVE UNCHANGED Lifetimes!custodyVars
  <2>1. \A x \in Objects : Stage(x)' = Stage(x)
    BY <1>4, StageSame DEF Stop
  <2>2. \A x \in Objects : Holders(x)' = Holders(x)
    BY <1>4 DEF Stop, Holders
  <2>3. QED
    BY <2>1, <2>2 DEF Lifetimes!custodyVars
<1>5. ASSUME Destroy(c, o) PROVE Lifetimes!Perish(o)
  <2>1. o \notin items \cup fresh \cup destroyed /\ refs[o] = 0
    BY <1>5 DEF Destroy, OnePlace, DoomedUnheld, DestroyedOnce
  <2>2. Stage(o) = "removed" /\ Stage(o)' = "gone"
    BY <1>5, <2>1 DEF Destroy, Stage
  <2>3. Holders(o) = {}
    <3>1. \A d \in Callers : holding[d] # o
      BY <2>1, LastHolderAlone, NoneIsNoObject
    <3>2. QED
      BY <3>1 DEF Holders
  <2>4. \A x \in Objects : x # o => Stage(x)' = Stage(x)
    BY <1>5, StageSame DEF Destroy
  <2>5. \A x \in Objects : Holders(x)' = Holders(x)
    BY <1>5 DEF Destroy, Holders
  <2>6. QED
    BY <2>2, <2>3, <2>4, <2>5 DEF Lifetimes!Perish
<1>6. QED
  BY <1>1, <1>2, <1>3, <1>4, <1>5

(* Every step of the pool is a step of the custody its users rely on, or   *)
(* is invisible to them.                                                   *)
LEMMA StepRefines ==
  IInv /\ [PoolNext]_poolVars =>
    [Lifetimes!CustodyNext]_(Lifetimes!custodyVars)
<1> SUFFICES ASSUME IInv, [PoolNext]_poolVars
             PROVE  [Lifetimes!CustodyNext]_(Lifetimes!custodyVars)
  OBVIOUS
<1> USE DEF Lifetimes!CustodyNext
<1>1. ASSUME NEW c \in Callers, NEW o \in Objects,
         NEW g \in Groups, Add(c, o, g)
      PROVE  Lifetimes!CustodyNext
  BY <1>1, AddRefines
<1>2. ASSUME NEW c \in Callers, NEW o \in Objects,
             Acquire(c, o) \/ \E g \in Groups : AddFails(c, o, g)
      PROVE  Lifetimes!CustodyNext
  BY <1>2, OtherStepsRefine
<1>3. ASSUME NEW c \in Callers, Release(c)
      PROVE  Lifetimes!CustodyNext
  <2>1. holding[c] \in Objects
    BY <1>3 DEF Release, IInv, PoolTypeOK
  <2>2. QED
    BY <1>3, <2>1, OtherStepsRefine
<1>4. ASSUME NEW c \in Callers, Finish(c)
      PROVE  [Lifetimes!CustodyNext]_(Lifetimes!custodyVars)
  BY <1>4, OtherStepsRefine DEF Finish
<1>5. ASSUME NEW c \in Callers, NEW S \in SUBSET Objects, RemoveIf(c, S)
      PROVE  Lifetimes!CustodyNext
  <2>1. Lifetimes!Leave(S)
    BY <1>5, LeaveRefines DEF RemoveIf
  <2>2. QED
    BY <2>1
<1>6. ASSUME NEW c \in Callers, Close(c)
      PROVE  Lifetimes!CustodyNext
  <2>1. Lifetimes!Leave(items) /\ items \in SUBSET Objects
    BY <1>6, LeaveRefines DEF Close, IInv, PoolTypeOK
  <2>2. QED
    BY <2>1
<1>7. CASE UNCHANGED poolVars
  <2>1. \A x \in Objects : Stage(x)' = Stage(x)
    BY <1>7, StageSame DEF poolVars
  <2>2. \A x \in Objects : Holders(x)' = Holders(x)
    BY <1>7 DEF poolVars, Holders
  <2>3. QED
    BY <2>1, <2>2 DEF Lifetimes!custodyVars
<1>8. QED
  BY <1>1, <1>2, <1>3, <1>4, <1>5, <1>6, <1>7 DEF PoolNext

(* The pool, with its counts, flags and deferred calls, implements the     *)
(* custody of module Custody.                                              *)
THEOREM PoolRefinesCustody == PoolSpec => PoolImplementsCustody
<1>1. PoolInit => Lifetimes!CustodyInit
  <2> SUFFICES ASSUME PoolInit PROVE Lifetimes!CustodyInit
    OBVIOUS
  <2>1. \A o \in Objects : Stage(o) = "new" /\ Holders(o) = {}
    BY NoneIsNoObject DEF PoolInit, Stage, Holders
  <2>2. QED
    BY <2>1 DEF Lifetimes!CustodyInit
<1>2. QED
  BY <1>1, StepRefines, PoolInvariant, PTL
  DEF PoolSpec, PoolImplementsCustody, Lifetimes!CustodySpec
-----------------------------------------------------------------------------
(* The sessions.                                                           *)

Locked == {"sweep", "forget", "add", "record", "failed"}

(* Whoever starts or sweeps sessions holds mu.                             *)
LockHeld ==
  /\ \A c \in Callers : pc[c] \in Locked => mu = c
  /\ pc[Sweeper] \in {"idle", "forget"}

(* A request that renews knows its client; one that starts a session has   *)
(* spent a token of its client's quota, which the sweep therefore keeps,   *)
(* and no live session was started for its cookie in its grace but the one *)
(* it holds.                                                               *)
Starting ==
  \A c \in Requests :
    /\ pc[c] = "lock" => client[c] \in Clients
    /\ pc[c] \in {"sweep", "forget", "add"} =>
         /\ client[c] \in Clients /\ quota[c] \in Groups
         /\ clients[client[c]] = quota[c]
         /\ startTokens[quota[c]] < StartBurst
    /\ pc[c] \in {"sweep", "forget", "add", "record"} /\ old[c] # None =>
         \A o \in items : origin[o] = old[c] => o = holding[c]

(* A live session belongs to a client and is counted in its quota.         *)
Counted ==
  \A o \in items : owner[o] \in Clients /\ group[o] \in Groups

(* renewed leads to the session that was started for a cookie, once the    *)
(* request that started it recorded it.                                    *)
Renewals ==
  \A o \in items : origin[o] # None =>
    \/ renewed[origin[o]] = o /\ origin[o] \notin lapsed
    \/ \E c \in Requests :
         pc[c] = "record" /\ holding[c] = o /\ old[c] = origin[o]

(* The inductive invariant.                                                *)
SInv ==
  /\ IInv
  /\ SessionsTypeOK
  /\ LockHeld
  /\ Starting
  /\ Counted
  /\ OneQuotaPerClient
  /\ Renewals
  /\ NoHoldLeaked


(* A request that finds its session only takes a hold of it.               *)
LEMMA RequestWithSessionKeeps ==
  ASSUME SInv, IInv', NEW c \in Requests, NEW o \in Objects,
         RequestWithSession(c, o)
  PROVE  SInv'
<1>1. SessionsTypeOK'
  BY DEF SInv, SessionsTypeOK, RequestWithSession, Acquire, Goto
<1>2. LockHeld' /\ Starting'
  BY DEF SInv, SessionsTypeOK, RequestWithSession, Acquire, LockHeld, Locked,
         Starting, Requests, Goto, Holds
<1>3. Counted' /\ OneQuotaPerClient' /\ Renewals'
  BY DEF SInv, SessionsTypeOK, RequestWithSession, Acquire, Counted,
         OneQuotaPerClient, Renewals, Goto, Holds
<1>4. NoHoldLeaked'
  BY DEF SInv, SessionsTypeOK, RequestWithSession, Acquire, NoHoldLeaked, Goto,
         Holds
<1>5. QED
  BY <1>1, <1>2, <1>3, <1>4 DEF SInv

(* Renewing with a recorded renewal only takes a hold of the session.      *)
LEMMA RenewAgainKeeps ==
  ASSUME SInv, IInv', NEW c \in Requests, RenewAgain(c)
  PROVE  SInv'
<1>1. SessionsTypeOK'
  BY DEF SInv, SessionsTypeOK, RenewAgain, Acquire, Goto
<1>2. LockHeld' /\ Starting'
  BY DEF SInv, SessionsTypeOK, RenewAgain, Acquire, LockHeld, Locked, Starting,
         Goto, Holds
<1>3. Counted' /\ OneQuotaPerClient' /\ Renewals'
  BY DEF SInv, SessionsTypeOK, RenewAgain, Acquire, Counted, OneQuotaPerClient,
         Renewals, Goto, Holds
<1>4. NoHoldLeaked'
  BY DEF SInv, SessionsTypeOK, RenewAgain, Acquire, NoHoldLeaked, Goto, Holds
<1>5. QED
  BY <1>1, <1>2, <1>3, <1>4 DEF SInv

(* A request without a session knows its client, and starts nothing yet.   *)
LEMMA RequestWithoutKeeps ==
  ASSUME SInv, IInv', NEW c \in Requests, NEW k \in Clients, NEW o \in Objects \cup {None},
         RequestWithout(c, k, o)
  PROVE  SInv'
<1>1. SessionsTypeOK'
  BY DEF SInv, SessionsTypeOK, RequestWithout, Goto, poolVars
<1>2. LockHeld' /\ Starting'
  BY DEF SInv, SessionsTypeOK, RequestWithout, LockHeld, Locked, Starting,
         Requests, Goto, poolVars
<1>3. Counted' /\ OneQuotaPerClient' /\ Renewals'
  BY DEF SInv, SessionsTypeOK, RequestWithout, Counted, OneQuotaPerClient,
         Renewals, Goto, poolVars
<1>4. NoHoldLeaked'
  BY DEF SInv, SessionsTypeOK, RequestWithout, NoHoldLeaked, Goto, poolVars
<1>5. QED
  BY <1>1, <1>2, <1>3, <1>4 DEF SInv

(* Renewing takes mu with a token of the client's quota in hand, or gives  *)
(* up.                                                                     *)
LEMMA StartQuotaKeeps ==
  ASSUME SInv, IInv', NEW c \in Requests, NEW q \in Groups, StartQuota(c, q)
  PROVE  SInv'
<1> DEFINE tokens == IF clients[client[c]] = None
                     THEN [startTokens EXCEPT ![q] = StartBurst]
                     ELSE startTokens
<1> USE DEF SInv
<1>1. c \in Callers /\ client[c] \in Clients /\ q # None /\ c # None
  BY NoneIsNobody DEF StartQuota, Starting, Requests
<1>2. clients' = [clients EXCEPT ![client[c]] = q]
  BY DEF StartQuota
<1>3. tokens \in [Groups -> 0..StartBurst]
  BY BurstsArePositive DEF SessionsTypeOK
<1>4. UNCHANGED <<poolVars, renewed, lapsed, aged, idle, owner, origin>>
  BY DEF StartQuota
<1>5. \/ /\ startTokens' = [tokens EXCEPT ![q] = @ - 1]
         /\ createTokens' = createTokens - 1
         /\ createTokens > 0 /\ tokens[q] > 0
         /\ mu' = c
         /\ quota' = [quota EXCEPT ![c] = q]
         /\ pc' = [pc EXCEPT ![c] = "sweep"]
         /\ UNCHANGED <<old, client>>
      \/ /\ startTokens' = tokens
         /\ Ends(c)
         /\ UNCHANGED <<createTokens, mu>>
  BY DEF StartQuota, Allowed, Goto
<1>6. SessionsTypeOK'
  <2>1. clients' \in [Clients -> Groups \cup {None}]
    BY <1>1, <1>2 DEF SessionsTypeOK
  <2>2. startTokens' \in [Groups -> 0..StartBurst] /\ createTokens' \in 0..CreateBurst
    BY <1>3, <1>5, BurstsArePositive DEF SessionsTypeOK
  <2>3. /\ mu' \in Callers \cup {None}
        /\ quota' \in [Callers -> Groups \cup {None}]
        /\ old' \in [Callers -> Objects \cup {None}]
        /\ client' \in [Callers -> Clients \cup {None}]
        /\ pc' \in [Callers -> {"idle", "lock", "sweep", "forget", "add",
                                "record", "failed", "answer", "serving"}]
    BY <1>1, <1>5 DEF SessionsTypeOK, Ends, Goto
  <2>4. QED
    BY <1>4, <2>1, <2>2, <2>3 DEF SessionsTypeOK, poolVars
<1>7. \A d \in Callers : pc[d] \notin Locked
  BY NoneIsNobody DEF LockHeld, StartQuota
<1>8. LockHeld'
  <2>1. \/ pc' = [pc EXCEPT ![c] = "sweep"] /\ mu' = c
        \/ pc' = [pc EXCEPT ![c] = "idle"] /\ mu' = mu
    BY <1>5 DEF Ends, Goto
  <2>2. pc[c] = "lock" /\ c # Sweeper
    BY DEF StartQuota, Requests
  <2>3. QED
    BY <1>1, <1>7, <2>1, <2>2, SweeperIsCaller
    DEF LockHeld, Locked, SessionsTypeOK
<1>9. Starting'
  <2>1. CASE Ends(c)
    BY <1>4, <1>5, <1>7, <2>1
    DEF Starting, Locked, Requests, Ends, Goto, SessionsTypeOK, poolVars
  <2>2. CASE pc'[c] = "sweep"
    <3>1. tokens[q] \in 0..StartBurst /\ startTokens'[q] < StartBurst
      <4>1. startTokens' = [tokens EXCEPT ![q] = @ - 1]
        BY <1>1, <1>5, <2>2 DEF Ends, Goto, SessionsTypeOK
      <4>2. QED
        BY <1>3, <4>1, BurstsArePositive
    <3>2. quota'[c] = q /\ client'[c] = client[c] /\ clients'[client[c]] = q
      BY <1>1, <1>2, <1>5, <2>2 DEF Ends, Goto, SessionsTypeOK
    <3>3. ASSUME NEW o \in items, old'[c] # None, origin[o] = old'[c]
          PROVE  FALSE
      <4>1. old'[c] = old[c] /\ ~Replaced(old[c])
        BY <1>1, <1>5, <2>2 DEF StartQuota, Ends, Goto, SessionsTypeOK
      <4>2. renewed[old[c]] = o /\ old[c] \notin lapsed
        BY <1>7, <3>3, <4>1 DEF Renewals, Locked, Requests
      <4>3. QED
        BY <3>3, <4>1, <4>2 DEF Replaced
    <3>4. \A d \in Requests : d # c => pc'[d] = pc[d] /\ client'[d] = client[d]
      BY <1>1, <1>5 DEF Requests, Ends, Goto, SessionsTypeOK
    <3>5. QED
      BY <1>1, <1>4, <1>7, <2>2, <3>1, <3>2, <3>3, <3>4
      DEF Starting, Locked, Requests, poolVars
  <2>3. QED
    BY <1>1, <1>5, <2>1, <2>2 DEF SessionsTypeOK
<1>10. Counted' /\ Renewals'
  BY <1>1, <1>4, <1>5, <1>7
  DEF Counted, Renewals, Locked, Requests, poolVars, Ends, Goto, SessionsTypeOK
<1>11. OneQuotaPerClient'
  <2>1. ASSUME NEW o \in items PROVE clients'[owner[o]] = group[o]
    <3>1. clients[owner[o]] = group[o] /\ group[o] # None /\ owner[o] \in Clients
      BY NoneIsNobody DEF OneQuotaPerClient, Counted
    <3>2. clients[client[c]] # None => q = clients[client[c]]
      BY DEF StartQuota, Quotas
    <3>3. QED
      BY <1>2, <3>1, <3>2 DEF SessionsTypeOK
  <2>2. QED
    BY <1>4, <2>1 DEF OneQuotaPerClient, poolVars
<1>12. NoHoldLeaked'
  BY <1>1, <1>4, <1>5, <1>7
  DEF NoHoldLeaked, Locked, poolVars, Ends, Goto, SessionsTypeOK, StartQuota
<1>13. QED
  BY <1>6, <1>8, <1>9, <1>10, <1>11, <1>12


(* The sweep takes sessions out of the pool, and changes nothing of those  *)
(* that stay.                                                              *)
LEMMA SweepPoolKeeps ==
  ASSUME SInv, IInv', NEW c \in Callers, SweepPool(c)
  PROVE  SInv'
<1> USE DEF SInv
<1>1. /\ items' \subseteq items
      /\ UNCHANGED <<group, holding>>
  BY DEF SweepPool, RemoveIf, poolVars
<1>2. /\ pc[c] \in {"idle", "sweep"}
      /\ pc' = [pc EXCEPT ![c] = "forget"] /\ mu' = c
      /\ UNCHANGED <<old, client, quota, renewed, lapsed, clients,
                     startTokens, createTokens>>
  BY DEF SweepPool, Goto
<1>3. \A d \in Callers : d # c => pc[d] \notin Locked
  BY NoneIsNobody DEF LockHeld, SweepPool, Locked
<1>4. \A o \in items' : owner'[o] = owner[o] /\ origin'[o] = origin[o]
  BY <1>1, NoneIsNoObject DEF SweepPool, Tracks, IInv, PoolTypeOK
<1>5. SessionsTypeOK'
  <2>1. Tracks(c, None)
    BY DEF SweepPool
  <2>2. /\ aged' \subseteq items' /\ idle' \subseteq items'
        /\ owner' \in [Objects -> Clients \cup {None}]
        /\ origin' \in [Objects -> Objects \cup {None}]
    BY <2>1 DEF Tracks, SessionsTypeOK
  <2>3. QED
    BY <1>2, <2>2 DEF SessionsTypeOK
<1>6. LockHeld'
  BY <1>2, <1>3, SweeperIsCaller DEF LockHeld, SessionsTypeOK
<1>7. Starting'
  <2>1. \A d \in Requests : d # c => pc'[d] = pc[d] /\ pc[d] \notin Locked
    BY <1>2, <1>3 DEF Requests, SessionsTypeOK
  <2>2. c \in Requests => pc[c] = "sweep" /\ pc'[c] = "forget"
    BY <1>2 DEF SweepPool, Requests, SessionsTypeOK
  <2>3. QED
    BY <1>1, <1>2, <1>4, <2>1, <2>2 DEF Starting, Locked
<1>8. Counted' /\ OneQuotaPerClient'
  BY <1>1, <1>2, <1>4 DEF Counted, OneQuotaPerClient
<1>9. Renewals'
  <2>1. \A d \in Requests : pc[d] = "record" => pc'[d] = "record"
    BY <1>2 DEF Requests, SessionsTypeOK
  <2>2. QED
    BY <1>1, <1>2, <1>4, <2>1 DEF Renewals
<1>10. NoHoldLeaked'
  BY <1>1, <1>2 DEF NoHoldLeaked, SessionsTypeOK
<1>11. QED
  BY <1>5, <1>6, <1>7, <1>8, <1>9, <1>10


(* The sweep forgets renewals past their grace, which are no live          *)
(* session's origin, and only quotas without sessions or requests.         *)
LEMMA SweepMapsKeeps ==
  ASSUME SInv, IInv', NEW c \in Callers, SweepMaps(c)
  PROVE  SInv'
<1> USE DEF SInv
<1>1. UNCHANGED <<poolVars, old, client, quota, startTokens, createTokens,
                  aged, idle, owner, origin>>
  BY DEF SweepMaps
<1>2. /\ renewed' = [o \in Objects |-> IF o \in lapsed THEN None ELSE renewed[o]]
      /\ lapsed' = {}
      /\ clients' = [k \in Clients |->
           IF clients[k] # None /\ Keeps(clients[k]) THEN clients[k] ELSE None]
  BY DEF SweepMaps
<1>3. /\ pc[c] = "forget" /\ mu = c
      /\ \/ c = Sweeper /\ mu' = None /\ pc' = [pc EXCEPT ![c] = "idle"]
         \/ c \in Requests /\ mu' = mu /\ pc' = [pc EXCEPT ![c] = "add"]
  BY DEF SweepMaps, LockHeld, Locked, Goto, Requests
<1>4. \A d \in Callers : d # c => pc[d] \notin Locked
  BY <1>3 DEF LockHeld
<1>5. SessionsTypeOK'
  BY <1>1, <1>2, <1>3 DEF SessionsTypeOK, poolVars
<1>6. LockHeld'
  BY <1>3, <1>4, SweeperIsCaller DEF LockHeld, Locked, Requests, SessionsTypeOK
<1>7. Starting'
  <2>1. ASSUME NEW d \in Requests,
               pc'[d] \in {"sweep", "forget", "add", "record"}
        PROVE  d = c /\ pc'[d] = "add"
    BY <1>3, <1>4, <2>1 DEF Locked, Requests, SessionsTypeOK
  <2>2. ASSUME c \in Requests
        PROVE  /\ client[c] \in Clients /\ quota[c] \in Groups
               /\ clients'[client[c]] = quota[c]
    <3>1. /\ client[c] \in Clients /\ quota[c] \in Groups
          /\ clients[client[c]] = quota[c]
          /\ startTokens[quota[c]] < StartBurst
      BY <1>3, <2>2 DEF Starting
    <3>2. Keeps(quota[c]) /\ quota[c] # None
      BY <3>1, NoneIsNobody DEF Keeps
    <3>3. QED
      BY <1>2, <3>1, <3>2
  <2>3. \A d \in Requests : pc'[d] = "lock" => pc[d] = "lock"
    BY <1>3 DEF Requests, SessionsTypeOK
  <2>4. QED
    BY <1>1, <1>3, <2>1, <2>2, <2>3 DEF Starting, poolVars
<1>8. Counted'
  BY <1>1 DEF Counted, poolVars
<1>9. OneQuotaPerClient'
  <2>1. ASSUME NEW o \in items PROVE clients'[owner[o]] = group[o]
    <3>1. clients[owner[o]] = group[o] /\ group[o] # None /\ owner[o] \in Clients
      BY NoneIsNobody DEF OneQuotaPerClient, Counted
    <3>2. Keeps(group[o])
      BY DEF Keeps, InGroup
    <3>3. QED
      BY <1>2, <3>1, <3>2
  <2>2. QED
    BY <1>1, <2>1 DEF OneQuotaPerClient, poolVars
<1>10. Renewals'
  <2>1. \A o \in items : origin[o] \in Objects \cup {None}
    BY DEF SessionsTypeOK, IInv, PoolTypeOK
  <2>2. \A d \in Requests : pc[d] = "record" => pc'[d] = "record"
    BY <1>3 DEF Requests, SessionsTypeOK
  <2>3. QED
    BY <1>1, <1>2, <2>1, <2>2 DEF Renewals, poolVars
<1>11. NoHoldLeaked'
  BY <1>1, <1>3 DEF NoHoldLeaked, poolVars, SessionsTypeOK
<1>12. QED
  BY <1>5, <1>6, <1>7, <1>8, <1>9, <1>10, <1>11


(* The new session is counted in the quota of the client it belongs to,    *)
(* and no other live session was started for its cookie.                   *)
LEMMA AddSessionKeeps ==
  ASSUME SInv, IInv', NEW c \in Callers, NEW o \in Objects, AddSession(c, o)
  PROVE  SInv'
<1> USE DEF SInv
<1>1. /\ pc[c] = "add" /\ c \in Requests
      /\ pc' = [pc EXCEPT ![c] = "record"]
      /\ UNCHANGED <<mu, old, client, quota, renewed, lapsed, clients,
                     startTokens, createTokens>>
  BY DEF AddSession, LockHeld, Requests, Goto
<1>2. mu = c /\ \A d \in Callers : d # c => pc[d] \notin Locked
  BY <1>1 DEF LockHeld, Locked
<1>3. /\ client[c] \in Clients /\ quota[c] \in Groups
      /\ clients[client[c]] = quota[c]
      /\ \A x \in items : old[c] # None /\ origin[x] = old[c] => x = holding[c]
  BY <1>1 DEF Starting
<1>4. /\ holding[c] = None /\ holding' = [holding EXCEPT ![c] = o]
      /\ group' = [group EXCEPT ![o] = quota[c]]
      /\ o \in items' /\ items' \subseteq items \cup {o}
  BY DEF AddSession, Add, Holds
<1>5. items \subseteq Objects /\ items' \subseteq Objects
  BY <1>4 DEF IInv, PoolTypeOK
<1>6. ASSUME NEW x \in items'
      PROVE  /\ x = o => owner'[x] = client[c] /\ origin'[x] = old[c]
             /\ x # o => owner'[x] = owner[x] /\ origin'[x] = origin[x]
  BY <1>5 DEF AddSession, Tracks
<1>7. \A x \in items' : /\ x = o => group'[x] = quota[c]
                        /\ x # o => group'[x] = group[x]
  BY <1>4, <1>5 DEF IInv, PoolTypeOK
<1>8. SessionsTypeOK'
  BY <1>1, <1>3, <1>4 DEF AddSession, Tracks, SessionsTypeOK, IInv, PoolTypeOK
<1>9. LockHeld'
  BY <1>1, <1>2 DEF LockHeld, Locked, Requests, SessionsTypeOK
<1>10. Starting'
  <2>1. \A d \in Requests : d # c =>
          pc'[d] = pc[d] /\ pc[d] \notin {"sweep", "forget", "add", "record"}
    BY <1>1, <1>2 DEF Locked, Requests, SessionsTypeOK
  <2>2. \A x \in items' : old[c] # None /\ origin'[x] = old[c] => x = o
    <3>1. ASSUME NEW x \in items', old[c] # None, origin'[x] = old[c], x # o
          PROVE  FALSE
      <4>1. x \in items /\ origin[x] = old[c]
        BY <1>4, <1>6, <3>1
      <4>2. x = None /\ x \in Objects
        BY <1>3, <1>4, <1>5, <3>1, <4>1
      <4>3. QED
        BY <4>2, NoneIsNoObject
    <3>2. QED
      BY <3>1
  <2>3. pc'[c] = "record" /\ holding'[c] = o
    BY <1>1, <1>4 DEF Requests, SessionsTypeOK, IInv, PoolTypeOK
  <2>4. QED
    BY <1>1, <2>1, <2>2, <2>3 DEF Starting
<1>11. Counted' /\ OneQuotaPerClient'
  BY <1>1, <1>3, <1>4, <1>6, <1>7 DEF Counted, OneQuotaPerClient
<1>12. Renewals'
  <2>1. pc'[c] = "record" /\ holding'[c] = o /\ old'[c] = old[c]
    BY <1>1, <1>4 DEF Requests, SessionsTypeOK, IInv, PoolTypeOK
  <2>2. ASSUME NEW d \in Requests, pc[d] = "record" PROVE FALSE
    BY <1>1, <1>2, <2>2 DEF Locked, Requests
  <2>3. QED
    BY <1>1, <1>4, <1>6, <2>1, <2>2 DEF Renewals
<1>13. NoHoldLeaked'
  BY <1>1, <1>4 DEF NoHoldLeaked, Requests, SessionsTypeOK, IInv, PoolTypeOK
<1>14. QED
  BY <1>8, <1>9, <1>10, <1>11, <1>12, <1>13


(* A session the pool refuses leaves nothing behind.                       *)
LEMMA AddSessionFailsKeeps ==
  ASSUME SInv, IInv', NEW c \in Callers, NEW o \in Objects, AddSessionFails(c, o)
  PROVE  SInv'
<1>1. SessionsTypeOK'
  BY DEF SInv, SessionsTypeOK, AddSessionFails, AddFails, Goto
<1>2. LockHeld' /\ Starting'
  BY DEF SInv, SessionsTypeOK, AddSessionFails, AddFails, LockHeld, Locked,
         Starting, Goto
<1>3. Counted' /\ OneQuotaPerClient' /\ Renewals'
  BY DEF SInv, SessionsTypeOK, AddSessionFails, AddFails, Counted,
         OneQuotaPerClient, Renewals, Goto
<1>4. NoHoldLeaked'
  BY DEF SInv, SessionsTypeOK, AddSessionFails, AddFails, NoHoldLeaked, Goto
<1>5. QED
  BY <1>1, <1>2, <1>3, <1>4 DEF SInv

(* Giving up unlocks mu.                                                   *)
LEMMA StartFailsKeeps ==
  ASSUME SInv, IInv', NEW c \in Callers, StartFails(c)
  PROVE  SInv'
<1>1. SessionsTypeOK'
  BY DEF SInv, SessionsTypeOK, StartFails, Goto, Ends, poolVars
<1>2. LockHeld' /\ Starting'
  BY DEF SInv, SessionsTypeOK, StartFails, LockHeld, Locked, Starting, Goto,
         Ends, poolVars
<1>3. Counted' /\ OneQuotaPerClient' /\ Renewals'
  BY DEF SInv, SessionsTypeOK, StartFails, Counted, OneQuotaPerClient,
         Renewals, Goto, Ends, poolVars
<1>4. NoHoldLeaked'
  BY DEF SInv, SessionsTypeOK, StartFails, NoHoldLeaked, Goto, Ends, poolVars
<1>5. QED
  BY <1>1, <1>2, <1>3, <1>4 DEF SInv

(* The renewal recorded is the one of the only session started for the     *)
(* cookie.                                                                 *)
LEMMA RecordKeeps ==
  ASSUME SInv, IInv', NEW c \in Callers, Record(c)
  PROVE  SInv'
<1>1. SessionsTypeOK'
  BY DEF SInv, IInv, PoolTypeOK, SessionsTypeOK, Record, Goto, poolVars
<1>2. LockHeld' /\ Starting'
  BY DEF SInv, SessionsTypeOK, Record, LockHeld, Locked, Starting, Goto,
         poolVars
<1>3. Counted' /\ OneQuotaPerClient'
  BY DEF SInv, Record, Counted, OneQuotaPerClient, poolVars
<1>4. Renewals'
  <2>1. /\ pc[c] = "record" /\ c \in Requests
        /\ UNCHANGED <<items, origin, holding, old>>
        /\ \A d \in Requests : d # c => pc'[d] = pc[d]
    BY DEF SInv, Record, LockHeld, Requests, Goto, SessionsTypeOK, poolVars
  <2>2. ASSUME NEW o \in items, origin[o] # None, origin[o] = old[c]
        PROVE  renewed'[origin[o]] = o /\ origin[o] \notin lapsed'
    <3>1. o = holding[c]
      BY <2>1, <2>2 DEF SInv, Starting
    <3>2. old[c] \in Objects
      BY <2>1, <2>2 DEF SInv, SessionsTypeOK, Requests
    <3>3. QED
      BY <2>2, <3>1, <3>2 DEF SInv, Record, SessionsTypeOK
  <2>3. ASSUME NEW o \in items, origin[o] # None, origin[o] # old[c]
        PROVE  \/ renewed'[origin[o]] = o /\ origin[o] \notin lapsed'
               \/ \E d \in Requests :
                    pc'[d] = "record" /\ holding[d] = o /\ old[d] = origin[o]
    <3>1. CASE renewed[origin[o]] = o /\ origin[o] \notin lapsed
      <4>1. origin[o] \in Objects
        BY <2>3 DEF SInv, SessionsTypeOK, IInv, PoolTypeOK
      <4>2. QED
        BY <2>3, <3>1, <4>1 DEF SInv, Record, SessionsTypeOK
    <3>2. CASE \E d \in Requests :
                 pc[d] = "record" /\ holding[d] = o /\ old[d] = origin[o]
      BY <2>1, <2>3, <3>2
    <3>3. QED
      BY <2>3, <3>1, <3>2 DEF SInv, Renewals
  <2>4. QED
    BY <2>1, <2>2, <2>3 DEF Renewals
<1>5. NoHoldLeaked'
  BY DEF SInv, SessionsTypeOK, Record, NoHoldLeaked, Goto, poolVars
<1>6. QED
  BY <1>1, <1>2, <1>3, <1>4, <1>5 DEF SInv

(* The answer to a stale cookie lets the new session go.                   *)
LEMMA AnswerRenewedKeeps ==
  ASSUME SInv, IInv', NEW c \in Callers, AnswerRenewed(c)
  PROVE  SInv'
<1>1. SessionsTypeOK'
  BY DEF SInv, SessionsTypeOK, AnswerRenewed, Release, Goto, Ends
<1>2. LockHeld' /\ Starting'
  BY DEF SInv, SessionsTypeOK, AnswerRenewed, Release, LockHeld, Locked,
         Starting, Goto, Ends
<1>3. Counted' /\ OneQuotaPerClient' /\ Renewals'
  BY DEF SInv, SessionsTypeOK, AnswerRenewed, Release, Counted,
         OneQuotaPerClient, Renewals, Goto, Ends
<1>4. NoHoldLeaked'
  BY DEF SInv, SessionsTypeOK, IInv, PoolTypeOK, AnswerRenewed, Release,
         NoHoldLeaked, Goto, Ends
<1>5. QED
  BY <1>1, <1>2, <1>3, <1>4 DEF SInv

(* A request with a new session goes on with its hold.                     *)
LEMMA AnswerNewKeeps ==
  ASSUME SInv, IInv', NEW c \in Callers, AnswerNew(c)
  PROVE  SInv'
<1>1. SessionsTypeOK'
  BY DEF SInv, SessionsTypeOK, AnswerNew, Goto, poolVars
<1>2. LockHeld' /\ Starting'
  BY DEF SInv, SessionsTypeOK, AnswerNew, LockHeld, Locked, Starting, Goto,
         poolVars
<1>3. Counted' /\ OneQuotaPerClient' /\ Renewals'
  BY DEF SInv, SessionsTypeOK, AnswerNew, Counted, OneQuotaPerClient, Renewals,
         Goto, poolVars
<1>4. NoHoldLeaked'
  BY DEF SInv, SessionsTypeOK, AnswerNew, NoHoldLeaked, Goto, poolVars
<1>5. QED
  BY <1>1, <1>2, <1>3, <1>4 DEF SInv

(* A request that ends lets its session go.                                *)
LEMMA RespondKeeps ==
  ASSUME SInv, IInv', NEW c \in Requests, Respond(c)
  PROVE  SInv'
<1>1. SessionsTypeOK'
  BY DEF SInv, SessionsTypeOK, Respond, Release, Goto, Ends
<1>2. LockHeld' /\ Starting'
  BY DEF SInv, SessionsTypeOK, Respond, Release, LockHeld, Locked, Starting,
         Goto, Ends
<1>3. Counted' /\ OneQuotaPerClient' /\ Renewals'
  BY DEF SInv, SessionsTypeOK, Respond, Release, Counted, OneQuotaPerClient,
         Renewals, Goto, Ends
<1>4. NoHoldLeaked'
  BY DEF SInv, SessionsTypeOK, IInv, PoolTypeOK, Respond, Release,
         NoHoldLeaked, Goto, Ends
<1>5. QED
  BY <1>1, <1>2, <1>3, <1>4 DEF SInv

(* Stopping and destroying sessions touches only the pool.                 *)
LEMMA FinishesKeeps ==
  ASSUME SInv, IInv', NEW c \in Callers, Finishes(c)
  PROVE  SInv'
<1>1. SessionsTypeOK'
  BY DEF SInv, SessionsTypeOK, Finishes, Finish, Stop, Destroy, sessionVars
<1>2. LockHeld' /\ Starting'
  BY DEF SInv, SessionsTypeOK, Finishes, Finish, LockHeld, Starting, Stop,
         Destroy, sessionVars
<1>3. Counted' /\ OneQuotaPerClient' /\ Renewals'
  BY DEF SInv, SessionsTypeOK, Finishes, Finish, Counted, OneQuotaPerClient,
         Renewals, Stop, Destroy, sessionVars
<1>4. NoHoldLeaked'
  BY DEF SInv, SessionsTypeOK, Finishes, Finish, NoHoldLeaked, Stop, Destroy,
         sessionVars
<1>5. QED
  BY <1>1, <1>2, <1>3, <1>4 DEF SInv

(* Closing takes every session out of the pool, whatever renew is doing.   *)
LEMMA CloseAllKeeps ==
  ASSUME SInv, IInv', CloseAll
  PROVE  SInv'
<1>1. SessionsTypeOK'
  BY DEF SInv, IInv, PoolTypeOK, SessionsTypeOK, CloseAll, Close, Tracks,
         Removes
<1>2. LockHeld' /\ Starting'
  BY DEF SInv, SessionsTypeOK, CloseAll, Close, LockHeld, Starting
<1>3. Counted' /\ OneQuotaPerClient' /\ Renewals'
  BY DEF SInv, SessionsTypeOK, CloseAll, Close, Counted, OneQuotaPerClient,
         Renewals
<1>4. NoHoldLeaked'
  BY DEF SInv, SessionsTypeOK, CloseAll, Close, NoHoldLeaked
<1>5. QED
  BY <1>1, <1>2, <1>3, <1>4 DEF SInv

(* Growing old changes no session's account.                               *)
LEMMA GrowsOldKeeps ==
  ASSUME SInv, IInv', NEW o \in Objects, GrowsOld(o)
  PROVE  SInv'
<1>1. SessionsTypeOK'
  BY DEF SInv, SessionsTypeOK, GrowsOld, poolVars
<1>2. LockHeld' /\ Starting'
  BY DEF SInv, SessionsTypeOK, GrowsOld, LockHeld, Starting, poolVars
<1>3. Counted' /\ OneQuotaPerClient' /\ Renewals'
  BY DEF SInv, SessionsTypeOK, GrowsOld, Counted, OneQuotaPerClient, Renewals,
         poolVars
<1>4. NoHoldLeaked'
  BY DEF SInv, SessionsTypeOK, GrowsOld, NoHoldLeaked, poolVars
<1>5. QED
  BY <1>1, <1>2, <1>3, <1>4 DEF SInv

(* Going idle changes no session's account.                                *)
LEMMA GoesIdleKeeps ==
  ASSUME SInv, IInv', NEW o \in Objects, GoesIdle(o)
  PROVE  SInv'
<1>1. SessionsTypeOK'
  BY DEF SInv, SessionsTypeOK, GoesIdle, poolVars
<1>2. LockHeld' /\ Starting'
  BY DEF SInv, SessionsTypeOK, GoesIdle, LockHeld, Starting, poolVars
<1>3. Counted' /\ OneQuotaPerClient' /\ Renewals'
  BY DEF SInv, SessionsTypeOK, GoesIdle, Counted, OneQuotaPerClient, Renewals,
         poolVars
<1>4. NoHoldLeaked'
  BY DEF SInv, SessionsTypeOK, GoesIdle, NoHoldLeaked, poolVars
<1>5. QED
  BY <1>1, <1>2, <1>3, <1>4 DEF SInv

(* A renewal past its grace is no live session's origin any more.          *)
LEMMA LapsesKeeps ==
  ASSUME SInv, IInv', NEW o \in Objects, Lapses(o)
  PROVE  SInv'
<1>1. SessionsTypeOK'
  BY DEF SInv, SessionsTypeOK, Lapses, poolVars
<1>2. LockHeld' /\ Starting'
  BY DEF SInv, SessionsTypeOK, Lapses, LockHeld, Starting, poolVars
<1>3. Counted' /\ OneQuotaPerClient' /\ Renewals'
  BY DEF SInv, SessionsTypeOK, Lapses, Counted, OneQuotaPerClient, Renewals,
         poolVars
<1>4. NoHoldLeaked'
  BY DEF SInv, SessionsTypeOK, Lapses, NoHoldLeaked, poolVars
<1>5. QED
  BY <1>1, <1>2, <1>3, <1>4 DEF SInv

(* No quota is refilled while a session is started in it.                  *)
LEMMA RefillStartKeeps ==
  ASSUME SInv, IInv', NEW q \in Groups, RefillStart(q)
  PROVE  SInv'
<1>1. SessionsTypeOK'
  BY BurstsArePositive
  DEF SInv, SessionsTypeOK, RefillStart, poolVars
<1>2. LockHeld' /\ Starting'
  BY NoneIsNobody
  DEF SInv, SessionsTypeOK, RefillStart, LockHeld, Locked, Starting, Requests
<1>3. Counted' /\ OneQuotaPerClient' /\ Renewals'
  BY DEF SInv, SessionsTypeOK, RefillStart, Counted, OneQuotaPerClient,
         Renewals, poolVars
<1>4. NoHoldLeaked'
  BY DEF SInv, SessionsTypeOK, RefillStart, NoHoldLeaked, poolVars
<1>5. QED
  BY <1>1, <1>2, <1>3, <1>4 DEF SInv

(* The inspector's limiter refills on its own.                             *)
LEMMA RefillCreateKeeps ==
  ASSUME SInv, IInv', RefillCreate
  PROVE  SInv'
<1>1. SessionsTypeOK'
  BY BurstsArePositive
  DEF SInv, SessionsTypeOK, RefillCreate, poolVars
<1>2. LockHeld' /\ Starting'
  BY DEF SInv, SessionsTypeOK, RefillCreate, LockHeld, Starting, poolVars
<1>3. Counted' /\ OneQuotaPerClient' /\ Renewals'
  BY DEF SInv, SessionsTypeOK, RefillCreate, Counted, OneQuotaPerClient,
         Renewals, poolVars
<1>4. NoHoldLeaked'
  BY DEF SInv, SessionsTypeOK, RefillCreate, NoHoldLeaked, poolVars
<1>5. QED
  BY <1>1, <1>2, <1>3, <1>4 DEF SInv

-----------------------------------------------------------------------------
(* Each step of the sessions does one step of the pool, or none.           *)
LEMMA StepIsPoolStep ==
  SInv /\ [SessionsNext]_vars => [PoolNext]_poolVars
<1> SUFFICES ASSUME SInv, [SessionsNext]_vars
             PROVE  [PoolNext]_poolVars
  OBVIOUS
<1>1. ASSUME NEW c \in Requests, NEW o \in Objects, RequestWithSession(c, o)
      PROVE  PoolNext
  BY <1>1 DEF RequestWithSession, Requests, PoolNext
<1>2. ASSUME NEW c \in Requests, RenewAgain(c)
      PROVE  PoolNext
  <2>1. old[c] \in Objects /\ renewed[old[c]] \in items
    BY <1>2 DEF RenewAgain, Replaced, Requests, SInv, SessionsTypeOK
  <2>2. renewed[old[c]] \in Objects
    BY <2>1 DEF SInv, IInv, PoolTypeOK
  <2>3. QED
    BY <1>2, <2>2 DEF RenewAgain, Requests, PoolNext
<1>3. ASSUME NEW c \in Callers, SweepPool(c)
      PROVE  [PoolNext]_poolVars
  <2>1. Ending \in SUBSET Objects
    BY DEF Ending, SInv, SessionsTypeOK, IInv, PoolTypeOK
  <2>2. QED
    BY <1>3, <2>1 DEF SweepPool, PoolNext
<1>4. ASSUME NEW c \in Callers, NEW o \in Objects, AddSession(c, o)
      PROVE  PoolNext
  <2>1. c \in Requests /\ quota[c] \in Groups
    BY <1>4 DEF AddSession, SInv, LockHeld, Starting, Requests
  <2>2. QED
    BY <1>4, <2>1 DEF AddSession, PoolNext
<1>5. ASSUME NEW c \in Callers, NEW o \in Objects, AddSessionFails(c, o)
      PROVE  PoolNext
  <2>1. c \in Requests /\ quota[c] \in Groups
    BY <1>5 DEF AddSessionFails, SInv, LockHeld, Starting, Requests
  <2>2. QED
    BY <1>5, <2>1 DEF AddSessionFails, PoolNext
<1>6. ASSUME NEW c \in Callers, AnswerRenewed(c) \/ Respond(c) \/ Finishes(c)
      PROVE  PoolNext
  BY <1>6 DEF AnswerRenewed, Respond, Finishes, PoolNext
<1>7. ASSUME CloseAll
      PROVE  PoolNext
  BY <1>7, SweeperIsCaller DEF CloseAll, PoolNext
<1>8. ASSUME NEW c \in Callers,
             \/ SweepMaps(c) \/ StartFails(c) \/ Record(c) \/ AnswerNew(c)
             \/ \E k \in Clients, o \in Objects \cup {None} :
                  RequestWithout(c, k, o)
             \/ \E q \in Groups : StartQuota(c, q)
      PROVE  UNCHANGED poolVars
  BY <1>8 DEF SweepMaps, StartFails, Record, AnswerNew, RequestWithout,
              StartQuota
<1>9. ASSUME \/ \E o \in Objects : GrowsOld(o) \/ GoesIdle(o) \/ Lapses(o)
             \/ \E q \in Groups : RefillStart(q)
             \/ RefillCreate
      PROVE  UNCHANGED poolVars
  BY <1>9 DEF GrowsOld, GoesIdle, Lapses, RefillStart, RefillCreate
<1>10. ASSUME UNCHANGED vars
       PROVE  UNCHANGED poolVars
  BY <1>10 DEF vars
<1>11. Requests \subseteq Callers
  BY DEF Requests
<1>12. QED
  BY <1>1, <1>2, <1>3, <1>4, <1>5, <1>6, <1>7, <1>8, <1>9, <1>10, <1>11
  DEF SessionsNext, Start, Proceed

(* newSessions establishes the invariant.                                  *)
LEMMA SessionsInitInv == SessionsInit => SInv
<1> SUFFICES ASSUME SessionsInit PROVE SInv
  OBVIOUS
<1>1. IInv
  BY InitInv DEF SessionsInit
<1>2. SessionsTypeOK
  BY NoneIsNobody, BurstsArePositive
  DEF SessionsInit, SessionsTypeOK, PoolInit
<1>3. LockHeld /\ Starting /\ NoHoldLeaked
  BY SweeperIsCaller
  DEF SessionsInit, LockHeld, Locked, Starting, NoHoldLeaked, PoolInit, Requests
<1>4. Counted /\ OneQuotaPerClient /\ Renewals
  BY DEF SessionsInit, PoolInit, Counted, OneQuotaPerClient, Renewals
<1>5. QED
  BY <1>1, <1>2, <1>3, <1>4 DEF SInv

(* Every step of a request, of the sweep, of Close or of a clock keeps     *)
(* the invariant.                                                          *)
LEMMA SessionsStepInv == SInv /\ [SessionsNext]_vars => SInv'
<1> SUFFICES ASSUME SInv, [SessionsNext]_vars PROVE SInv'
  OBVIOUS
<1>1. IInv'
  BY StepIsPoolStep, StepInv DEF SInv
<1>2. ASSUME NEW c \in Requests
      PROVE  /\ \A o \in Objects : RequestWithSession(c, o) => SInv'
             /\ \A k \in Clients, o \in Objects \cup {None} :
                  RequestWithout(c, k, o) => SInv'
             /\ RenewAgain(c) \/ Start(c) \/ Respond(c) => SInv'
  BY <1>1, RequestWithSessionKeeps, RequestWithoutKeeps, RenewAgainKeeps,
     StartQuotaKeeps, RespondKeeps
  DEF Start
<1>3. ASSUME NEW c \in Callers, SweepPool(c) \/ Proceed(c)
      PROVE  SInv'
  BY <1>1, <1>3, SweepPoolKeeps, SweepMapsKeeps, StartFailsKeeps, RecordKeeps,
     AnswerRenewedKeeps, AnswerNewKeeps, FinishesKeeps, AddSessionKeeps,
     AddSessionFailsKeeps
  DEF Proceed
<1>4. CloseAll \/ RefillCreate => SInv'
  BY <1>1, CloseAllKeeps, RefillCreateKeeps
<1>5. ASSUME NEW o \in Objects, GrowsOld(o) \/ GoesIdle(o) \/ Lapses(o)
      PROVE  SInv'
  BY <1>1, <1>5, GrowsOldKeeps, GoesIdleKeeps, LapsesKeeps
<1>6. ASSUME NEW q \in Groups, RefillStart(q)
      PROVE  SInv'
  BY <1>1, <1>6, RefillStartKeeps
<1>7. CASE UNCHANGED vars
  <2>1. /\ SessionsTypeOK' /\ LockHeld' /\ Starting'
    BY <1>7 DEF SInv, SessionsTypeOK, LockHeld, Starting, vars, sessionVars,
                poolVars
  <2>2. Counted' /\ OneQuotaPerClient' /\ Renewals' /\ NoHoldLeaked'
    BY <1>7 DEF SInv, Counted, OneQuotaPerClient, Renewals, NoHoldLeaked, vars,
                sessionVars, poolVars
  <2>3. QED
    BY <1>1, <2>1, <2>2 DEF SInv
<1>8. QED
  BY <1>2, <1>3, <1>4, <1>5, <1>6, <1>7 DEF SessionsNext

(* The inductive invariant holds in every behaviour of the sessions,       *)
(* however requests, the sweep and Close interleave.                       *)
THEOREM SessionsInvariant == SessionsSpec => []SInv
BY SessionsInitInv, SessionsStepInv, PTL DEF SessionsSpec

(* The sessions use the pool as its specification allows, so what is       *)
(* proved of the pool holds of the sessions (startLocked, sweepLocked,     *)
(* apiSession and closeAll on ss.pool).                                    *)
THEOREM SessionsUsePool == SessionsSpec => PoolSpec
<1>1. SessionsInit => PoolInit
  BY DEF SessionsInit
<1>2. QED
  BY <1>1, StepIsPoolStep, SessionsInvariant, PTL DEF SessionsSpec, PoolSpec

(* The state of the sessions has its types: mu, the maps and the limiters. *)
THEOREM SessionsTyped == SessionsSpec => []SessionsTypeOK
<1>1. SInv => SessionsTypeOK
  BY DEF SInv
<1>2. QED
  BY <1>1, SessionsInvariant, PTL

(* All sessions of a client count in one quota, the one its next session   *)
(* will be counted in, although sweepLocked forgets quotas and             *)
(* quotaLocked makes them again.                                           *)
THEOREM SessionsShareQuota == SessionsSpec => []OneQuotaPerClient
<1>1. SInv => OneQuotaPerClient
  BY DEF SInv
<1>2. QED
  BY <1>1, SessionsInvariant, PTL

(* A client never has more than ClientSessions sessions in the pool.       *)
THEOREM SessionsClientCap == SessionsSpec => []ClientCap
<1>1. SInv /\ WithinLimits => ClientCap
  <2> SUFFICES ASSUME SInv, WithinLimits, GroupMax > 0, NEW k \in Clients
               PROVE  Cardinality({o \in items : owner[o] = k}) <= GroupMax
    BY DEF ClientCap
  <2> DEFINE own == {o \in items : owner[o] = k}
  <2>1. IsFiniteSet(items)
    BY FS_Subset, ObjectsAreFinite DEF SInv, IInv, PoolTypeOK
  <2>2. CASE own = {}
    BY <2>2, FS_EmptySet, LimitsAreCounts
  <2>3. CASE own # {}
    <3>1. PICK o \in own : TRUE
      BY <2>3
    <3>2. clients[k] \in Groups
      BY <3>1 DEF SInv, OneQuotaPerClient, Counted
    <3>3. own \subseteq InGroup(items, clients[k])
      BY DEF SInv, OneQuotaPerClient, InGroup
    <3>4. IsFiniteSet(InGroup(items, clients[k]))
      BY <2>1, FS_Subset DEF InGroup
    <3>5. Cardinality(own) <= Cardinality(InGroup(items, clients[k]))
      BY <3>3, <3>4, FS_Subset
    <3>6. Cardinality(InGroup(items, clients[k])) <= GroupMax
      BY <3>2 DEF WithinLimits
    <3>7. /\ Cardinality(own) \in Nat
          /\ Cardinality(InGroup(items, clients[k])) \in Nat
      BY <3>3, <3>4, FS_Subset, FS_CardinalityType
    <3>8. QED
      BY <3>5, <3>6, <3>7, LimitsAreCounts
  <2>4. QED
    BY <2>2, <2>3
<1>2. QED
  BY <1>1, SessionsInvariant, SessionsUsePool, PoolKeepsLimits, PTL

(* Requests with the same stale cookie get one new session between them,   *)
(* within renewalGrace.                                                    *)
THEOREM SessionsRenewOnce == SessionsSpec => []RenewedOnce
<1>1. SInv => RenewedOnce
  <2> SUFFICES ASSUME SInv, NEW a \in items, NEW b \in items,
                      origin[a] # None, origin[a] = origin[b]
               PROVE  a = b
    BY DEF RenewedOnce
  <2>1. ASSUME NEW x \in items, NEW c \in Requests, pc[c] = "record",
               old[c] # None, origin[x] = old[c]
        PROVE  x = holding[c]
    BY <2>1 DEF SInv, Starting
  <2>2. QED
    BY <2>1 DEF SInv, Renewals
<1>2. QED
  BY <1>1, SessionsInvariant, PTL

(* A request that is over holds no session.                                *)
THEOREM SessionsLeakNoHold == SessionsSpec => []NoHoldLeaked
<1>1. SInv => NoHoldLeaked
  BY DEF SInv
<1>2. QED
  BY <1>1, SessionsInvariant, PTL

(* A session in use ends only at its maximum age or when the server        *)
(* closes: sweepLocked and add leave it alone.                             *)
THEOREM SessionsHeldStay == SessionsSpec => HeldEndsOnlyByAge
<1> DEFINE Stays == \A o \in items \ items' : refs[o] > 0 => o \in aged \/ closed'
<1>1. SInv /\ [SessionsNext]_vars => [Stays]_vars
  <2> SUFFICES ASSUME SInv, SessionsNext,
                      NEW o \in items \ items', refs[o] > 0
               PROVE  o \in aged \/ closed'
    OBVIOUS
  <2> USE DEF SInv
  <2>1. ASSUME NEW c \in Callers, SweepPool(c)
        PROVE  o \in aged
    BY <2>1 DEF SweepPool, RemoveIf, Ending, poolVars
  <2>2. ASSUME NEW c \in Callers, NEW x \in Objects, AddSession(c, x)
        PROVE  FALSE
    <3>1. quota[c] \in Groups
      BY <2>2 DEF AddSession, LockHeld, Starting, Requests
    <3>2. PICK V \in Choices(quota[c]) : items' = (items \ V) \cup {x}
      BY <2>2 DEF AddSession, Add
    <3>3. o \in V
      BY <3>2
    <3>4. QED
      BY <3>1, <3>3, ChoicesUnheld DEF IInv
  <2>3. ASSUME CloseAll
        PROVE  closed'
    BY <2>3 DEF CloseAll, Close
  <2>4. ASSUME NEW c \in Callers,
               \/ \E x \in Objects : RequestWithSession(c, x)
               \/ \E k \in Clients, x \in Objects \cup {None} :
                    RequestWithout(c, k, x)
               \/ RenewAgain(c) \/ Start(c) \/ Respond(c)
        PROVE  FALSE
    BY <2>4 DEF RequestWithSession, RequestWithout, RenewAgain, Start,
                StartQuota, Respond, Acquire, Release, poolVars
  <2>5. ASSUME NEW c \in Callers,
               \/ SweepMaps(c) \/ StartFails(c) \/ Record(c)
               \/ AnswerRenewed(c) \/ AnswerNew(c) \/ Finishes(c)
               \/ \E x \in Objects : AddSessionFails(c, x)
        PROVE  FALSE
    BY <2>5 DEF SweepMaps, StartFails, Record, AnswerRenewed, AnswerNew,
                Finishes, Finish, Stop, Destroy, AddSessionFails, AddFails,
                Release, poolVars
  <2>6. ASSUME \/ \E x \in Objects : GrowsOld(x) \/ GoesIdle(x) \/ Lapses(x)
               \/ \E q \in Groups : RefillStart(q)
               \/ RefillCreate
        PROVE  FALSE
    BY <2>6 DEF GrowsOld, GoesIdle, Lapses, RefillStart, RefillCreate, poolVars
  <2>7. Requests \subseteq Callers
    BY DEF Requests
  <2>8. QED
    BY <2>1, <2>2, <2>3, <2>4, <2>5, <2>6, <2>7 DEF SessionsNext, Proceed
<1>2. QED
  BY <1>1, SessionsInvariant, PTL DEF SessionsSpec, HeldEndsOnlyByAge
=============================================================================
