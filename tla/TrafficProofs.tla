---------------------------- MODULE TrafficProofs ---------------------------
(***************************************************************************)
(* Proofs about module Traffic, for every number of followers, connections *)
(* and entries and every limit of the log.                                 *)
(*                                                                         *)
(* LogInv is the part of the log that the accounts need: what makeRoom     *)
(* leaves and what it counts.  Every step of an exchange changes one entry *)
(* or none (ChangedOrNot), and a request adds one (Added), and both say    *)
(* what subscribers are told.  FollowInv adds what a UI shows after each   *)
(* of the updates in its channel; after the last one it Agrees with the    *)
(* log.                                                                    *)
(***************************************************************************)
EXTENDS Traffic, SequenceTheorems, SetLemmas

(* An entry that is over was left by its exchange.                         *)
LogInv ==
  /\ nextID \in 0..LastID
  /\ entry \in [Ids -> Entries \cup {None}]
  /\ \A i \in Ids : i > nextID => entry[i] = None
  /\ bytes \in Nat
  /\ BytesAccounted /\ WithinBudget

QueueInv ==
  /\ subs \subseteq Followers
  /\ queue \in [Followers -> Seq(Updates)]
  /\ \A f \in Followers : Len(queue[f]) <= QueueSize
  /\ filter \in [Followers -> SUBSET Connections]

-----------------------------------------------------------------------------
LEMMA IdsFinite ==
  ASSUME NEW S \in SUBSET Ids
  PROVE  IsFiniteSet(S) /\ Cardinality(S) \in Nat
<1>1. IsFiniteSet(Ids)
  BY FS_Interval, LogAssumption DEF Ids
<1> QED
  BY <1>1, FS_Subset, FS_CardinalityType

(* What some of the entries weigh.                                         *)
LEMMA SizeOfPart ==
  ASSUME LogInv, NEW S \in SUBSET Logged
  PROVE  /\ SizeOf(S) \in Nat
         /\ \A P \in SUBSET S : SizeOf(S) = SizeOf(P) + SizeOf(S \ P)
         /\ \A i \in S : SizeOf(S) = entry[i].size + SizeOf(S \ {i})
<1> DEFINE w == [i \in Logged |-> entry[i].size]
<1>1. \A i \in Logged : entry[i] \in Entries /\ w[i] \in Nat
  BY DEF LogInv, Logged, Entries
<1>2. \A T \in SUBSET Logged : IsFiniteSet(T)
  BY IdsFinite DEF Logged
<1>3. ASSUME NEW T \in SUBSET Logged PROVE SizeOf(T) = SumFunctionOnSet(w, T)
  <2> DEFINE v == [i \in T |-> entry[i].size]
  <2>1. SizeOf(T) = SumFunctionOnSet(v, T)
    BY DEF SizeOf, SumFunction
  <2>2. \A i \in T : v[i] = w[i] /\ w[i] \in Int
    BY <1>1
  <2> HIDE DEF v, w
  <2>3. SumFunctionOnSet(v, T) = SumFunctionOnSet(w, T)
    BY <1>2, <2>2, SumSame
  <2> QED
    BY <2>1, <2>3
<1>4. \A i \in S : w[i] = entry[i].size /\ w[i] \in Nat /\ w[i] \in Int
  BY <1>1
<1>5. IsFiniteSet(S)
  BY <1>2
<1> HIDE DEF w
<1>6. SizeOf(S) \in Nat
  BY <1>3, <1>4, <1>5, SumNat
<1>7. ASSUME NEW P \in SUBSET S PROVE SizeOf(S) = SizeOf(P) + SizeOf(S \ P)
  <2>1. P \in SUBSET Logged /\ S \ P \in SUBSET Logged
    OBVIOUS
  <2>2. SumFunctionOnSet(w, S) = SumFunctionOnSet(w, P) + SumFunctionOnSet(w, S \ P)
    BY <1>4, <1>5, SumSplit
  <2> QED
    BY <1>3, <2>1, <2>2
<1>8. ASSUME NEW i \in S PROVE SizeOf(S) = entry[i].size + SizeOf(S \ {i})
  <2>1. S \ {i} \in SUBSET Logged
    OBVIOUS
  <2>2. SumFunctionOnSet(w, S) = w[i] + SumFunctionOnSet(w, S \ {i})
    BY <1>4, <1>5, SumRemove
  <2> QED
    BY <1>3, <1>4, <2>1, <2>2
<1> QED
  BY <1>6, <1>7, <1>8

(* What is left when makeRoom made what room it could.                     *)
LEMMA Room ==
  ASSUME LogInv, NEW S \in SUBSET Logged, NEW keep \in Ids, NEW n \in Nat,
         NEW more \in Int, NEW b, b = SizeOf(S) + more,
         NEW room, room = MakeRoom(S, b, keep, n)
  PROVE  /\ room.kept \subseteq S
         /\ keep \in S => keep \in room.kept
         /\ room.bytes = SizeOf(room.kept) + more
         /\ MaxBytes = 0 => room.kept = S
         /\ MaxBytes > 0 /\ room.bytes + n > MaxBytes => room.kept \subseteq {keep}
<1> DEFINE after(t) == b - SizeOf(Freed(S, keep, t))
           enough == {t \in 0..LastID : after(t) + n <= MaxBytes}
           t == IF MaxBytes = 0 THEN 0
                ELSE IF enough = {} THEN LastID + 1 ELSE Min(enough)
<1>1. room.kept = S \ Freed(S, keep, t) /\ room.bytes = after(t)
  BY DEF MakeRoom
<1>2. \A u : Freed(S, keep, u) \in SUBSET S
  BY DEF Freed
<1>3. SizeOf(S) \in Nat /\ SizeOf(room.kept) \in Nat /\ SizeOf(Freed(S, keep, t)) \in Nat
  BY <1>1, <1>2, SizeOfPart
<1> DEFINE F == Freed(S, keep, t)
<1>4. SizeOf(S) = SizeOf(F) + SizeOf(room.kept)
  <2>1. room.kept = S \ F /\ F \in SUBSET S
    BY <1>1, <1>2
  <2> HIDE DEF F
  <2>2. SizeOf(S) = SizeOf(F) + SizeOf(S \ F)
    BY <2>1, SizeOfPart
  <2> QED
    BY <2>1, <2>2
<1>5. room.bytes = SizeOf(room.kept) + more
  <2>1. room.bytes = b - SizeOf(F)
    BY <1>1
  <2>2. SizeOf(F) \in Nat /\ SizeOf(room.kept) \in Nat
    BY <1>3
  <2> HIDE DEF F
  <2> QED
    BY <1>4, <2>1, <2>2
<1>6. room.kept \subseteq S /\ (keep \in S => keep \in room.kept)
  BY <1>1 DEF Freed
<1>7. MaxBytes = 0 => room.kept = S
  <2>1. MaxBytes = 0 => t = 0
    OBVIOUS
  <2>2. \A i \in S : ~ (i < 0)
    BY LogAssumption DEF Logged, Ids
  <2> HIDE DEF t
  <2> QED
    BY <1>1, <2>1, <2>2 DEF Freed
<1>8. ASSUME MaxBytes > 0, room.bytes + n > MaxBytes
      PROVE  room.kept \subseteq {keep}
  <2>1. MaxBytes # 0
    BY <1>8, LogAssumption
  <2>2. enough = {}
    <3>1. SUFFICES ASSUME enough # {} PROVE FALSE
      OBVIOUS
    <3>2. enough \subseteq Nat
      BY LogAssumption
    <3>3. Min(enough) \in enough
      BY <3>1, <3>2, Least
    <3>4. after(Min(enough)) + n <= MaxBytes
      BY <3>3
    <3>5. t = Min(enough)
      BY <2>1, <3>1
    <3>6. room.bytes + n <= MaxBytes
      BY <1>1, <3>4, <3>5
    <3>7. room.bytes \in Int
      BY <1>3, <1>5
    <3> QED
      BY <1>8, <3>6, <3>7, LogAssumption
  <2>3. t = LastID + 1
    BY <2>1, <2>2
  <2>4. \A i \in S : i < LastID + 1
    BY LogAssumption DEF Logged, Ids
  <2> HIDE DEF t
  <2> QED
    BY <1>1, <2>3, <2>4 DEF Freed
<1> QED
  BY <1>5, <1>6, <1>7, <1>8
-----------------------------------------------------------------------------
(* What a change of the log leaves: the entry i as it is now, and of the   *)
(* others those in S.                                                      *)
Left(i, new, S) ==
  entry' = [x \in Ids |-> IF x = i THEN new
                          ELSE IF x \in S THEN entry[x] ELSE None]

LEMMA LeftOver ==
  ASSUME LogInv, NEW i \in Ids, NEW new \in Entries, NEW S \in SUBSET Logged,
         Left(i, new, S)
  PROVE  /\ entry' \in [Ids -> Entries \cup {None}]
         /\ Logged' = S \cup {i}
         /\ SizeOf(Logged)' = new.size + SizeOf(S \ {i})
         /\ \A x \in S \ {i} : entry'[x] = entry[x]
<1>1. \A x \in S : x \in Ids /\ entry[x] # None /\ entry[x] \in Entries
  BY DEF LogInv, Logged
<1>2. entry' \in [Ids -> Entries \cup {None}]
  BY <1>1 DEF Left
<1>3. Logged' = S \cup {i}
  BY <1>1, LogAssumption DEF Left, Logged
<1>4. \A x \in S \ {i} : entry'[x] = entry[x]
  BY <1>1 DEF Left
<1>5. entry'[i] = new
  BY DEF Left
<1> DEFINE v == [x \in S \cup {i} |-> entry'[x].size]
           w == [x \in S \ {i} |-> entry[x].size]
<1>6. SizeOf(Logged)' = SumFunctionOnSet(v, S \cup {i})
  BY <1>3, Zenon DEF SizeOf, SumFunction
<1>7. SizeOf(S \ {i}) = SumFunctionOnSet(w, S \ {i})
  BY Zenon DEF SizeOf, SumFunction
<1>8. /\ \A x \in S \cup {i} : v[x] \in Int
      /\ \A x \in S \ {i} : v[x] = w[x] /\ w[x] \in Int
      /\ v[i] = new.size
  BY <1>1, <1>4, <1>5 DEF Entries
<1>9. IsFiniteSet(S \cup {i}) /\ IsFiniteSet(S \ {i})
  <2>1. S \cup {i} \in SUBSET Ids /\ S \ {i} \in SUBSET Ids
    BY <1>1
  <2> QED
    BY <2>1, IdsFinite
<1>10. (S \cup {i}) \ {i} = S \ {i}
  OBVIOUS
<1> HIDE DEF v, w
<1>11. SumFunctionOnSet(v, S \cup {i}) = v[i] + SumFunctionOnSet(v, (S \cup {i}) \ {i})
  BY <1>8, <1>9, SumRemove
<1>12. SumFunctionOnSet(v, S \ {i}) = SumFunctionOnSet(w, S \ {i})
  BY <1>8, <1>9, SumSame
<1>13. SizeOf(Logged)' = new.size + SizeOf(S \ {i})
  BY <1>6, <1>7, <1>8, <1>10, <1>11, <1>12
<1> QED
  BY <1>2, <1>3, <1>4, <1>13

(* The accounts after a change, when the entry's bytes and those of what   *)
(* is left are counted.                                                    *)
LEMMA LeftSound ==
  ASSUME LogInv, NEW i \in Ids, NEW new \in Entries, NEW S \in SUBSET Logged,
         Left(i, new, S), nextID' \in 0..LastID, nextID <= nextID', i <= nextID',
         new.size = EntrySize(new),
         bytes' = new.size + SizeOf(S \ {i}),
         Cardinality(S \cup {i}) <= Capacity,
         MaxBytes > 0 /\ bytes' > MaxBytes => S \subseteq {i}
  PROVE  LogInv'
<1>1. /\ entry' \in [Ids -> Entries \cup {None}]
      /\ Logged' = S \cup {i}
      /\ SizeOf(Logged)' = new.size + SizeOf(S \ {i})
      /\ \A x \in S \ {i} : entry'[x] = entry[x]
  BY LeftOver
<1>2. SizeOf(S \ {i}) \in Nat /\ new.size \in Nat
  BY SizeOfPart DEF Entries
<1>3. bytes' \in Nat
  BY <1>2
<1>4. \A x \in Ids : x > nextID' => entry'[x] = None
  BY DEF LogInv, Left, Logged, Ids
<1>5. BytesAccounted'
  <2>1. \A x \in Logged' : entry'[x].size = EntrySize(entry'[x])
    <3>1. entry'[i] = new
      BY DEF Left
    <3>2. \A x \in Logged : entry[x].size = EntrySize(entry[x])
      BY DEF LogInv, BytesAccounted
    <3> QED
      BY <1>1, <3>1, <3>2
  <2> QED
    BY <1>1, <2>1 DEF BytesAccounted
<1>6. WithinBudget'
  <2>1. Cardinality({i}) = 1
    BY FS_Singleton
  <2>2. S \subseteq {i} => S \cup {i} = {i}
    OBVIOUS
  <2> QED
    BY <1>1, <2>1, <2>2 DEF WithinBudget
<1> QED
  BY <1>1, <1>3, <1>4, <1>5, <1>6 DEF LogInv

(* resize of an entry that is in the log, or that just came into it.       *)
LEMMA ResizeSound ==
  ASSUME LogInv, NEW i \in Ids, NEW e \in Entries, NEW S \in SUBSET Logged,
         NEW b, b = SizeOf(S), Resize(i, e, S, b),
         nextID' \in 0..LastID, nextID <= nextID', i <= nextID',
         Cardinality(S \cup {i}) <= Capacity,
         IF i \in S THEN e.size = entry[i].size ELSE e.size = 0
  PROVE  /\ LogInv'
         /\ \E T \in SUBSET S :
              Left(i, [e EXCEPT !.size = EntrySize(e)], T) /\ (MaxBytes = 0 => T = S)
<1> DEFINE sized == [e EXCEPT !.size = EntrySize(e)]
           more == sized.size - e.size
           room == MakeRoom(S, b + sized.size - e.size, i, 0)
           T == room.kept
<1>1. sized \in Entries /\ sized.size = EntrySize(e) /\ EntrySize(e) = EntrySize(sized)
  BY DEF Entries, EntrySize
<1>2. /\ bytes' = room.bytes /\ Left(i, sized, T)
  BY Zenon DEF Resize, Left
<1>3. e.size \in Nat /\ sized.size \in Nat /\ SizeOf(S) \in Nat
  BY <1>1, SizeOfPart DEF Entries
<1> HIDE DEF sized
<1>4. more \in Int /\ b + sized.size - e.size = SizeOf(S) + more
  BY <1>3
<1> HIDE DEF more
<1>5. /\ T \subseteq S
      /\ i \in S => i \in T
      /\ room.bytes = SizeOf(T) + more
      /\ MaxBytes = 0 => T = S
      /\ MaxBytes > 0 /\ room.bytes + 0 > MaxBytes => T \subseteq {i}
  BY <1>4, Room
<1>6. T \in SUBSET Logged
  BY <1>5
<1> HIDE DEF room
<1>7. SizeOf(T) \in Nat /\ SizeOf(T \ {i}) \in Nat
  BY <1>6, SizeOfPart
<1>8. bytes' = sized.size + SizeOf(T \ {i})
  <2>1. CASE i \in S
    <3>1. SizeOf(T) = entry[i].size + SizeOf(T \ {i})
      BY <1>5, <1>6, <2>1, SizeOfPart
    <3> QED
      BY <1>2, <1>3, <1>5, <1>7, <2>1, <3>1 DEF more
  <2>2. CASE i \notin S
    <3>1. SizeOf(T \ {i}) = SizeOf(T)
      <4>1. T \ {i} = T
        BY <1>5, <2>2
      <4> QED
        BY <4>1
    <3> QED
      BY <1>2, <1>3, <1>5, <1>7, <2>2, <3>1 DEF more
  <2> QED
    BY <2>1, <2>2
<1>9. Cardinality(T \cup {i}) <= Capacity
  <2>1. T \cup {i} \in SUBSET (S \cup {i}) /\ S \cup {i} \in SUBSET Ids
    BY <1>5 DEF Logged
  <2>2. Cardinality(T \cup {i}) <= Cardinality(S \cup {i})
    BY <2>1, IdsFinite, FS_Subset
  <2>3. T \cup {i} \in SUBSET Ids
    BY <2>1
  <2>4. Cardinality(T \cup {i}) \in Nat /\ Cardinality(S \cup {i}) \in Nat
    BY <2>1, <2>3, IdsFinite
  <2> QED
    BY <2>2, <2>4, LogAssumption
<1>10. MaxBytes > 0 /\ bytes' > MaxBytes => T \subseteq {i}
  BY <1>2, <1>5, <1>7, <1>3 DEF more
<1>11. LogInv'
  <2>1. sized.size = EntrySize(sized)
    BY <1>1
  <2> QED
    BY <1>1, <1>2, <1>6, <1>8, <1>9, <1>10, <2>1, LeftSound
<1> QED
  BY <1>2, <1>5, <1>11 DEF sized
-----------------------------------------------------------------------------
(* The entry i is now new, others may be gone, and subscribers are told.   *)
Changed(i, new) ==
  /\ entry[i] # None /\ new \in Entries /\ new.conn = entry[i].conn
  /\ \E T \in SUBSET Logged :
       i \in T /\ Left(i, new, T) /\ (MaxBytes = 0 => T = Logged)
  /\ UNCHANGED <<nextID, filter>>
  /\ \/ Publish(i, new.conn, View(new))
     \/ /\ new = [entry[i] EXCEPT !.items = @ + 1, !.size = @ + 1]
        /\ Publish(i, new.conn, None)
     \/ new = entry[i] /\ UNCHANGED <<subs, queue>>

LEMMA LoggedWithin ==
  ASSUME LogInv
  PROVE  Logged \in SUBSET Ids /\ Cardinality(Logged) \in Nat
         /\ Cardinality(Logged) <= Capacity
<1>1. Logged \in SUBSET Ids
  BY DEF Logged
<1> QED
  BY <1>1, IdsFinite DEF LogInv, WithinBudget

LEMMA UpdateChanges ==
  ASSUME LogInv, NEW i \in Ids, NEW e, LogUpdate(i, e),
         entry[i] # None => /\ e \in Entries /\ e.size = entry[i].size
                            /\ e.conn = entry[i].conn
  PROVE  /\ LogInv'
         /\ \/ UNCHANGED logVars
            \/ Changed(i, [e EXCEPT !.size = EntrySize(e)])
<1>1. CASE entry[i] = None
  <2>1. UNCHANGED logVars
    BY <1>1 DEF LogUpdate
  <2>2. LogInv'
    BY <2>1 DEF LogInv, logVars, BytesAccounted, WithinBudget, SizeOf, Logged
  <2> QED
    BY <2>1, <2>2
<1>2. CASE entry[i] # None
  <2> DEFINE new == [e EXCEPT !.size = EntrySize(e)]
  <2>1. Resize(i, e, Logged, bytes) /\ UNCHANGED <<nextID, filter>>
    BY <1>2 DEF LogUpdate
  <2>2. /\ e \in Entries /\ e.size = entry[i].size /\ e.conn = entry[i].conn
        /\ i \in Logged /\ bytes = SizeOf(Logged)
    BY <1>2 DEF Logged, LogInv, BytesAccounted
  <2>3. /\ new \in Entries /\ new.conn = entry[i].conn
    BY <2>2 DEF Entries, EntrySize
  <2>4. nextID' \in 0..LastID /\ nextID <= nextID' /\ i <= nextID'
    BY <1>2, <2>1, LogAssumption DEF LogInv, Ids
  <2>5. Logged \cup {i} = Logged
    BY <2>2
  <2>6. Cardinality(Logged \cup {i}) <= Capacity
    BY <2>5, LoggedWithin
  <2>7. PICK T \in SUBSET Logged : Left(i, new, T) /\ (MaxBytes = 0 => T = Logged)
    BY <2>1, <2>2, <2>4, <2>6, ResizeSound
  <2>8. LogInv'
    BY <2>1, <2>2, <2>4, <2>6, ResizeSound
  <2>9. Left(i, new, T \cup {i}) /\ T \cup {i} \in SUBSET Logged
    BY <2>2, <2>7 DEF Left
  <2>10. Publish(i, new.conn, View(new))
    BY <2>1, <2>2 DEF Resize, Entries
  <2> HIDE DEF new
  <2>11. Changed(i, new)
    <3>1. \E U \in SUBSET Logged :
              i \in U /\ Left(i, new, U) /\ (MaxBytes = 0 => U = Logged)
      <4>1. i \in T \cup {i} /\ (MaxBytes = 0 => T \cup {i} = Logged)
        BY <2>2, <2>7
      <4> QED
        BY <2>9, <4>1
    <3> QED
      BY <1>2, <2>1, <2>3, <2>10, <3>1 DEF Changed
  <2> QED
    BY <2>8, <2>11 DEF new
<1> QED
  BY <1>1, <1>2

(* finish                                                                  *)
LEMMA FinishChanges ==
  ASSUME LogInv, NEW i \in Ids, NEW e, LogFinish(i, e),
         entry[i] # None => /\ e \in Entries /\ e.size = entry[i].size
                            /\ e.conn = entry[i].conn
  PROVE  /\ LogInv'
         /\ \/ UNCHANGED logVars
            \/ entry[i].done /\ Changed(i, entry[i])
            \/ /\ ~ entry[i].done
               /\ \E s \in Nat : Changed(i, [e EXCEPT !.done = TRUE, !.size = s])
<1>1. CASE entry[i] # None /\ entry[i].done
  <2>1. LogUpdate(i, entry[i])
    BY <1>1 DEF LogFinish
  <2>2. entry[i] \in Entries /\ entry[i].size = EntrySize(entry[i])
    BY <1>1 DEF LogInv, BytesAccounted, Logged
  <2>3. [entry[i] EXCEPT !.size = EntrySize(entry[i])] = entry[i]
    BY <2>2 DEF Entries
  <2>4. LogInv' /\ (UNCHANGED logVars
                    \/ Changed(i, [entry[i] EXCEPT !.size = EntrySize(entry[i])]))
    BY <2>1, <2>2, UpdateChanges
  <2> QED
    BY <1>1, <2>3, <2>4
<1>2. CASE ~ (entry[i] # None /\ entry[i].done)
  <2> DEFINE d == [e EXCEPT !.done = TRUE]
  <2>1. LogUpdate(i, d)
    BY <1>2 DEF LogFinish
  <2>2. entry[i] # None => /\ d \in Entries /\ d.size = entry[i].size
                           /\ d.conn = entry[i].conn
    BY DEF Entries
  <2>3. LogInv' /\ (UNCHANGED logVars \/ Changed(i, [d EXCEPT !.size = EntrySize(d)]))
    BY <2>1, <2>2, UpdateChanges
  <2>4. ASSUME Changed(i, [d EXCEPT !.size = EntrySize(d)])
        PROVE  /\ ~ entry[i].done
               /\ \E s \in Nat : Changed(i, [e EXCEPT !.done = TRUE, !.size = s])
    <3>1. entry[i] # None
      BY <2>4 DEF Changed
    <3>2. d \in Entries /\ e \in Entries
      BY <2>2, <3>1
    <3>3. EntrySize(d) \in Nat
      BY <3>2 DEF EntrySize, Entries
    <3>4. [d EXCEPT !.size = EntrySize(d)]
            = [e EXCEPT !.done = TRUE, !.size = EntrySize(d)]
      BY <3>2 DEF Entries
    <3> QED
      BY <1>2, <2>4, <3>1, <3>3, <3>4
  <2> QED
    BY <2>3, <2>4
<1> QED
  BY <1>1, <1>2

(* addFrame and addMessage                                                 *)
LEMMA AppendChanges ==
  ASSUME LogInv, NEW i \in Ids, LogAppend(i)
  PROVE  /\ LogInv'
         /\ \/ UNCHANGED logVars
            \/ Changed(i, [entry[i] EXCEPT !.items = @ + 1, !.size = @ + 1])
            \/ Changed(i, [entry[i] EXCEPT !.truncated = TRUE])
<1>1. CASE entry[i] = None
  <2>1. UNCHANGED logVars
    BY <1>1 DEF LogAppend
  <2>2. LogInv'
    BY <2>1 DEF LogInv, logVars, BytesAccounted, WithinBudget, SizeOf, Logged
  <2> QED
    BY <2>1, <2>2
<1>2. CASE entry[i] # None
  <2> DEFINE room == MakeRoom(Logged, bytes, i, 1)
             e == entry[i]
             fits == e.items < MaxFrames /\ Fits(room, 1)
             new == IF fits THEN [e EXCEPT !.items = @ + 1, !.size = @ + 1]
                            ELSE [e EXCEPT !.truncated = TRUE]
             kept == IF e.items < MaxFrames THEN room.kept ELSE Logged
  <2>1. /\ entry' = [x \in Ids |-> IF x = i THEN new
                                  ELSE IF x \in kept THEN entry[x] ELSE None]
        /\ bytes' = IF e.items < MaxFrames
                    THEN room.bytes + (new.size - e.size) ELSE bytes
        /\ IF fits THEN Publish(i, e.conn, None)
           ELSE IF ~e.truncated THEN Publish(i, e.conn, View(new))
           ELSE UNCHANGED <<subs, queue>>
        /\ UNCHANGED <<nextID, filter>>
    BY <1>2, Zenon DEF LogAppend
  <2>2. e \in Entries /\ i \in Logged /\ bytes = SizeOf(Logged)
        /\ e.size = EntrySize(e)
    BY <1>2 DEF LogInv, BytesAccounted, Logged
  <2>3. bytes = SizeOf(Logged) + 0 /\ 0 \in Int /\ 1 \in Nat
    BY <2>2 DEF LogInv
  <2>4. /\ room.kept \subseteq Logged /\ i \in room.kept
        /\ room.bytes = SizeOf(room.kept) + 0
        /\ MaxBytes = 0 => room.kept = Logged
        /\ MaxBytes > 0 /\ room.bytes + 1 > MaxBytes => room.kept \subseteq {i}
    BY <2>2, <2>3, Room
  <2> HIDE DEF room
  <2>5. kept \subseteq Logged /\ i \in kept /\ (MaxBytes = 0 => kept = Logged)
    BY <2>2, <2>4
  <2>6. kept \cup {i} = kept /\ kept \in SUBSET Logged
    BY <2>5
  <2>7. SizeOf(kept) = e.size + SizeOf(kept \ {i}) /\ SizeOf(kept \ {i}) \in Nat
        /\ SizeOf(room.kept) \in Nat
    <3>1. kept \ {i} \in SUBSET Logged /\ room.kept \in SUBSET Logged
      BY <2>4, <2>6
    <3> HIDE DEF kept
    <3> QED
      BY <2>5, <2>6, <3>1, SizeOfPart
  <2>8. new \in Entries /\ new.conn = e.conn /\ new.size = EntrySize(new)
        /\ (fits => new.size = e.size + 1) /\ (~ fits => new.size = e.size)
    <3>1. CASE fits
      <4>1. new = [e EXCEPT !.items = @ + 1, !.size = @ + 1] /\ e.items < MaxFrames
        BY <3>1
      <4>2. e.items + 1 \in 0..MaxFrames /\ e.size + 1 \in Nat
            /\ e.items \in Nat /\ e.body \in Nat
        BY <2>2, <4>1, LogAssumption DEF Entries
      <4> HIDE DEF new, e
      <4>3. new \in Entries /\ new.conn = e.conn /\ new.items = e.items + 1
            /\ new.size = e.size + 1 /\ new.body = e.body
        BY <2>2, <4>1, <4>2 DEF Entries
      <4> QED
        BY <2>2, <3>1, <4>2, <4>3 DEF EntrySize
    <3>2. CASE ~ fits
      BY <2>2, <3>2 DEF Entries, EntrySize
    <3> QED
      BY <3>1, <3>2
  <2>9. bytes' = new.size + SizeOf(kept \ {i})
    <3>1. CASE e.items < MaxFrames
      <4>1. kept = room.kept
        BY <3>1
      <4>2. SizeOf(room.kept) = e.size + SizeOf(kept \ {i})
        BY <2>7, <4>1
      <4>3. bytes' = SizeOf(room.kept) + 0 + (new.size - e.size)
        BY <2>1, <2>4, <3>1
      <4>4. new.size \in Nat /\ e.size \in Nat
        BY <2>2, <2>8 DEF Entries
      <4> HIDE DEF new, kept, e
      <4> QED
        BY <2>7, <4>2, <4>3, <4>4
    <3>2. CASE ~ (e.items < MaxFrames)
      <4>1. kept = Logged
        BY <3>2
      <4>2. SizeOf(Logged) = e.size + SizeOf(kept \ {i})
        BY <2>7, <4>1
      <4>3. bytes' = SizeOf(Logged) /\ new.size = e.size
        BY <2>1, <2>2, <2>8, <3>2
      <4> HIDE DEF new, kept, e
      <4> QED
        BY <4>2, <4>3
    <3> QED
      BY <3>1, <3>2
  <2>10. Left(i, new, kept)
    BY <2>1, Zenon DEF Left
  <2>11. nextID' \in 0..LastID /\ nextID <= nextID' /\ i <= nextID'
    BY <1>2, <2>1, LogAssumption DEF LogInv, Ids
  <2>12. Cardinality(kept \cup {i}) <= Capacity
    <3>1. kept \in SUBSET Ids
      BY <2>5 DEF Logged
    <3>2. Cardinality(kept) \in Nat /\ IsFiniteSet(Logged)
      BY <3>1, IdsFinite, LoggedWithin
    <3> HIDE DEF kept
    <3>3. Cardinality(kept \cup {i}) = Cardinality(kept)
      BY <2>6
    <3>4. Cardinality(kept) <= Cardinality(Logged)
      BY <2>6, <3>2, FS_Subset
    <3> QED
      BY <3>2, <3>3, <3>4, LoggedWithin, LogAssumption
  <2>13. MaxBytes > 0 /\ bytes' > MaxBytes => kept \subseteq {i}
    <3>1. SUFFICES ASSUME MaxBytes > 0, bytes' > MaxBytes PROVE kept \subseteq {i}
      OBVIOUS
    <3>2. CASE e.items < MaxFrames
      <4>1. bytes' = room.bytes + (new.size - e.size) /\ room.bytes \in Nat
        BY <2>1, <2>4, <2>7, <3>2
      <4>2. e.size \in Nat /\ (new.size = e.size \/ new.size = e.size + 1)
        BY <2>2, <2>8 DEF Entries
      <4> HIDE DEF new, e
      <4>3. bytes' <= room.bytes + 1 /\ bytes' \in Int
        BY <4>1, <4>2
      <4>4. MaxBytes \in Nat
        BY LogAssumption
      <4>5. room.bytes + 1 > MaxBytes
        BY <3>1, <4>1, <4>3, <4>4
      <4> USE DEF e
      <4> QED
        BY <2>4, <3>1, <3>2, <4>5
    <3>3. CASE ~ (e.items < MaxFrames)
      <4>1. bytes > MaxBytes /\ kept = Logged
        BY <2>1, <3>1, <3>3
      <4>2. Cardinality(Logged) = 1
        BY <3>1, <4>1 DEF LogInv, WithinBudget
      <4>3. IsFiniteSet(Logged)
        BY LoggedWithin, IdsFinite
      <4>4. \E x : Logged = {x}
        BY <4>2, <4>3, FS_Singleton
      <4> HIDE DEF kept
      <4> QED
        BY <2>2, <4>1, <4>4
    <3> QED
      BY <3>2, <3>3
  <2>14. LogInv'
    BY <2>6, <2>8, <2>9, <2>10, <2>11, <2>12, <2>13, LeftSound
  <2>15. Changed(i, new)
    <3>1. \/ Publish(i, new.conn, View(new))
          \/ /\ new = [entry[i] EXCEPT !.items = @ + 1, !.size = @ + 1]
             /\ Publish(i, new.conn, None)
          \/ new = entry[i] /\ UNCHANGED <<subs, queue>>
      <4>1. CASE fits
        BY <2>1, <2>8, <4>1
      <4>2. CASE ~ fits /\ ~ e.truncated
        BY <2>1, <2>8, <4>2
      <4>3. CASE ~ fits /\ e.truncated
        <5>1. new = entry[i]
          BY <2>2, <4>3 DEF Entries
        <5> QED
          BY <2>1, <4>3, <5>1
      <4> QED
        BY <4>1, <4>2, <4>3
    <3>2. \E T \in SUBSET Logged :
              i \in T /\ Left(i, new, T) /\ (MaxBytes = 0 => T = Logged)
      BY <2>5, <2>6, <2>10
    <3> HIDE DEF new
    <3> QED
      BY <1>2, <2>1, <2>8, <3>1, <3>2 DEF Changed
  <2> QED
    BY <2>14, <2>15
<1> QED
  BY <1>1, <1>2
-----------------------------------------------------------------------------
(* A new entry came in, and the oldest went if there were too many.        *)
Added(new) ==
  /\ nextID + 1 \in Ids /\ entry[nextID + 1] = None /\ nextID' = nextID + 1
  /\ new \in Entries
  /\ \E T \in SUBSET Logged :
       /\ Left(nextID + 1, new, T)
       /\ MaxBytes = 0 => T = IF Cardinality(Logged) = Capacity
                              THEN Logged \ {Min(Logged)} ELSE Logged
  /\ UNCHANGED filter
  /\ Publish(nextID + 1, new.conn, View(new))

(* add                                                                     *)
LEMMA AddChanges ==
  ASSUME LogInv, NEW e \in Entries, e.size = 0, LogAdd(e)
  PROVE  LogInv' /\ \E s \in Nat : Added([e EXCEPT !.size = s])
<1> DEFINE i == nextID + 1
           over == IF Cardinality(Logged) = Capacity THEN {Min(Logged)} ELSE {}
           S == Logged \ over
           new == [e EXCEPT !.size = EntrySize(e)]
<1>1. /\ i \in Ids /\ nextID' = i /\ UNCHANGED filter
      /\ Resize(i, [e EXCEPT !.size = 0], S, bytes - SizeOf(over))
  BY DEF LogAdd
<1>2. [e EXCEPT !.size = 0] = e
  BY DEF Entries
<1>3. /\ Logged \subseteq Nat /\ i \notin Logged /\ entry[i] = None
      /\ nextID \in Nat /\ i \in 0..LastID
  BY <1>1, LogAssumption DEF Logged, Ids, LogInv
<1>4. Cardinality(Logged) = Capacity => Min(Logged) \in Logged
  <2>1. ASSUME Cardinality(Logged) = Capacity PROVE Logged # {}
    BY <2>1, FS_EmptySet, LogAssumption
  <2> QED
    BY <1>3, <2>1, Least
<1>5. over \in SUBSET Logged /\ S \in SUBSET Logged
  BY <1>4
<1>6. bytes - SizeOf(over) = SizeOf(S)
  <2> HIDE DEF over
  <2>1. Logged \in SUBSET Logged
    OBVIOUS
  <2>2. SizeOf(Logged) = SizeOf(over) + SizeOf(S)
    BY <1>5, <2>1, SizeOfPart
  <2>3. bytes = SizeOf(Logged) /\ SizeOf(over) \in Nat /\ SizeOf(S) \in Nat
    BY <1>5, SizeOfPart DEF LogInv, BytesAccounted
  <2> HIDE DEF S
  <2> QED
    BY <2>2, <2>3
<1>7. Cardinality(S \cup {i}) <= Capacity
  <2>1. IsFiniteSet(Logged) /\ Cardinality(Logged) \in Nat
        /\ Cardinality(Logged) <= Capacity
    BY LoggedWithin, IdsFinite
  <2>2. IsFiniteSet(S) /\ i \notin S
    BY <1>3, <1>5, <2>1, FS_Subset
  <2>3. Cardinality(S \cup {i}) = Cardinality(S) + 1
    BY <2>2, FS_AddElement
  <2>4. CASE Cardinality(Logged) = Capacity
    <3>1. S = Logged \ {Min(Logged)}
      BY <2>4
    <3>2. Cardinality(S) = Cardinality(Logged) - 1
      BY <1>4, <2>1, <2>4, <3>1, FS_RemoveElement
    <3> HIDE DEF S
    <3> QED
      BY <2>1, <2>3, <2>4, <3>2
  <2>5. CASE Cardinality(Logged) # Capacity
    <3>1. S = Logged
      BY <2>5
    <3> HIDE DEF S
    <3> QED
      BY <2>1, <2>3, <2>5, <3>1, LogAssumption
  <2> QED
    BY <2>4, <2>5
<1>8. IF i \in S THEN e.size = entry[i].size ELSE e.size = 0
  BY <1>3, <1>5
<1>9. nextID' \in 0..LastID /\ nextID <= nextID' /\ i <= nextID'
  BY <1>1, <1>3
<1>10. Resize(i, e, S, SizeOf(S))
  BY <1>1, <1>2, <1>6
<1> HIDE DEF S
<1>11. LogInv' /\ \E T \in SUBSET S : Left(i, new, T) /\ (MaxBytes = 0 => T = S)
  BY <1>1, <1>5, <1>7, <1>8, <1>9, <1>10, ResizeSound
<1>12. new \in Entries /\ new.conn = e.conn /\ EntrySize(e) \in Nat
  BY DEF Entries, EntrySize
<1>13. Publish(i, new.conn, View(new))
  BY <1>10, <1>12 DEF Resize
<1>14. Added(new)
  <2>1. MaxBytes = 0 /\ Cardinality(Logged) = Capacity => S = Logged \ {Min(Logged)}
    BY DEF S
  <2>2. Cardinality(Logged) # Capacity => S = Logged
    BY DEF S
  <2>3. PICK T \in SUBSET S : Left(i, new, T) /\ (MaxBytes = 0 => T = S)
    BY <1>11
  <2> HIDE DEF new
  <2>4. \E U \in SUBSET Logged :
          /\ Left(i, new, U)
          /\ MaxBytes = 0 => U = IF Cardinality(Logged) = Capacity
                                 THEN Logged \ {Min(Logged)} ELSE Logged
    BY <1>5, <2>1, <2>2, <2>3
  <2> QED
    BY <1>1, <1>3, <1>12, <1>13, <2>4 DEF Added
<1> QED
  BY <1>11, <1>12, <1>14
-----------------------------------------------------------------------------
(* The exchanges: an entry that is over was left by its exchange.          *)
ExchangeInv ==
  /\ kind \in [Ids -> Kinds \cup {None}]
  /\ phase \in [Ids -> {"new", "sent", "called", "stream", "ending", "body",
                        "over"}]
  /\ chunk \in [Ids -> Chunks]
  /\ \A i \in Logged : entry[i].done => phase[i] = "over"

(* What a step may do to the log: nothing, add an entry, or change one.    *)
(* One that is over changes only if its exchange is a gRPC stream.         *)
ChangedOrNot(i) ==
  \/ UNCHANGED logVars
  \/ \E new :
       /\ Changed(i, new)
       /\ entry[i].done => \/ new = entry[i]
                           \/ /\ kind[i] = "stream"
                              /\ new.done /\ new.body = entry[i].body
       /\ new.done => phase'[i] = "over"

LEMMA WithTyped ==
  ASSUME LogInv, NEW i \in Ids, entry[i] # None, NEW b \in Nat
  PROVE  /\ With(i, b) \in Entries /\ With(i, b).size = entry[i].size
         /\ With(i, b).conn = entry[i].conn /\ With(i, b).done = entry[i].done
         /\ With(i, b) # None
BY LogAssumption DEF LogInv, With, Entries

LEMMA Finishing ==
  ASSUME LogInv, ExchangeInv, NEW i \in Ids, NEW b \in Nat, Finishes(i, b)
  PROVE  LogInv' /\ ChangedOrNot(i) /\ phase' = [phase EXCEPT ![i] = "over"]
<1>1. LogFinish(i, With(i, b)) /\ phase' = [phase EXCEPT ![i] = "over"]
  BY DEF Finishes, Goto
<1>2. phase'[i] = "over"
  BY <1>1 DEF ExchangeInv
<1>3. /\ LogInv'
      /\ \/ UNCHANGED logVars
         \/ entry[i].done /\ Changed(i, entry[i])
         \/ /\ ~ entry[i].done
            /\ \E s \in Nat : Changed(i, [With(i, b) EXCEPT !.done = TRUE, !.size = s])
  BY <1>1, WithTyped, FinishChanges
<1>4. ChangedOrNot(i)
  BY <1>2, <1>3 DEF ChangedOrNot
<1> QED
  BY <1>1, <1>3, <1>4

LEMMA Updating ==
  ASSUME LogInv, ExchangeInv, NEW i \in Ids, NEW e, LogUpdate(i, e),
         phase[i] # "over",
         entry[i] # None => /\ e \in Entries /\ e.size = entry[i].size
                            /\ e.conn = entry[i].conn /\ ~ e.done
  PROVE  LogInv' /\ ChangedOrNot(i)
<1>1. /\ LogInv'
      /\ \/ UNCHANGED logVars
         \/ Changed(i, [e EXCEPT !.size = EntrySize(e)])
  BY UpdateChanges
<1>2. ASSUME Changed(i, [e EXCEPT !.size = EntrySize(e)]) PROVE ChangedOrNot(i)
  <2>1. entry[i] # None /\ ~ entry[i].done
    BY <1>2 DEF Changed, ExchangeInv, Logged
  <2>2. ~ [e EXCEPT !.size = EntrySize(e)].done
    BY <2>1 DEF Entries
  <2> QED
    BY <1>2, <2>1, <2>2 DEF ChangedOrNot
<1>3. UNCHANGED logVars => ChangedOrNot(i)
  BY DEF ChangedOrNot
<1> QED
  BY <1>1, <1>2, <1>3

LEMMA Appending ==
  ASSUME LogInv, ExchangeInv, NEW i \in Ids, LogAppend(i),
         phase[i] # "over" \/ (kind[i] = "stream" /\ phase'[i] = phase[i])
  PROVE  LogInv' /\ ChangedOrNot(i)
<1>1. /\ LogInv'
      /\ \/ UNCHANGED logVars
         \/ Changed(i, [entry[i] EXCEPT !.items = @ + 1, !.size = @ + 1])
         \/ Changed(i, [entry[i] EXCEPT !.truncated = TRUE])
  BY AppendChanges
<1>2. ASSUME NEW new, Changed(i, new),
             \/ new = [entry[i] EXCEPT !.items = @ + 1, !.size = @ + 1]
             \/ new = [entry[i] EXCEPT !.truncated = TRUE]
      PROVE  ChangedOrNot(i)
  <2>1. entry[i] \in Entries /\ (entry[i].done => phase[i] = "over")
    BY <1>2 DEF Changed, ExchangeInv, Logged, LogInv
  <2>2. new.done = entry[i].done /\ new.body = entry[i].body
    BY <1>2, <2>1 DEF Entries
  <2> QED
    BY <1>2, <2>1, <2>2 DEF ChangedOrNot
<1>3. UNCHANGED logVars => ChangedOrNot(i)
  BY DEF ChangedOrNot
<1> QED
  BY <1>1, <1>2, <1>3
Phases == {"new", "sent", "called", "stream", "ending", "body", "over"}

LEMMA ExchangeKept ==
  ASSUME LogInv, ExchangeInv, NEW i \in Ids, ChangedOrNot(i), kind' = kind,
         NEW p \in Phases, phase' = [phase EXCEPT ![i] = p],
         phase[i] = "over" => p = "over", chunk' \in [Ids -> Chunks]
  PROVE  ExchangeInv'
<1>1. phase' \in [Ids -> Phases]
  BY DEF ExchangeInv, Phases
<1>2. ASSUME NEW x \in Logged', entry'[x].done PROVE phase'[x] = "over"
  <2>1. CASE UNCHANGED logVars
    BY <1>2, <2>1 DEF logVars, Logged, ExchangeInv
  <2>2. CASE ~ UNCHANGED logVars
    <3>1. PICK new : Changed(i, new) /\ (new.done => phase'[i] = "over")
      BY <2>2, Zenon DEF ChangedOrNot
    <3>2. PICK T \in SUBSET Logged : Left(i, new, T)
      BY <3>1, Zenon DEF Changed
    <3>3. x \in Ids /\ entry'[x] # None
      BY <1>2 DEF Logged
    <3>4. CASE x = i
      BY <1>2, <3>1, <3>2, <3>3, <3>4 DEF Left
    <3>5. CASE x # i
      <4>1. x \in Logged /\ entry'[x] = entry[x]
        BY <3>2, <3>3, <3>5 DEF Left
      <4> QED
        BY <1>2, <3>5, <4>1 DEF ExchangeInv
    <3> QED
      BY <3>4, <3>5
  <2> QED
    BY <2>1, <2>2
<1> QED
  BY <1>1, <1>2 DEF ExchangeInv, Phases

(* Every step of an exchange keeps the log's accounts.                     *)
LEMMA ExchangeSound ==
  ASSUME LogInv, ExchangeInv, NEW i \in Ids, Exchange(i)
  PROVE  LogInv' /\ ExchangeInv' /\ ChangedOrNot(i) /\ UNCHANGED feedVars
<1>i. /\ phase \in [Ids -> Phases] /\ phase[i] \in Phases
      /\ chunk \in [Ids -> Chunks] /\ kind[i] \in Kinds \cup {None}
      /\ 0 \in Nat /\ 1 \in Nat /\ Weights \subseteq Nat
      /\ Nothing \in Chunks
  BY LogAssumption DEF ExchangeInv, Phases, Nothing, Chunks
<1>s. phase' = phase => phase' = [phase EXCEPT ![i] = phase[i]]
  BY <1>i
<1>u. UNCHANGED logVars => LogInv' /\ ChangedOrNot(i)
  BY DEF LogInv, logVars, BytesAccounted, WithinBudget, SizeOf, Logged, ChangedOrNot
<1>f. ASSUME NEW b \in Nat, Finishes(i, b), kind' = kind, chunk' \in [Ids -> Chunks]
      PROVE  LogInv' /\ ExchangeInv' /\ ChangedOrNot(i)
  <2>1. LogInv' /\ ChangedOrNot(i) /\ phase' = [phase EXCEPT ![i] = "over"]
    BY <1>f, Finishing
  <2> QED
    BY <1>f, <2>1, ExchangeKept DEF Phases
<1>e. entry[i] # None => ~ entry[i].done \/ phase[i] = "over"
  BY DEF ExchangeInv, Logged
<1>1. CASE RespondTruncated(i)
  <2> DEFINE e == With(i, 1)
             t == IF e = None THEN None ELSE [e EXCEPT !.truncated = TRUE]
  <2>1. /\ LogUpdate(i, t) /\ phase' = [phase EXCEPT ![i] = "body"]
        /\ phase[i] = "sent" /\ kind' = kind /\ chunk' = chunk /\ UNCHANGED feedVars
    BY <1>1 DEF RespondTruncated, Goto
  <2>2. entry[i] # None => /\ t \in Entries /\ t.size = entry[i].size
                           /\ t.conn = entry[i].conn /\ ~ t.done
    <3>1. ASSUME entry[i] # None
          PROVE  /\ e \in Entries /\ e.size = entry[i].size /\ e.conn = entry[i].conn
                 /\ ~ e.done /\ e # None
      BY <1>i, <1>e, <2>1, <3>1, WithTyped
    <3> HIDE DEF e
    <3> QED
      BY <3>1 DEF Entries
  <2> HIDE DEF t
  <2>3. LogInv' /\ ChangedOrNot(i)
    BY <2>1, <2>2, Updating
  <2> QED
    BY <1>i, <2>1, <2>3, ExchangeKept DEF Phases
<1>2. CASE CloseBody(i)
  BY <1>2, <1>f, <1>i DEF CloseBody
<1>3. CASE Call(i)
  <2>1. /\ LogAppend(i) /\ phase' = [phase EXCEPT ![i] = "called"]
        /\ phase[i] = "sent" /\ kind' = kind /\ chunk' = chunk /\ UNCHANGED feedVars
    BY <1>3 DEF Call, Goto
  <2>2. phase[i] # "over"
    BY <2>1
  <2>3. LogInv' /\ ChangedOrNot(i)
    BY <2>1, <2>2, Appending
  <2> QED
    BY <1>i, <2>1, <2>3, ExchangeKept DEF Phases
<1>4. CASE Reply(i)
  <2>1. /\ LogAppend(i) /\ phase' = [phase EXCEPT ![i] = "ending"]
        /\ phase[i] = "called" /\ kind' = kind /\ chunk' = chunk /\ UNCHANGED feedVars
    BY <1>4 DEF Reply, Goto
  <2>2. phase[i] # "over"
    BY <2>1
  <2>3. LogInv' /\ ChangedOrNot(i)
    BY <2>1, <2>2, Appending
  <2> QED
    BY <1>i, <2>1, <2>3, ExchangeKept DEF Phases
<1>5. CASE StreamStarts(i)
  <2>1. /\ phase' = [phase EXCEPT ![i] = "stream"] /\ phase[i] = "sent"
        /\ kind' = kind /\ chunk' = chunk /\ UNCHANGED feedVars
        /\ LogUpdate(i, With(i, 1)) \/ UNCHANGED logVars
    BY <1>5 DEF StreamStarts, Goto
  <2>2. entry[i] # None => /\ With(i, 1) \in Entries /\ With(i, 1).size = entry[i].size
                           /\ With(i, 1).conn = entry[i].conn /\ ~ With(i, 1).done
    BY <1>i, <1>e, <2>1, WithTyped
  <2>3. LogInv' /\ ChangedOrNot(i)
    BY <1>u, <2>1, <2>2, Updating
  <2> QED
    BY <1>i, <2>1, <2>3, ExchangeKept DEF Phases
<1>6. CASE Record(i)
  <2> DEFINE p == IF phase[i] = "stream" /\ chunk[i].end THEN "ending" ELSE phase[i]
  <2>1. /\ phase' = [phase EXCEPT ![i] = p] /\ kind' = kind
        /\ chunk' \in [Ids -> Chunks] /\ UNCHANGED feedVars
        /\ (phase[i] # "over" /\ LogAppend(i)) \/ UNCHANGED logVars
    BY <1>6, <1>i DEF Record, Goto
  <2>2. p \in Phases /\ (phase[i] = "over" => p = "over")
    BY <1>i DEF Phases
  <2>3. LogInv' /\ ChangedOrNot(i)
    BY <1>u, <2>1, Appending
  <2> QED
    BY <2>1, <2>2, <2>3, ExchangeKept
<1>7. CASE RecordMessage(i)
  <2>1. kind' = kind /\ chunk' \in [Ids -> Chunks] /\ UNCHANGED feedVars
        /\ kind[i] = "stream"
    BY <1>7, <1>i DEF RecordMessage
  <2>2. CASE LogAppend(i) /\ phase' = phase
    <3>1. phase[i] # "over" \/ (kind[i] = "stream" /\ phase'[i] = phase[i])
      BY <2>1, <2>2
    <3>2. LogInv' /\ ChangedOrNot(i)
      BY <2>2, <3>1, Appending
    <3> QED
      BY <1>i, <1>s, <2>1, <2>2, <3>2, ExchangeKept
  <2>3. CASE Finishes(i, 0)
    BY <1>f, <1>i, <2>1, <2>3
  <2>4. CASE UNCHANGED <<logVars, phase>>
    BY <1>i, <1>s, <1>u, <2>1, <2>4, ExchangeKept
  <2> QED
    BY <1>7, <2>2, <2>3, <2>4 DEF RecordMessage
<1>8. CASE End(i)
  BY <1>8, <1>f, <1>i DEF End
<1>9. CASE CloseStream(i)
  BY <1>9, <1>f, <1>i DEF CloseStream
<1>10. ASSUME NEW c \in Chunks, Read(i, c)
       PROVE  LogInv' /\ ExchangeInv' /\ ChangedOrNot(i) /\ UNCHANGED feedVars
  BY <1>10, <1>i, <1>s, <1>u, ExchangeKept DEF Read
<1>11. ASSUME NEW b \in Weights, Respond(i, b)
       PROVE  LogInv' /\ ExchangeInv' /\ ChangedOrNot(i) /\ UNCHANGED feedVars
  BY <1>11, <1>f, <1>i DEF Respond
<1> QED
  BY <1>1, <1>2, <1>3, <1>4, <1>5, <1>6, <1>7, <1>8, <1>9, <1>10, <1>11 DEF Exchange

LEMMA SendSound ==
  ASSUME LogInv, ExchangeInv, NEW k \in Kinds, NEW conn \in Connections,
         NEW b \in Weights, Send(k, conn, b)
  PROVE  LogInv' /\ ExchangeInv' /\ UNCHANGED feedVars /\ \E new : Added(new)
<1> DEFINE e == [conn |-> conn, items |-> 0, body |-> b, truncated |-> FALSE,
                 done |-> FALSE, size |-> 0]
           i == nextID + 1
<1>1. e \in Entries /\ e.size = 0 /\ ~ e.done
  BY LogAssumption DEF Entries
<1>2. /\ LogAdd(e) /\ kind' = [kind EXCEPT ![i] = k]
      /\ phase' = [phase EXCEPT ![i] = "sent"] /\ UNCHANGED <<chunk, feedVars>>
  BY DEF Send, Goto
<1> HIDE DEF e
<1>3. PICK s \in Nat : Added([e EXCEPT !.size = s])
  BY <1>1, <1>2, AddChanges
<1>4. LogInv'
  BY <1>1, <1>2, AddChanges
<1> DEFINE new == [e EXCEPT !.size = s]
<1>5. i \in Ids
  BY <1>3 DEF Added
<1>6. PICK T \in SUBSET Logged : Left(i, new, T)
  BY <1>3 DEF Added
<1>7. ~ new.done
  BY <1>1 DEF Entries
<1> HIDE DEF new
<1>8. ASSUME NEW x \in Logged', entry'[x].done PROVE phase'[x] = "over"
  <2>1. x \in Ids /\ entry'[x] # None
    BY <1>8 DEF Logged
  <2>2. x # i
    BY <1>5, <1>6, <1>7, <1>8 DEF Left
  <2>3. x \in Logged /\ entry'[x] = entry[x]
    BY <1>6, <2>1, <2>2 DEF Left
  <2> QED
    BY <1>2, <1>8, <2>2, <2>3 DEF ExchangeInv
<1>9. ExchangeInv'
  BY <1>2, <1>5, <1>8 DEF ExchangeInv
<1> QED
  BY <1>2, <1>3, <1>4, <1>9
-----------------------------------------------------------------------------
(* What a follower does to the log.                                        *)
FollowerStep(f) ==
  \/ Deliver(f) \/ FellBehind(f) \/ Unfollow(f)
  \/ \E S \in {Connections} \cup {{conn} : conn \in Connections} : Follow(f, S)

LEMMA FollowerReads ==
  ASSUME NEW f \in Followers, FollowerStep(f)
  PROVE  UNCHANGED <<nextID, entry, bytes, kind, phase, chunk>>
BY DEF FollowerStep, Deliver, FellBehind, Unfollow, Follow, LogSubscribe,
       LogUnsubscribe, logVars, exchangeVars

LEMMA StepSplit ==
  TrafficNext <=>
    \/ \E k \in Kinds, conn \in Connections, b \in Weights : Send(k, conn, b)
    \/ \E i \in Ids : Exchange(i)
    \/ \E f \in Followers : FollowerStep(f)
BY DEF TrafficNext, FollowerStep

LEMMA LogInit0 == TrafficInit => LogInv /\ ExchangeInv
<1> SUFFICES ASSUME TrafficInit PROVE LogInv /\ ExchangeInv
  OBVIOUS
<1>1. Logged = {}
  BY DEF TrafficInit, LogInit, Logged
<1>2. SizeOf(Logged) = 0
  <2>1. SizeOf(Logged) = SumFunctionOnSet([i \in Logged |-> entry[i].size], Logged)
    BY DEF SizeOf, SumFunction
  <2> DEFINE w == [i \in Logged |-> entry[i].size]
  <2> HIDE DEF w
  <2>2. SumFunctionOnSet(w, {}) = 0
    BY SumEmpty
  <2> QED
    BY <1>1, <2>1, <2>2 DEF w
<1>3. WithinBudget
  BY <1>1, FS_EmptySet, LogAssumption DEF WithinBudget, TrafficInit, LogInit
<1>4. LogInv
  BY <1>1, <1>2, <1>3, LogAssumption DEF LogInv, BytesAccounted, TrafficInit, LogInit
<1>5. ExchangeInv
  BY <1>1 DEF ExchangeInv, TrafficInit, Kinds, Chunks, Nothing
<1> QED
  BY <1>4, <1>5

LEMMA LogNext ==
  ASSUME LogInv, ExchangeInv, [TrafficNext]_vars
  PROVE  LogInv' /\ ExchangeInv'
<1>1. ASSUME UNCHANGED <<nextID, entry, bytes, kind, phase, chunk>>
      PROVE  LogInv' /\ ExchangeInv'
  BY <1>1 DEF LogInv, BytesAccounted, WithinBudget, SizeOf, Logged, ExchangeInv
<1>2. ASSUME NEW k \in Kinds, NEW conn \in Connections, NEW b \in Weights,
             Send(k, conn, b)
      PROVE  LogInv' /\ ExchangeInv'
  BY <1>2, SendSound
<1>3. ASSUME NEW i \in Ids, Exchange(i) PROVE LogInv' /\ ExchangeInv'
  BY <1>3, ExchangeSound
<1>4. ASSUME NEW f \in Followers, FollowerStep(f) PROVE LogInv' /\ ExchangeInv'
  BY <1>1, <1>4, FollowerReads
<1>5. CASE UNCHANGED vars
  BY <1>1, <1>5 DEF vars, logVars, exchangeVars
<1> QED
  BY <1>2, <1>3, <1>4, <1>5, StepSplit

LEMMA LogAlways == TrafficSpec => [](LogInv /\ ExchangeInv)
<1>1. LogInv /\ ExchangeInv /\ [TrafficNext]_vars => (LogInv /\ ExchangeInv)'
  BY LogNext
<1> QED
  BY <1>1, LogInit0, PTL DEF TrafficSpec

(* What an exchange over may still become.                                 *)
StaysFinished ==
  \A i \in Logged :
    entry[i].done /\ entry'[i] # None =>
      \/ entry'[i] = entry[i]
      \/ kind[i] = "stream" /\ entry'[i].body = entry[i].body

LEMMA FinishedStep ==
  ASSUME LogInv, ExchangeInv, [TrafficNext]_vars
  PROVE  StaysFinished
<1>1. ASSUME entry' = entry PROVE StaysFinished
  BY <1>1 DEF StaysFinished
<1>2. ASSUME NEW k \in Kinds, NEW conn \in Connections, NEW b \in Weights,
             Send(k, conn, b)
      PROVE  StaysFinished
  <2>1. PICK new : Added(new)
    BY <1>2, SendSound
  <2>2. PICK T \in SUBSET Logged : Left(nextID + 1, new, T)
    BY <2>1 DEF Added
  <2>3. \A i \in Logged : i # nextID + 1
    BY <2>1 DEF Added, Logged
  <2> QED
    BY <2>2, <2>3 DEF StaysFinished, Left, Logged
<1>3. ASSUME NEW i \in Ids, Exchange(i) PROVE StaysFinished
  <2>1. ChangedOrNot(i)
    BY <1>3, ExchangeSound
  <2>2. CASE UNCHANGED logVars
    BY <1>1, <2>2 DEF logVars
  <2>3. ASSUME NEW new, Changed(i, new),
               entry[i].done =>
                 \/ new = entry[i]
                 \/ /\ kind[i] = "stream"
                    /\ new.done /\ new.body = entry[i].body
        PROVE  StaysFinished
    <3>1. PICK T \in SUBSET Logged : Left(i, new, T)
      BY <2>3 DEF Changed
    <3>2. entry'[i] = new
      BY <3>1 DEF Left
    <3>3. \A x \in Logged : x # i => entry'[x] \in {entry[x], None}
      BY <3>1 DEF Left, Logged
    <3> QED
      BY <2>3, <3>2, <3>3 DEF StaysFinished
  <2> QED
    BY <2>1, <2>2, <2>3 DEF ChangedOrNot
<1>4. ASSUME NEW f \in Followers, FollowerStep(f) PROVE StaysFinished
  BY <1>1, <1>4, FollowerReads
<1>5. CASE UNCHANGED vars
  BY <1>1, <1>5 DEF vars, logVars
<1> QED
  BY <1>2, <1>3, <1>4, <1>5, StepSplit

THEOREM FinishedForGood == TrafficSpec => FinishedStays
<1>1. LogInv /\ ExchangeInv /\ [TrafficNext]_vars => [StaysFinished]_vars
  BY FinishedStep
<1> QED
  BY <1>1, LogAlways, PTL DEF TrafficSpec, FinishedStays, StaysFinished
-----------------------------------------------------------------------------
(* A position of a UI's list, and a list that it may show.                 *)
Show == [id : Ids, entry : Entries]
Shows == {s \in Seq(Show) : Len(s) <= Capacity}

AfterStep(s, q, g, n) == IF n = 0 THEN s ELSE Reduce(g[n - 1], q[n])
AfterSteps(s, q, g) == g = [n \in 0..Len(q) |-> AfterStep(s, q, g, n)]

LEMMA Shown ==
  ASSUME NEW s \in Shows
  PROVE  /\ Len(s) \in Nat /\ Len(s) <= Capacity /\ DOMAIN s = 1..Len(s)
         /\ \A n \in 1..Len(s) : /\ s[n].id \in Ids /\ s[n].id \in Nat
                                 /\ s[n].entry \in Entries /\ s[n] \in Show
<1>1. /\ s \in Seq(Show) /\ Len(s) \in Nat /\ Len(s) <= Capacity
      /\ DOMAIN s = 1..Len(s) /\ \A n \in 1..Len(s) : s[n] \in Show
  BY DEF Shows
<1>2. \A x \in Ids : x \in Nat
  BY LogAssumption DEF Ids
<1> QED
  BY <1>1, <1>2 DEF Show

LEMMA AfterIsSolution ==
  ASSUME NEW s, NEW q
  PROVE  After(s, q) = CHOOSE g : AfterSteps(s, q, g)
BY Zenon DEF After, AfterSteps, AfterStep

(* The updates one by one.                                                 *)
LEMMA AfterEach ==
  ASSUME NEW s, NEW U, NEW q \in Seq(U)
  PROVE  /\ After(s, q)[0] = s
         /\ \A n \in 1..Len(q) : After(s, q)[n] = Reduce(After(s, q)[n - 1], q[n])
<1> DEFINE D == 0..Len(q)
           Sol(n, g) == \A m \in D : m <= n => g[m] = AfterStep(s, q, g, m)
           N == {n \in Nat : \E g : Sol(n, g)}
<1>1. Len(q) \in Nat
  OBVIOUS
<1>2. 0 \in N
  <2> DEFINE g == [n \in D |-> s]
  <2>1. Sol(0, g)
    BY <1>1 DEF AfterStep
  <2> HIDE DEF Sol
  <2> QED
    BY <2>1
<1>3. ASSUME NEW n \in Nat, n \in N PROVE n + 1 \in N
  <2>1. PICK g : Sol(n, g)
    BY <1>3
  <2> DEFINE h == [m \in D |-> AfterStep(s, q, g, m)]
  <2>2. \A m \in D : m <= n => h[m] = g[m]
    BY <2>1
  <2>3. ASSUME NEW m \in D, m <= n + 1 PROVE h[m] = AfterStep(s, q, h, m)
    <3>1. CASE m = 0
      BY <3>1 DEF AfterStep
    <3>2. CASE m # 0
      <4>1. m - 1 \in D /\ m - 1 <= n
        BY <1>1, <2>3, <3>2
      <4>2. h[m - 1] = g[m - 1]
        BY <2>2, <4>1
      <4> QED
        BY <4>2, <3>2, Zenon DEF AfterStep
    <3> QED
      BY <3>1, <3>2
  <2>4. Sol(n + 1, h)
    BY <2>3
  <2> HIDE DEF Sol
  <2> QED
    BY <2>4
<1>4. Len(q) \in N
  BY <1>1, <1>2, <1>3, NatCases, Zenon
<1>5. PICK g : Sol(Len(q), g)
  BY <1>4
<1> DEFINE h == [m \in D |-> AfterStep(s, q, g, m)]
<1>6. \A m \in D : h[m] = AfterStep(s, q, h, m)
  <2>1. \A m \in D : g[m] = AfterStep(s, q, g, m)
    BY <1>1, <1>5
  <2>2. \A m \in D : h[m] = g[m]
    BY <2>1
  <2>3. ASSUME NEW m \in D PROVE h[m] = AfterStep(s, q, h, m)
    <3>1. CASE m = 0
      BY <3>1 DEF AfterStep
    <3>2. CASE m # 0
      <4>1. m - 1 \in D
        BY <1>1, <3>2
      <4>2. h[m - 1] = g[m - 1]
        BY <2>2, <4>1
      <4> QED
        BY <4>2, <3>2, Zenon DEF AfterStep
    <3> QED
      BY <3>1, <3>2
  <2> QED
    BY <2>3
<1>7. h = [m \in D |-> h[m]]
  OBVIOUS
<1> HIDE DEF h
<1>8. AfterSteps(s, q, h)
  BY <1>6, <1>7 DEF AfterSteps
<1> DEFINE a == CHOOSE x : AfterSteps(s, q, x)
<1>9. AfterSteps(s, q, a)
  BY <1>8
<1> HIDE DEF a
<1>10. \A m \in D : a[m] = AfterStep(s, q, a, m)
  BY <1>9 DEF AfterSteps
<1>11. a[0] = s
  BY <1>1, <1>10 DEF AfterStep
<1>12. \A n \in 1..Len(q) : a[n] = Reduce(a[n - 1], q[n])
  BY <1>1, <1>10 DEF AfterStep
<1>13. After(s, q) = a
  BY AfterIsSolution DEF a
<1> QED
  BY <1>11, <1>12, <1>13

(* As far as two lists of updates agree, they do the same.                 *)
LEMMA AfterSame ==
  ASSUME NEW s, NEW U, NEW q \in Seq(U), NEW r \in Seq(U), Len(q) <= Len(r),
         \A n \in 1..Len(q) : q[n] = r[n]
  PROVE  \A n \in 0..Len(q) : After(s, q)[n] = After(s, r)[n]
<1> DEFINE A == {n \in Nat : n \in 0..Len(q) => After(s, q)[n] = After(s, r)[n]}
<1>1. Len(q) \in Nat /\ Len(r) \in Nat
  OBVIOUS
<1>2. 0 \in A
  BY AfterEach
<1>3. ASSUME NEW n \in Nat, n \in A PROVE n + 1 \in A
  <2>1. SUFFICES ASSUME n + 1 \in 0..Len(q)
                 PROVE  After(s, q)[n + 1] = After(s, r)[n + 1]
    OBVIOUS
  <2>2. n + 1 \in 1..Len(q) /\ n + 1 \in 1..Len(r) /\ (n + 1) - 1 = n /\ n \in 0..Len(q)
    BY <1>1, <2>1
  <2>3. After(s, q)[n] = After(s, r)[n] /\ q[n + 1] = r[n + 1]
    BY <1>3, <2>2
  <2>4. After(s, q)[n + 1] = Reduce(After(s, q)[n], q[n + 1])
    BY <2>2, AfterEach
  <2>5. After(s, r)[n + 1] = Reduce(After(s, r)[n], r[n + 1])
    BY <2>2, AfterEach
  <2> QED
    BY <2>3, <2>4, <2>5, Zenon
<1>4. Nat \subseteq A
  BY <1>2, <1>3, NatCases, Zenon
<1> QED
  BY <1>1, <1>4

(* One update more.                                                        *)
LEMMA AfterAppend ==
  ASSUME NEW s, NEW U, NEW q \in Seq(U), NEW u \in U
  PROVE  /\ \A n \in 0..Len(q) : After(s, Append(q, u))[n] = After(s, q)[n]
         /\ After(s, Append(q, u))[Len(q) + 1] = Reduce(After(s, q)[Len(q)], u)
<1> DEFINE r == Append(q, u)
<1>1. r \in Seq(U) /\ Len(r) = Len(q) + 1 /\ r[Len(q) + 1] = u
      /\ \A n \in 1..Len(q) : q[n] = r[n]
  OBVIOUS
<1>2. Len(q) \in Nat /\ Len(q) <= Len(r)
  BY <1>1
<1> HIDE DEF r
<1>3. \A n \in 0..Len(q) : After(s, q)[n] = After(s, r)[n]
  BY <1>1, <1>2, AfterSame
<1>4. Len(q) + 1 \in 1..Len(r) /\ (Len(q) + 1) - 1 = Len(q) /\ Len(q) \in 0..Len(q)
  BY <1>1, <1>2
<1>5. After(s, r)[Len(q) + 1] = Reduce(After(s, r)[Len(q)], u)
  BY <1>1, <1>4, AfterEach
<1> QED
  BY <1>3, <1>4, <1>5 DEF r

(* The first update made.                                                  *)
LEMMA AfterTail ==
  ASSUME NEW s, NEW U, NEW q \in Seq(U), q # <<>>
  PROVE  \A n \in 0..Len(Tail(q)) :
           After(Reduce(s, Head(q)), Tail(q))[n] = After(s, q)[n + 1]
<1> DEFINE r == Tail(q)
           t == Reduce(s, Head(q))
           A == {n \in Nat : n \in 0..Len(r) => After(t, r)[n] = After(s, q)[n + 1]}
<1>1. /\ r \in Seq(U) /\ Len(q) \in Nat /\ Len(q) >= 1 /\ Len(r) = Len(q) - 1
      /\ Head(q) = q[1] /\ \A n \in 1..Len(r) : r[n] = q[n + 1]
  OBVIOUS
<1> HIDE DEF r, t
<1>2. 0 \in A
  <2>1. After(s, q)[1] = Reduce(After(s, q)[0], q[1])
    <3>1. 1 \in 1..Len(q) /\ 1 - 1 = 0
      BY <1>1
    <3> QED
      BY <3>1, AfterEach
  <2>2. After(s, q)[0] = s /\ After(t, r)[0] = t
    BY <1>1, AfterEach
  <2>3. After(t, r)[0] = After(s, q)[0 + 1]
    BY <1>1, <2>1, <2>2 DEF t
  <2> QED
    BY <2>3
<1>3. ASSUME NEW n \in Nat, n \in A PROVE n + 1 \in A
  <2>1. SUFFICES ASSUME n + 1 \in 0..Len(r)
                 PROVE  After(t, r)[n + 1] = After(s, q)[(n + 1) + 1]
    OBVIOUS
  <2>2. /\ n + 1 \in 1..Len(r) /\ (n + 1) - 1 = n /\ n \in 0..Len(r)
        /\ (n + 1) + 1 \in 1..Len(q) /\ ((n + 1) + 1) - 1 = n + 1
    BY <1>1, <2>1
  <2>3. After(t, r)[n] = After(s, q)[n + 1] /\ r[n + 1] = q[(n + 1) + 1]
    BY <1>1, <1>3, <2>2
  <2>4. After(t, r)[n + 1] = Reduce(After(t, r)[n], r[n + 1])
    BY <1>1, <2>2, AfterEach
  <2>5. After(s, q)[(n + 1) + 1] = Reduce(After(s, q)[n + 1], q[(n + 1) + 1])
    BY <2>2, AfterEach
  <2> QED
    BY <2>3, <2>4, <2>5, Zenon
<1>4. Nat \subseteq A
  BY <1>2, <1>3, NatCases, Zenon
<1>5. Len(r) \in Nat
  BY <1>1
<1>6. \A n \in 0..Len(r) : After(t, r)[n] = After(s, q)[n + 1]
  BY <1>4, <1>5
<1> QED
  BY <1>6 DEF r, t
-----------------------------------------------------------------------------
(* What an update makes of a UI's list.                                    *)
Counts(s, i) == \A n \in DOMAIN s : s[n].id = i => s[n].entry.items < MaxFrames

LEMMA ReduceItem ==
  ASSUME NEW s \in Shows, NEW i \in Ids, Counts(s, i),
         NEW t, t = Reduce(s, [id |-> i, whole |-> None])
  PROVE  /\ t \in Shows /\ Len(t) = Len(s)
         /\ \A n \in 1..Len(s) :
              /\ t[n].id = s[n].id
              /\ t[n].entry = IF s[n].id = i THEN [s[n].entry EXCEPT !.items = @ + 1]
                                             ELSE s[n].entry
<1> DEFINE u == [id |-> i, whole |-> None]
<1>1. s \in Seq(Show) /\ Len(s) \in Nat /\ DOMAIN s = 1..Len(s)
      /\ \A n \in 1..Len(s) : s[n] \in Show
  BY DEF Shows
<1>2. t = [n \in 1..Len(s) |-> IF s[n].id = i THEN [s[n] EXCEPT !.entry.items = @ + 1]
                                             ELSE s[n]]
  BY <1>1 DEF Reduce
<1>3. ASSUME NEW n \in 1..Len(s)
      PROVE  /\ t[n] \in Show /\ t[n].id = s[n].id
             /\ t[n].entry = IF s[n].id = i THEN [s[n].entry EXCEPT !.items = @ + 1]
                                            ELSE s[n].entry
  <2>1. CASE s[n].id # i
    BY <1>1, <1>2, <2>1
  <2>2. CASE s[n].id = i
    <3>1. s[n] \in Show /\ s[n].entry.items < MaxFrames
      BY <1>1, <2>2 DEF Counts
    <3>2. t[n] = [s[n] EXCEPT !.entry.items = @ + 1]
      BY <1>2, <2>2
    <3>3. t[n] = [s[n] EXCEPT !.entry = [s[n].entry EXCEPT !.items = @ + 1]]
      BY <3>1, <3>2 DEF Show
    <3>4. [s[n].entry EXCEPT !.items = @ + 1] \in Entries
      <4>1. s[n].entry.items + 1 \in 0..MaxFrames
        BY <3>1, LogAssumption DEF Show, Entries
      <4> QED
        BY <3>1, <4>1 DEF Show, Entries
    <3> QED
      BY <2>2, <3>1, <3>3, <3>4 DEF Show
  <2> QED
    BY <2>1, <2>2
<1>4. t \in Seq(Show) /\ Len(t) = Len(s)
  <2>1. DOMAIN t = 1..Len(s) /\ t = [n \in 1..Len(s) |-> t[n]]
    BY <1>2
  <2>2. t \in [1..Len(s) -> Show]
    BY <1>3, <2>1
  <2> QED
    BY <1>1, <2>2
<1> QED
  BY <1>3, <1>4 DEF Shows

LEMMA ReduceKnown ==
  ASSUME NEW s \in Shows, NEW i \in Ids, NEW e \in Entries,
         \E n \in 1..Len(s) : s[n].id = i,
         NEW t, t = Reduce(s, [id |-> i, whole |-> e])
  PROVE  /\ t \in Shows /\ Len(t) = Len(s)
         /\ \A n \in 1..Len(s) :
              /\ t[n].id = s[n].id
              /\ t[n].entry = IF s[n].id = i THEN e ELSE s[n].entry
<1>1. s \in Seq(Show) /\ Len(s) \in Nat /\ DOMAIN s = 1..Len(s)
      /\ \A n \in 1..Len(s) : s[n] \in Show
  BY DEF Shows
<1>2. Position(s, i) # {} /\ e # None
  BY <1>1, LogAssumption DEF Position
<1>3. t = [n \in 1..Len(s) |-> IF s[n].id = i THEN [s[n] EXCEPT !.entry = e] ELSE s[n]]
  BY <1>1, <1>2 DEF Reduce
<1>4. ASSUME NEW n \in 1..Len(s)
      PROVE  /\ t[n] \in Show /\ t[n].id = s[n].id
             /\ t[n].entry = IF s[n].id = i THEN e ELSE s[n].entry
  BY <1>1, <1>3 DEF Show
<1>5. t \in Seq(Show) /\ Len(t) = Len(s)
  BY <1>1, <1>3, <1>4
<1> QED
  BY <1>4, <1>5 DEF Shows

(* A new entry comes last, and the first goes if there are too many.       *)
LEMMA ReduceNew ==
  ASSUME NEW s \in Shows, NEW i \in Ids, NEW e \in Entries,
         \A n \in 1..Len(s) : s[n].id # i,
         NEW t, t = Reduce(s, [id |-> i, whole |-> e])
  PROVE  /\ t \in Shows /\ Len(t) >= 1 /\ t[Len(t)] = [id |-> i, entry |-> e]
         /\ \/ /\ Len(s) < Capacity /\ Len(t) = Len(s) + 1
               /\ \A n \in 1..Len(s) : t[n] = s[n]
            \/ /\ Len(s) = Capacity /\ Len(t) = Capacity
               /\ \A n \in 1..Capacity - 1 : t[n] = s[n + 1]
<1>1. s \in Seq(Show) /\ Len(s) \in Nat /\ DOMAIN s = 1..Len(s)
      /\ \A n \in 1..Len(s) : s[n] \in Show
  BY DEF Shows
<1>2. Capacity \in Nat /\ Capacity >= 1 /\ Len(s) <= Capacity
  BY LogAssumption DEF Shows
<1>3. Position(s, i) = {} /\ e # None
  BY <1>1, LogAssumption DEF Position
<1> DEFINE p == [id |-> i, entry |-> e]
           more == Append(s, p)
           from == Max({1, Len(more) - Capacity + 1})
<1>4. t = SubSeq(more, from, Len(more))
  BY <1>3 DEF Reduce
<1>5. /\ more \in Seq(Show) /\ Len(more) = Len(s) + 1 /\ more[Len(s) + 1] = p
      /\ \A n \in 1..Len(s) : more[n] = s[n]
  BY <1>1 DEF Show
<1> HIDE DEF more
<1>6. ASSUME NEW m \in Nat, m >= 1, Len(more) - Capacity + 1 <= m,
             m = 1 \/ m = Len(more) - Capacity + 1
      PROVE  from = m
  <2>1. m \in {1, Len(more) - Capacity + 1}
        /\ \A x \in {1, Len(more) - Capacity + 1} : m >= x
    BY <1>6
  <2>2. \A x \in {1, Len(more) - Capacity + 1} : x \in Int
    BY <1>1, <1>2, <1>5
  <2>3. \A x \in {1, Len(more) - Capacity + 1} :
          (\A y \in {1, Len(more) - Capacity + 1} : x >= y) => x = m
    BY <2>1, <2>2
  <2> QED
    BY <2>1, <2>3 DEF Max
<1>7. CASE Len(s) < Capacity
  <2>1. from = 1
    <3>1. Len(more) - Capacity + 1 <= 1 /\ 1 \in Nat /\ 1 >= 1
      BY <1>1, <1>2, <1>5, <1>7
    <3> HIDE DEF from
    <3> QED
      BY <1>6, <3>1
  <2> HIDE DEF from
  <2>2. t = SubSeq(more, 1, Len(s) + 1)
    BY <1>4, <1>5, <2>1
  <2>3. /\ t \in Seq(Show) /\ Len(t) = Len(s) + 1
        /\ \A n \in 1..Len(s) + 1 : t[n] = more[n]
    BY <1>1, <1>5, <2>2
  <2>4. Len(t) <= Capacity /\ Len(t) >= 1 /\ t[Len(t)] = p
        /\ \A n \in 1..Len(s) : t[n] = s[n]
    BY <1>1, <1>2, <1>5, <1>7, <2>3
  <2> QED
    BY <1>7, <2>3, <2>4 DEF Shows
<1>8. CASE Len(s) = Capacity
  <2>1. from = 2
    <3>1. Len(more) - Capacity + 1 = 2 /\ 2 \in Nat /\ 2 >= 1
      BY <1>1, <1>2, <1>5, <1>8
    <3> HIDE DEF from
    <3> QED
      BY <1>6, <3>1
  <2> HIDE DEF from
  <2>2. t = SubSeq(more, 2, Capacity + 1)
    BY <1>4, <1>5, <1>8, <2>1
  <2>3. /\ t \in Seq(Show) /\ Len(t) = Capacity
        /\ \A n \in 1..Capacity : t[n] = more[n + 1]
    <3>1. more # <<>> /\ Len(more) = Capacity + 1
      BY <1>1, <1>2, <1>5, <1>8
    <3>2. t = Tail(more)
      BY <1>5, <2>2, <3>1, TailIsSubSeq
    <3>3. /\ t \in Seq(Show) /\ Len(t) = Len(more) - 1
          /\ \A n \in 1..Len(t) : t[n] = more[n + 1]
      <4>1. more \in Seq(Show) /\ more # <<>>
        BY <1>5, <3>1
      <4>2. /\ Tail(more) \in Seq(Show) /\ Len(Tail(more)) = Len(more) - 1
            /\ \A n \in 1..Len(Tail(more)) : Tail(more)[n] = more[n + 1]
        BY <4>1, HeadTailProperties, Zenon
      <4> QED
        BY <3>2, <4>2, Zenon
    <3>4. Len(more) - 1 = Capacity
      BY <1>2, <3>1
    <3> QED
      BY <3>3, <3>4
  <2>4. t[Capacity] = p /\ \A n \in 1..Capacity - 1 : t[n] = s[n + 1]
    BY <1>1, <1>2, <1>5, <1>8, <2>3
  <2>5. t \in Shows /\ Len(t) >= 1 /\ t[Len(t)] = p
    BY <1>2, <2>3, <2>4 DEF Shows
  <2> QED
    BY <1>8, <2>3, <2>4, <2>5
<1>9. Len(s) < Capacity \/ Len(s) = Capacity
  <2>1. Len(s) \in Nat
    BY <1>1
  <2> QED
    BY <1>2, <2>1
<1> QED
  BY <1>7, <1>8, <1>9, Zenon

Fresh(s, i) == \A n \in 1..Len(s) : s[n].id # i

Joined(s, i, e, t) ==
  /\ t \in Shows /\ Len(t) >= 1 /\ t[Len(t)] = [id |-> i, entry |-> e]
  /\ \/ /\ Len(s) < Capacity /\ Len(t) = Len(s) + 1
        /\ \A n \in 1..Len(s) : t[n] = s[n]
     \/ /\ Len(s) = Capacity /\ Len(t) = Capacity
        /\ \A n \in 1..Capacity - 1 : t[n] = s[n + 1]

LEMMA NewJoins ==
  ASSUME NEW s \in Shows, NEW i \in Ids, NEW e \in Entries, Fresh(s, i)
  PROVE  Joined(s, i, e, Reduce(s, [id |-> i, whole |-> e]))
BY ReduceNew DEF Fresh, Joined
-----------------------------------------------------------------------------
InOrder(s) == \A m, n \in 1..Len(s) : m < n => s[m].id < s[n].id

(* A list shows of the entries of the connections S, as far as they are    *)
(* still logged, what the log has; and all of them in their order, unless  *)
(* it may have had to drop some that the log kept.                         *)
Agrees(s, S) ==
  /\ s \in Shows
  /\ \A n \in 1..Len(s) : s[n].id <= nextID /\ s[n].entry.conn \in S
  /\ \A n \in 1..Len(s) : s[n].id \in Logged => s[n].entry = View(entry[s[n].id])
  /\ Len(s) < Capacity \/ MaxBytes = 0 =>
       /\ InOrder(s)
       /\ \A i \in Seen(S) : \E n \in 1..Len(s) : s[n].id = i

(* Without a limit on the bytes, the last entries are logged.              *)
LastOnes ==
  MaxBytes = 0 => Logged = {i \in Ids : nextID - Capacity < i /\ i <= nextID}

LEMMA ChangedFacts ==
  ASSUME LogInv, NEW i \in Ids, NEW new, Changed(i, new)
  PROVE  /\ i \in Logged /\ Logged' \subseteq Logged /\ nextID' = nextID
         /\ new \in Entries /\ new.conn = entry[i].conn /\ entry[i] \in Entries
         /\ entry'[i] = new
         /\ \A x \in Logged' : x # i => entry'[x] = entry[x]
         /\ MaxBytes = 0 => Logged' = Logged
<1>1. PICK T \in SUBSET Logged :
        i \in T /\ Left(i, new, T) /\ (MaxBytes = 0 => T = Logged)
  BY DEF Changed
<1>2. new \in Entries /\ new.conn = entry[i].conn /\ entry[i] # None /\ nextID' = nextID
  BY DEF Changed
<1>3. Logged' = T \cup {i} /\ \A x \in T \ {i} : entry'[x] = entry[x]
  BY <1>1, <1>2, LeftOver
<1>4. entry'[i] = new
  BY <1>1 DEF Left
<1> QED
  BY <1>1, <1>2, <1>3, <1>4 DEF Logged, LogInv

LEMMA ViewOf ==
  ASSUME NEW e \in Entries
  PROVE  View(e) \in Entries /\ View(e).conn = e.conn
         /\ View(e).items = e.items /\ View(e).done = e.done
BY DEF View, Entries

(* Another's change leaves a list as it is.                                *)
LEMMA ChangedElsewhere ==
  ASSUME LogInv, NEW i \in Ids, NEW new, Changed(i, new), NEW s, NEW S,
         Agrees(s, S), new.conn \notin S \/ new = entry[i]
  PROVE  Agrees(s, S)'
<1>1. /\ i \in Logged /\ Logged' \subseteq Logged /\ nextID' = nextID
      /\ new.conn = entry[i].conn /\ entry[i] \in Entries /\ entry'[i] = new
      /\ \A x \in Logged' : x # i => entry'[x] = entry[x]
  BY ChangedFacts
<1>2. ASSUME NEW n \in 1..Len(s), s[n].id \in Logged'
      PROVE  s[n].entry = View(entry'[s[n].id])
  <2>1. s[n].entry = View(entry[s[n].id]) /\ s[n].entry.conn \in S
    BY <1>1, <1>2 DEF Agrees
  <2>2. CASE s[n].id # i
    BY <1>1, <1>2, <2>1, <2>2
  <2>3. CASE s[n].id = i
    <3>1. View(entry[i]).conn = entry[i].conn
      BY <1>1, ViewOf
    <3> QED
      BY <1>1, <2>1, <2>3, <3>1
  <2> QED
    BY <2>2, <2>3
<1>3. ASSUME NEW x \in Seen(S)' PROVE x \in Seen(S)
  <2>1. x \in Logged' /\ entry'[x].conn \in S
    BY <1>3 DEF Seen
  <2>2. entry[x].conn = entry'[x].conn
    BY <1>1, <2>1
  <2> QED
    BY <1>1, <2>1, <2>2 DEF Seen
<1> QED
  BY <1>1, <1>2, <1>3 DEF Agrees

(* The list t is s with e as the entry i.                                  *)
Replaced(s, i, e, t) ==
  /\ t \in Shows /\ Len(t) = Len(s)
  /\ \A n \in 1..Len(s) :
       /\ t[n].id = s[n].id
       /\ t[n].entry = IF s[n].id = i THEN e ELSE s[n].entry

(* The list shows what changed, and the rest as before.                    *)
LEMMA ChangedShown ==
  ASSUME LogInv, NEW i \in Ids, NEW new, Changed(i, new), NEW s, NEW S,
         Agrees(s, S), new.conn \in S, NEW t, Replaced(s, i, View(new), t)
  PROVE  Agrees(t, S)'
<1>r. /\ t \in Shows /\ Len(t) = Len(s)
      /\ \A n \in 1..Len(s) :
           /\ t[n].id = s[n].id
           /\ t[n].entry = IF s[n].id = i THEN View(new) ELSE s[n].entry
  BY DEF Replaced
<1>1. /\ i \in Logged /\ Logged' \subseteq Logged /\ nextID' = nextID /\ new \in Entries
      /\ new.conn = entry[i].conn /\ entry'[i] = new
      /\ \A x \in Logged' : x # i => entry'[x] = entry[x]
  BY ChangedFacts
<1>2. View(new).conn = new.conn
  BY <1>1, ViewOf
<1>3. \A n \in 1..Len(t) : t[n].id <= nextID' /\ t[n].entry.conn \in S
  BY <1>r, <1>1, <1>2 DEF Agrees
<1>4. ASSUME NEW n \in 1..Len(t), t[n].id \in Logged'
      PROVE  t[n].entry = View(entry'[t[n].id])
  <2>1. CASE s[n].id = i
    BY <1>r, <1>1, <1>4, <2>1
  <2>2. CASE s[n].id # i
    BY <1>r, <1>1, <1>4, <2>2 DEF Agrees
  <2> QED
    BY <2>1, <2>2
<1>5. Seen(S)' \subseteq Seen(S)
  <2>1. ASSUME NEW x \in Seen(S)' PROVE x \in Seen(S)
    <3>1. x \in Logged' /\ entry'[x].conn \in S
      BY <2>1 DEF Seen
    <3>2. entry[x].conn = entry'[x].conn
      BY <1>1, <3>1
    <3> QED
      BY <1>1, <3>1, <3>2 DEF Seen
  <2> QED
    BY <2>1
<1>6. ASSUME Len(t) < Capacity \/ MaxBytes = 0
      PROVE  InOrder(t) /\ \A x \in Seen(S)' : \E n \in 1..Len(t) : t[n].id = x
  BY <1>r, <1>5, <1>6 DEF Agrees, InOrder
<1> QED
  BY <1>r, <1>3, <1>4, <1>6 DEF Agrees

LEMMA ChangedWhole ==
  ASSUME LogInv, NEW i \in Ids, NEW new, Changed(i, new), NEW s, NEW S,
         Agrees(s, S), new.conn \in S,
         NEW t, t = Reduce(s, [id |-> i, whole |-> View(new)])
  PROVE  Agrees(t, S)'
<1>1. /\ i \in Logged /\ Logged' \subseteq Logged /\ nextID' = nextID /\ new \in Entries
      /\ new.conn = entry[i].conn /\ entry'[i] = new
      /\ \A x \in Logged' : x # i => entry'[x] = entry[x]
  BY ChangedFacts
<1>2. s \in Shows /\ View(new) \in Entries /\ View(new).conn = new.conn
  BY <1>1, ViewOf DEF Agrees
<1>3. CASE \E n \in 1..Len(s) : s[n].id = i
  <2>1. Replaced(s, i, View(new), t)
    BY <1>2, <1>3, ReduceKnown DEF Replaced
  <2> QED
    BY <2>1, ChangedShown
<1>4. CASE \A n \in 1..Len(s) : s[n].id # i
  <2>1. i \in Seen(S)
    BY <1>1 DEF Seen
  <2>2. ~ (Len(s) < Capacity \/ MaxBytes = 0)
    BY <1>4, <2>1 DEF Agrees
  <2>3. Len(s) = Capacity /\ MaxBytes # 0
    <3>1. Len(s) \in Nat /\ Len(s) <= Capacity
      BY <1>2 DEF Shows
    <3> QED
      BY <2>2, <3>1, LogAssumption
  <2>4. /\ t \in Shows /\ t[Len(t)] = [id |-> i, entry |-> View(new)]
        /\ Len(t) = Capacity
        /\ \A n \in 1..Capacity - 1 : t[n] = s[n + 1]
    BY <1>2, <1>4, <2>3, ReduceNew
  <2>5. \A n \in 1..Capacity : \/ n = Capacity
                               \/ n \in 1..Capacity - 1 /\ n + 1 \in 1..Len(s)
    BY <2>3, LogAssumption
  <2>6. i <= nextID
    <3>1. i \in Nat /\ nextID \in Nat /\ entry[i] # None
      BY <1>1, LogAssumption DEF LogInv, Logged, Ids
    <3> QED
      BY <3>1 DEF LogInv
  <2>7. ASSUME NEW n \in 1..Capacity
        PROVE  /\ t[n].id <= nextID' /\ t[n].entry.conn \in S
               /\ t[n].id \in Logged' => t[n].entry = View(entry'[t[n].id])
    <3>1. CASE n = Capacity
      BY <1>1, <1>2, <2>4, <2>6, <3>1
    <3>2. CASE n \in 1..Capacity - 1 /\ n + 1 \in 1..Len(s)
      <4>1. t[n] = s[n + 1] /\ s[n + 1].id # i
        BY <1>4, <2>4, <3>2
      <4> QED
        BY <1>1, <3>2, <4>1 DEF Agrees
    <3> QED
      BY <2>5, <3>1, <3>2
  <2>8. ~ (Len(t) < Capacity \/ MaxBytes = 0)
    BY <2>3, <2>4, LogAssumption
  <2> QED
    BY <2>4, <2>7, <2>8 DEF Agrees
<1> QED
  BY <1>3, <1>4

LEMMA ChangedItem ==
  ASSUME LogInv, NEW i \in Ids, NEW new, Changed(i, new), NEW s, NEW S,
         Agrees(s, S), new.conn \in S,
         new = [entry[i] EXCEPT !.items = @ + 1, !.size = @ + 1],
         NEW t, t = Reduce(s, [id |-> i, whole |-> None])
  PROVE  Agrees(t, S)'
<1>1. i \in Logged /\ entry[i] \in Entries /\ new \in Entries
  BY ChangedFacts
<1>2. s \in Shows
  BY DEF Agrees
<1>3. new.items = entry[i].items + 1 /\ entry[i].items < MaxFrames
  <2>1. new.items = entry[i].items + 1 /\ entry[i].items \in Nat
    BY <1>1 DEF Entries
  <2>2. new.items \in 0..MaxFrames
    BY <1>1 DEF Entries
  <2> QED
    BY <2>1, <2>2, LogAssumption
<1>4. ASSUME NEW n \in 1..Len(s), s[n].id = i
      PROVE  /\ s[n].entry = View(entry[i]) /\ s[n].entry.items < MaxFrames
             /\ [s[n].entry EXCEPT !.items = @ + 1] = View(new)
  <2>1. s[n].entry = View(entry[i])
    BY <1>1, <1>4 DEF Agrees
  <2>2. [View(entry[i]) EXCEPT !.items = @ + 1] = View(new)
    BY <1>1 DEF View, Entries
  <2>3. View(entry[i]).items = entry[i].items
    BY <1>1, ViewOf
  <2> QED
    BY <1>3, <2>1, <2>2, <2>3
<1>5. Counts(s, i)
  <2>1. DOMAIN s = 1..Len(s)
    BY <1>2 DEF Shows
  <2> QED
    BY <1>4, <2>1 DEF Counts
<1>6. /\ t \in Shows /\ Len(t) = Len(s)
      /\ \A n \in 1..Len(s) :
           /\ t[n].id = s[n].id
           /\ t[n].entry = IF s[n].id = i THEN [s[n].entry EXCEPT !.items = @ + 1]
                                          ELSE s[n].entry
  BY <1>2, <1>5, ReduceItem
<1>7. Replaced(s, i, View(new), t)
  BY <1>4, <1>6 DEF Replaced
<1> QED
  BY <1>7, ChangedShown, Zenon
-----------------------------------------------------------------------------
LEMMA AddedFacts ==
  ASSUME LogInv, NEW new, Added(new), NEW i, i = nextID + 1
  PROVE  /\ i \in Ids /\ i \in Logged' /\ i \notin Logged
         /\ Logged' \subseteq Logged \cup {i}
         /\ nextID \in Nat /\ nextID' = i /\ new \in Entries /\ entry'[i] = new
         /\ \A x \in Logged' : x # i => entry'[x] = entry[x]
         /\ MaxBytes = 0 => Logged' = {i} \cup IF Cardinality(Logged) = Capacity
                                               THEN Logged \ {Min(Logged)} ELSE Logged
<1>1. /\ i \in Ids /\ entry[i] = None /\ nextID' = i /\ new \in Entries
  BY DEF Added
<1>2. PICK T \in SUBSET Logged :
        /\ Left(i, new, T)
        /\ MaxBytes = 0 => T = IF Cardinality(Logged) = Capacity
                               THEN Logged \ {Min(Logged)} ELSE Logged
  BY DEF Added
<1>3. Logged' = T \cup {i} /\ \A x \in T \ {i} : entry'[x] = entry[x]
  BY <1>1, <1>2, LeftOver
<1>4. entry'[i] = new
  BY <1>1, <1>2 DEF Left
<1>5. i \notin Logged /\ nextID \in Nat
  BY <1>1, LogAssumption DEF Logged, LogInv
<1> QED
  BY <1>1, <1>2, <1>3, <1>4, <1>5

LEMMA AddedLast ==
  ASSUME LogInv, LastOnes, NEW new, Added(new)
  PROVE  LastOnes'
<1> DEFINE i == nextID + 1
           Last(k) == {x \in Ids : k - Capacity < x /\ x <= k}
<1>1. SUFFICES ASSUME MaxBytes = 0 PROVE Logged' = Last(nextID')
  BY DEF LastOnes
<1>2. /\ i \in Ids /\ nextID \in Nat /\ nextID' = i
      /\ Logged' = {i} \cup IF Cardinality(Logged) = Capacity
                            THEN Logged \ {Min(Logged)} ELSE Logged
  BY <1>1, AddedFacts
<1>3. Logged = {x \in Ids : nextID - Capacity < x /\ x <= nextID}
  BY <1>1 DEF LastOnes
<1>4. Capacity \in Nat /\ Capacity >= 1 /\ LastID \in Nat /\ nextID + 1 <= LastID
  BY <1>2, LogAssumption DEF Ids
<1>5. CASE nextID < Capacity
  <2>1. Logged = 1..nextID
    BY <1>2, <1>3, <1>4, <1>5 DEF Ids
  <2>2. Cardinality(Logged) = nextID
    BY <1>2, <2>1, FS_Interval
  <2>3. Logged' = {i} \cup Logged
    BY <1>2, <1>4, <1>5, <2>2
  <2>4. Logged' = 1..nextID + 1
    BY <1>2, <2>1, <2>3
  <2>5. Last(nextID + 1) = 1..nextID + 1
    BY <1>2, <1>4, <1>5 DEF Ids
  <2> HIDE DEF Last
  <2> QED
    BY <1>2, <2>4, <2>5, Zenon
<1>6. CASE nextID >= Capacity
  <2> DEFINE m == nextID - Capacity + 1
  <2>1. Logged = m..nextID /\ m \in Nat /\ m <= nextID
    BY <1>2, <1>3, <1>4, <1>6 DEF Ids
  <2>2. Cardinality(Logged) = Capacity
    <3>1. Cardinality(m..nextID) = IF m > nextID THEN 0 ELSE nextID - m + 1
      BY <1>2, <2>1, FS_Interval
    <3> QED
      BY <1>2, <1>4, <2>1, <3>1
  <2>3. Min(Logged) = m
    <3>1. m \in Logged /\ Logged \subseteq Nat
      BY <1>2, <2>1
    <3> HIDE DEF m
    <3>2. Min(Logged) \in Logged /\ \A x \in Logged : Min(Logged) <= x
      BY <3>1, Least
    <3> QED
      BY <1>2, <2>1, <3>1, <3>2
  <2>4. Logged' = {i} \cup (Logged \ {m})
    BY <1>2, <2>2, <2>3
  <2>5. Logged' = m + 1..nextID + 1
    BY <1>2, <2>1, <2>4
  <2>6. Last(nextID + 1) = m + 1..nextID + 1
    BY <1>2, <1>4, <1>6 DEF Ids
  <2> HIDE DEF Last
  <2> QED
    BY <1>2, <2>5, <2>6, Zenon
<1> QED
  BY <1>2, <1>4, <1>5, <1>6

LEMMA AddedElsewhere ==
  ASSUME LogInv, NEW new, Added(new), NEW s, NEW S, Agrees(s, S), new.conn \notin S
  PROVE  Agrees(s, S)'
<1> DEFINE i == nextID + 1
<1>1. /\ i \in Ids /\ i \in Logged' /\ i \notin Logged
      /\ Logged' \subseteq Logged \cup {i}
      /\ nextID \in Nat /\ nextID' = i /\ entry'[i] = new
      /\ \A x \in Logged' : x # i => entry'[x] = entry[x]
  BY AddedFacts
<1>2. ASSUME NEW n \in 1..Len(s) PROVE s[n].id <= nextID' /\ s[n].id # i
  <2>1. s[n].id <= nextID /\ s[n].id \in Nat
    BY Shown DEF Agrees
  <2> QED
    BY <1>1, <2>1
<1>3. ASSUME NEW n \in 1..Len(s), s[n].id \in Logged'
      PROVE  s[n].entry = View(entry'[s[n].id])
  BY <1>1, <1>2, <1>3 DEF Agrees
<1>4. ASSUME NEW x \in Seen(S)' PROVE x \in Seen(S)
  <2>1. x \in Logged' /\ entry'[x].conn \in S
    BY <1>4 DEF Seen
  <2> QED
    BY <1>1, <2>1 DEF Seen
<1> QED
  BY <1>2, <1>3, <1>4 DEF Agrees

LEMMA Gap ==
  ASSUME NEW s \in Shows, InOrder(s)
  PROVE  \A n \in 1..Len(s) : s[1].id + n - 1 <= s[n].id
<1>1. Len(s) \in Nat /\ \A n \in 1..Len(s) : s[n].id \in Nat
  BY Shown
<1> DEFINE A == {n \in Nat : n \in 1..Len(s) => s[1].id + n - 1 <= s[n].id}
<1>2. 0 \in A
  BY <1>1
<1>3. ASSUME NEW n \in Nat, n \in A PROVE n + 1 \in A
  <2>1. SUFFICES ASSUME n + 1 \in 1..Len(s) PROVE s[1].id + (n + 1) - 1 <= s[n + 1].id
    OBVIOUS
  <2>2. CASE n = 0
    BY <1>1, <2>1, <2>2
  <2>3. CASE n # 0
    <3>1. n \in 1..Len(s) /\ n < n + 1
      BY <1>1, <2>1, <2>3
    <3>2. s[n].id < s[n + 1].id
      BY <2>1, <3>1 DEF InOrder
    <3>3. s[1].id + n - 1 <= s[n].id
      BY <1>3, <3>1
    <3>4. s[n].id \in Nat /\ s[n + 1].id \in Nat /\ s[1].id \in Nat
      BY <1>1, <2>1, <3>1
    <3> QED
      BY <3>2, <3>3, <3>4
  <2> QED
    BY <2>2, <2>3
<1>4. Nat \subseteq A
  BY <1>2, <1>3, NatCases, Zenon
<1> QED
  BY <1>1, <1>4

LEMMA AddedShown ==
  ASSUME LogInv, LastOnes, NEW new, Added(new), NEW s, NEW S, Agrees(s, S),
         new.conn \in S,
         NEW t, t = Reduce(s, [id |-> nextID + 1, whole |-> View(new)])
  PROVE  Agrees(t, S)'
<1> DEFINE i == nextID + 1
           v == View(new)
<1>1. /\ i \in Ids /\ i \in Logged' /\ i \notin Logged
      /\ Logged' \subseteq Logged \cup {i}
      /\ nextID \in Nat /\ nextID' = i /\ new \in Entries /\ entry'[i] = new
      /\ \A x \in Logged' : x # i => entry'[x] = entry[x]
  BY AddedFacts
<1>2. s \in Shows /\ v \in Entries /\ v.conn = new.conn
  BY <1>1, ViewOf DEF Agrees
<1>3. \A n \in 1..Len(s) : /\ s[n].id <= nextID /\ s[n].id \in Nat /\ s[n].id # i
                           /\ s[n].entry.conn \in S
  <2>1. \A n \in 1..Len(s) : s[n].id \in Nat
    BY <1>2, Shown
  <2> QED
    BY <1>1, <2>1 DEF Agrees
<1>4. t = Reduce(s, [id |-> i, whole |-> v])
  OBVIOUS
<1> HIDE DEF v
<1>5. /\ t \in Shows /\ Len(t) >= 1 /\ t[Len(t)] = [id |-> i, entry |-> v]
      /\ \/ /\ Len(s) < Capacity /\ Len(t) = Len(s) + 1
            /\ \A n \in 1..Len(s) : t[n] = s[n]
         \/ /\ Len(s) = Capacity /\ Len(t) = Capacity
            /\ \A n \in 1..Capacity - 1 : t[n] = s[n + 1]
  <2>1. i \in Ids /\ Fresh(s, i)
    BY <1>1, <1>3 DEF Fresh
  <2> HIDE DEF i
  <2>2. Joined(s, i, v, t)
    BY <1>2, <1>4, <2>1, NewJoins, Zenon
  <2> QED
    BY <2>2 DEF Joined
<1>6. Len(s) \in Nat /\ Len(t) \in Nat /\ Capacity \in Nat /\ Capacity >= 1
  BY <1>2, <1>5, LogAssumption DEF Shows
<1>7. PICK d \in {0, 1} :
        /\ Len(t) = Len(s) + 1 - d
        /\ d = 1 <=> Len(s) = Capacity
        /\ \A n \in 1..Len(t) - 1 : n + d \in 1..Len(s) /\ t[n] = s[n + d]
  <2>1. CASE Len(s) < Capacity /\ Len(t) = Len(s) + 1 /\ \A n \in 1..Len(s) : t[n] = s[n]
    <3>1. /\ Len(t) = Len(s) + 1 - 0 /\ Len(s) # Capacity
          /\ \A n \in 1..Len(t) - 1 : n + 0 \in 1..Len(s) /\ t[n] = s[n + 0]
      BY <1>6, <2>1
    <3> QED
      BY <3>1
  <2>2. CASE Len(s) = Capacity /\ Len(t) = Capacity
             /\ \A n \in 1..Capacity - 1 : t[n] = s[n + 1]
    <3>1. /\ Len(t) = Len(s) + 1 - 1
          /\ \A n \in 1..Len(t) - 1 : n + 1 \in 1..Len(s) /\ t[n] = s[n + 1]
      BY <1>6, <2>2
    <3> QED
      BY <2>2, <3>1
  <2> QED
    BY <1>5, <2>1, <2>2
<1>8. ASSUME NEW n \in 1..Len(t)
      PROVE  \/ n = Len(t) /\ t[n].id = i /\ t[n].entry = v
             \/ n \in 1..Len(t) - 1 /\ n + d \in 1..Len(s) /\ t[n] = s[n + d]
  <2>1. n = Len(t) \/ n \in 1..Len(t) - 1
    BY <1>6
  <2> QED
    BY <1>5, <1>7, <2>1
<1>9. ASSUME NEW n \in 1..Len(t)
      PROVE  /\ t[n].id <= nextID' /\ t[n].entry.conn \in S
             /\ t[n].id \in Logged' => t[n].entry = View(entry'[t[n].id])
  <2>1. CASE n = Len(t) /\ t[n].id = i /\ t[n].entry = v
    BY <1>1, <1>2, <2>1 DEF v
  <2>2. CASE n + d \in 1..Len(s) /\ t[n] = s[n + d]
    <3>1. s[n + d].id <= nextID /\ s[n + d].id \in Nat /\ s[n + d].id # i
          /\ s[n + d].entry.conn \in S
      BY <1>3, <2>2
    <3>2. s[n + d].id \in Logged => s[n + d].entry = View(entry[s[n + d].id])
      BY <2>2 DEF Agrees
    <3> QED
      BY <1>1, <2>2, <3>1, <3>2
  <2> QED
    BY <1>8, <2>1, <2>2
<1>10. ASSUME Len(t) < Capacity \/ MaxBytes = 0
       PROVE  InOrder(t) /\ \A x \in Seen(S)' : \E n \in 1..Len(t) : t[n].id = x
  <2>1. /\ InOrder(s)
        /\ \A x \in Seen(S) : \E n \in 1..Len(s) : s[n].id = x
    <3>1. Len(s) < Capacity \/ MaxBytes = 0
      BY <1>6, <1>7, <1>10
    <3> QED
      BY <3>1 DEF Agrees
  <2>2. InOrder(t)
    <3>1. ASSUME NEW m \in 1..Len(t), NEW n \in 1..Len(t), m < n
          PROVE  t[m].id < t[n].id
      <4>1. m \in 1..Len(t) - 1 /\ m + d \in 1..Len(s) /\ t[m] = s[m + d]
        BY <1>6, <1>7, <3>1
      <4>2. CASE n = Len(t) /\ t[n].id = i
        BY <1>1, <1>3, <4>1, <4>2
      <4>3. CASE n + d \in 1..Len(s) /\ t[n] = s[n + d]
        <5>1. m + d < n + d
          BY <3>1
        <5> QED
          BY <2>1, <4>1, <4>3, <5>1 DEF InOrder
      <4> QED
        BY <1>8, <4>2, <4>3
    <3> QED
      BY <3>1 DEF InOrder
  <2>3. ASSUME NEW x \in Seen(S)' PROVE \E n \in 1..Len(t) : t[n].id = x
    <3>1. x \in Logged' /\ entry'[x].conn \in S
      BY <2>3 DEF Seen
    <3>2. CASE x = i
      BY <1>5, <1>6, <3>2
    <3>3. CASE x # i
      <4>1. x \in Seen(S)
        BY <1>1, <3>1, <3>3 DEF Seen
      <4>2. PICK n \in 1..Len(s) : s[n].id = x
        BY <2>1, <4>1
      <4>3. n - d \in 1..Len(t) - 1
        <5>1. CASE d = 0
          BY <1>6, <1>7, <5>1
        <5>2. CASE d = 1
          <6>1. MaxBytes = 0
            BY <1>6, <1>7, <1>10, <5>2
          <6>2. Logged' = {y \in Ids : nextID' - Capacity < y /\ y <= nextID'}
            <7>1. LastOnes'
              BY AddedLast
            <7> QED
              BY <6>1, <7>1 DEF LastOnes
          <6>3. nextID + 1 - Capacity < x
            <7>1. nextID' - Capacity < x
              BY <3>1, <6>2
            <7>2. nextID' = nextID + 1 /\ nextID \in Nat /\ Capacity \in Nat /\ x \in Nat
              BY <1>1, <3>1, LogAssumption DEF Ids, Logged
            <7> QED
              BY <7>1, <7>2
          <6>4. s[1].id + Capacity - 1 <= s[Capacity].id /\ s[Capacity].id <= nextID
            BY <1>2, <1>3, <1>6, <1>7, <2>1, <5>2, Gap
          <6>5. s[1].id \in Nat /\ s[Capacity].id \in Nat
            BY <1>3, <1>6, <1>7, <5>2
          <6>6. n # 1
            BY <1>1, <1>6, <4>2, <6>3, <6>4, <6>5
          <6> QED
            BY <1>6, <1>7, <5>2, <6>6
        <5> QED
          BY <5>1, <5>2
      <4>4. t[n - d].id = x /\ n - d \in 1..Len(t)
        <5>1. (n - d) + d = n
          OBVIOUS
        <5> QED
          BY <1>6, <1>7, <4>2, <4>3, <5>1
      <4> QED
        BY <4>4
    <3> QED
      BY <3>2, <3>3
  <2> QED
    BY <2>2, <2>3
<1> QED
  BY <1>5, <1>9, <1>10 DEF Agrees
-----------------------------------------------------------------------------
(* The snapshot.  Every set of numbers can be listed, the lowest first.    *)
Ascends(s) == \A m, n \in DOMAIN s : m < n => s[m] < s[n]

LEMMA CanList ==
  ASSUME NEW X \in SUBSET Ids
  PROVE  \E s \in [1..Cardinality(X) -> X] : Ascends(s)
<1> DEFINE Lists(Y) == \E s \in [1..Cardinality(Y) -> Y] : Ascends(s)
           A == {k \in Nat : \A Y \in SUBSET Ids : Y \subseteq 1..k => Lists(Y)}
<1>1. 0 \in A
  <2>1. ASSUME NEW Y \in SUBSET Ids, Y \subseteq 1..0 PROVE Lists(Y)
    <3>1. Y = {} /\ Cardinality(Y) = 0
      <4>1. Y = {}
        BY <2>1
      <4> QED
        BY <4>1, FS_EmptySet
    <3>2. [n \in 1..0 |-> n] \in [1..Cardinality(Y) -> Y] /\ Ascends([n \in 1..0 |-> n])
      BY <3>1 DEF Ascends
    <3> QED
      BY <3>2
  <2> HIDE DEF Lists
  <2> QED
    BY <2>1
<1>2. ASSUME NEW k \in Nat, k \in A PROVE k + 1 \in A
  <2>1. ASSUME NEW Y \in SUBSET Ids, Y \subseteq 1..k + 1 PROVE Lists(Y)
    <3>1. CASE k + 1 \notin Y
      <4>1. Y \subseteq 1..k
        BY <2>1, <3>1
      <4> HIDE DEF Lists
      <4> QED
        BY <1>2, <4>1
    <3>2. CASE k + 1 \in Y
      <4> DEFINE Z == Y \ {k + 1}
                 c == Cardinality(Z)
      <4>1. Z \in SUBSET Ids /\ Z \subseteq 1..k
        BY <2>1
      <4>2. c \in Nat /\ Cardinality(Y) = c + 1
        BY <2>1, <3>2, IdsFinite, FS_RemoveElement
      <4>3. PICK s \in [1..c -> Z] : Ascends(s)
        <5>1. Lists(Z)
          <6> HIDE DEF Lists, Z
          <6> QED
            BY <1>2, <4>1
        <5> QED
          BY <5>1
      <4> DEFINE t == [n \in 1..c + 1 |-> IF n = c + 1 THEN k + 1 ELSE s[n]]
      <4>a. \A z \in Z : z \in Nat /\ z < k + 1
        BY <4>1
      <4> HIDE DEF c, Z
      <4>4. \A n \in 1..c : s[n] \in Z /\ s[n] \in Nat /\ s[n] < k + 1
        BY <4>a, <4>3
      <4>5. \A n \in 1..c + 1 : n = c + 1 \/ n \in 1..c
        BY <4>2
      <4>6. t \in [1..c + 1 -> Y]
        BY <3>2, <4>4, <4>5 DEF Z
      <4>7. Ascends(t)
        <5>1. ASSUME NEW m \in 1..c + 1, NEW n \in 1..c + 1, m < n
              PROVE  t[m] < t[n]
          <6>1. m \in 1..c
            BY <4>2, <5>1
          <6>2. CASE n = c + 1
            BY <4>2, <4>4, <6>1, <6>2
          <6>3. CASE n \in 1..c
            <7>1. t[m] = s[m] /\ t[n] = s[n]
              BY <4>2, <6>1, <6>3
            <7>2. DOMAIN s = 1..c
              BY <4>3
            <7> QED
              BY <4>3, <5>1, <6>1, <6>3, <7>1, <7>2 DEF Ascends
          <6> QED
            BY <4>5, <6>2, <6>3
        <5> QED
          BY <5>1 DEF Ascends
      <4> QED
        BY <4>2, <4>6, <4>7
    <3> QED
      BY <3>1, <3>2
  <2> HIDE DEF Lists
  <2> QED
    BY <2>1
<1>3. Nat \subseteq A
  <2> HIDE DEF A
  <2> QED
    BY <1>1, <1>2, NatCases, Zenon
<1>4. LastID \in Nat /\ X \subseteq 1..LastID
  BY LogAssumption DEF Ids
<1> HIDE DEF Lists
<1>5. Lists(X)
  BY <1>3, <1>4
<1> QED
  BY <1>5 DEF Lists

LEMMA OldestLists ==
  ASSUME NEW X \in SUBSET Ids, NEW s, s = Oldest(X)
  PROVE  /\ Cardinality(X) \in Nat
         /\ s \in [1..Cardinality(X) -> X] /\ Ascends(s)
         /\ \A i \in X : \E n \in 1..Cardinality(X) : s[n] = i
<1>1. Cardinality(X) \in Nat /\ IsFiniteSet(X)
  BY IdsFinite
<1>2. s \in [1..Cardinality(X) -> X] /\ Ascends(s)
  <2>1. Oldest(X) = CHOOSE r \in [1..Cardinality(X) -> X] : Ascends(r)
    BY Zenon DEF Oldest, Ascends
  <2> QED
    BY <2>1, CanList
<1>3. s \in Injection(1..Cardinality(X), X)
  <2>1. ASSUME NEW m \in 1..Cardinality(X), NEW n \in 1..Cardinality(X), s[m] = s[n]
        PROVE  m = n
    <3>1. s[m] \in Nat /\ s[n] \in Nat /\ DOMAIN s = 1..Cardinality(X)
      BY <1>2, LogAssumption DEF Ids
    <3>2. ~ (m < n) /\ ~ (n < m)
      BY <1>2, <2>1, <3>1 DEF Ascends
    <3> QED
      BY <1>1, <3>2
  <2> QED
    BY <1>2, <2>1 DEF Injection, IsInjective
<1>4. Cardinality(1..Cardinality(X)) = Cardinality(X)
  BY <1>1, FS_Interval
<1>5. s \in Surjection(1..Cardinality(X), X)
  BY <1>1, <1>3, <1>4, FS_Injection
<1> QED
  BY <1>1, <1>2, <1>5 DEF Surjection

(* The snapshot shows what is logged of the connections S, in its order.   *)
LEMMA SnapshotAgrees ==
  ASSUME LogInv, NEW S, NEW s, s = Snapshot(S)
  PROVE  Agrees(s, S)
<1> DEFINE X == Seen(S)
           c == Cardinality(X)
           o == Oldest(X)
<1>1. X \in SUBSET Ids /\ X \subseteq Logged
  BY DEF Seen, Logged
<1>2. /\ c \in Nat /\ o \in [1..c -> X] /\ Ascends(o)
      /\ \A i \in X : \E n \in 1..c : o[n] = i
  BY <1>1, OldestLists
<1>3. c <= Capacity
  <2>1. IsFiniteSet(Logged) /\ Cardinality(Logged) <= Capacity
        /\ Cardinality(Logged) \in Nat
    BY LoggedWithin, IdsFinite
  <2>2. c <= Cardinality(Logged)
    BY <1>1, <2>1, FS_Subset
  <2> QED
    BY <1>2, <2>1, <2>2, LogAssumption
<1>4. s = [n \in 1..c |-> [id |-> o[n], entry |-> View(entry[o[n]])]]
  BY DEF Snapshot
<1>5. ASSUME NEW n \in 1..c
      PROVE  /\ s[n].id = o[n] /\ o[n] \in X /\ o[n] \in Ids /\ o[n] <= nextID
             /\ s[n].entry = View(entry[o[n]])
             /\ s[n].entry.conn \in S /\ s[n] \in Show
  <2>1. o[n] \in X /\ o[n] \in Ids /\ entry[o[n]] # None
    BY <1>1, <1>2 DEF Logged
  <2>2. s[n].id = o[n] /\ s[n].entry = View(entry[o[n]])
    BY <1>4
  <2>3. entry[o[n]] \in Entries /\ entry[o[n]].conn \in S
    BY <2>1 DEF LogInv, Seen
  <2>4. View(entry[o[n]]) \in Entries /\ View(entry[o[n]]).conn = entry[o[n]].conn
    BY <2>3, ViewOf
  <2>5. o[n] <= nextID
    BY <2>1, LogAssumption DEF LogInv, Ids
  <2>6. s[n] \in Show
    BY <1>4, <2>1, <2>4 DEF Show
  <2> QED
    BY <2>1, <2>2, <2>3, <2>4, <2>5, <2>6
<1> HIDE DEF X, c, o
<1>6. s \in Seq(Show) /\ Len(s) = c
  BY <1>2, <1>4, <1>5
<1>7. s \in Shows
  BY <1>3, <1>6 DEF Shows
<1>8. InOrder(s)
  BY <1>2, <1>5, <1>6 DEF InOrder, Ascends
<1>9. \A i \in Seen(S) : \E n \in 1..Len(s) : s[n].id = i
  BY <1>2, <1>5, <1>6 DEF X
<1> QED
  BY <1>5, <1>6, <1>7, <1>8, <1>9 DEF Agrees
-----------------------------------------------------------------------------
(* publish appends to the channels of the interested subscribers, or       *)
(* closes them; the others get nothing.                                    *)
Told(f, conn, u) ==
  \/ /\ queue'[f] = Append(queue[f], u)
     /\ f \in subs /\ conn \in filter[f]
  \/ /\ queue'[f] = queue[f]
     /\ f \in subs' => f \in subs /\ conn \notin filter[f]

LEMMA PublishTells ==
  ASSUME QueueInv, NEW i \in Ids, NEW conn, NEW whole \in Entries \cup {None},
         Publish(i, conn, whole), filter' = filter
  PROVE  QueueInv' /\ \A f \in Followers : Told(f, conn, [id |-> i, whole |-> whole])
<1> DEFINE u == [id |-> i, whole |-> whole]
           interested == {f \in subs : conn \in filter[f]}
           full == {f \in interested : Len(queue[f]) = QueueSize}
<1>1. u \in Updates
  BY DEF Updates
<1>2. /\ subs' = subs \ full
      /\ queue' = [f \in Followers |-> IF f \in interested \ full
                                       THEN Append(queue[f], u) ELSE queue[f]]
  BY DEF Publish
<1>3. ASSUME NEW f \in Followers
      PROVE  /\ queue'[f] \in Seq(Updates) /\ Len(queue'[f]) <= QueueSize
             /\ Told(f, conn, u)
  <2> HIDE DEF u
  <2>1. queue[f] \in Seq(Updates) /\ Len(queue[f]) <= QueueSize
        /\ Len(queue[f]) \in Nat /\ QueueSize \in Nat
    BY LogAssumption DEF QueueInv
  <2>2. CASE f \in interested \ full
    <3>1. queue'[f] = Append(queue[f], u) /\ f \in subs /\ conn \in filter[f]
      BY <1>2, <2>2
    <3>2. Len(queue[f]) # QueueSize
      BY <2>2
    <3>3. Append(queue[f], u) \in Seq(Updates) /\ Len(Append(queue[f], u)) = Len(queue[f]) + 1
      BY <1>1, <2>1
    <3>4. Len(queue[f]) + 1 <= QueueSize
      BY <2>1, <3>2
    <3> QED
      BY <3>1, <3>3, <3>4 DEF Told
  <2>3. CASE f \notin interested \ full
    BY <1>2, <2>1, <2>3 DEF Told
  <2> QED
    BY <2>2, <2>3
<1>4. DOMAIN queue' = Followers /\ queue' = [f \in Followers |-> queue'[f]]
  BY <1>2
<1>5. queue' \in [Followers -> Seq(Updates)]
  BY <1>3, <1>4
<1> QED
  BY <1>2, <1>3, <1>5 DEF QueueInv

(* A UI shows a list at every moment, until it has read its channel; then, *)
(* if it is still subscribed, one that agrees with the log.                *)
Reads(s, q) == \A n \in 0..Len(q) : After(s, q)[n] \in Shows

Follows(f) ==
  /\ Reads(shown[f], queue[f])
  /\ \A s, S : /\ f \in subs /\ S = filter[f]
               /\ s = After(shown[f], queue[f])[Len(queue[f])]
               => Agrees(s, S)

FollowInv ==
  /\ QueueInv /\ LastOnes
  /\ feed \in [Followers -> BOOLEAN]
  /\ shown = [f \in Followers |-> shown[f]]
  /\ \A f \in Followers : Follows(f)

(* One update more, after which the list is t.                             *)
LEMMA ReadsMore ==
  ASSUME NEW s, NEW q \in Seq(Updates), NEW u \in Updates, Reads(s, q),
         Reduce(After(s, q)[Len(q)], u) \in Shows
  PROVE  /\ Reads(s, Append(q, u))
         /\ After(s, Append(q, u))[Len(Append(q, u))] = Reduce(After(s, q)[Len(q)], u)
<1> DEFINE r == Append(q, u)
<1>1. Len(r) = Len(q) + 1 /\ Len(q) \in Nat
  OBVIOUS
<1>2. /\ \A n \in 0..Len(q) : After(s, r)[n] = After(s, q)[n]
      /\ After(s, r)[Len(q) + 1] = Reduce(After(s, q)[Len(q)], u)
  BY AfterAppend
<1> HIDE DEF r
<1>3. ASSUME NEW n \in 0..Len(r) PROVE After(s, r)[n] \in Shows
  <2>1. n \in 0..Len(q) \/ n = Len(q) + 1
    BY <1>1
  <2>2. CASE n \in 0..Len(q)
    BY <1>2, <2>2 DEF Reads
  <2>3. CASE n = Len(q) + 1
    BY <1>2, <2>3
  <2> QED
    BY <2>1, <2>2, <2>3
<1> QED
  BY <1>1, <1>2, <1>3 DEF Reads, r

LEMMA AgreesSame ==
  ASSUME NEW s, NEW S, Agrees(s, S), UNCHANGED <<nextID, entry>>
  PROVE  Agrees(s, S)'
<1>1. Logged' = Logged /\ Seen(S)' = Seen(S) /\ nextID' = nextID /\ entry' = entry
  BY DEF Logged, Seen
<1> QED
  BY <1>1 DEF Agrees


LEMMA Informed ==
  ASSUME NEW f \in Followers, QueueInv, Follows(f), NEW conn, NEW u \in Updates,
         Told(f, conn, u), UNCHANGED <<filter, shown>>,
         \A s, S : Agrees(s, S) /\ conn \notin S => Agrees(s, S)',
         \A s, S, t : Agrees(s, S) /\ conn \in S /\ t = Reduce(s, u) => Agrees(t, S)'
  PROVE  Follows(f)'
<1> DEFINE q == queue[f]
<1>1. q \in Seq(Updates) /\ shown'[f] = shown[f] /\ filter'[f] = filter[f]
  BY DEF QueueInv
<1>2. PICK S : S = filter[f]
  OBVIOUS
<1>3. PICK s : s = After(shown[f], q)[Len(q)]
  OBVIOUS
<1>4. Reads(shown[f], q) /\ (f \in subs => Agrees(s, S))
  BY <1>2, <1>3 DEF Follows
<1>5. CASE queue'[f] = q /\ (f \in subs' => f \in subs /\ conn \notin filter[f])
  <2>1. Reads(shown'[f], queue'[f])
    BY <1>1, <1>4, <1>5 DEF Reads
  <2>2. s = After(shown'[f], queue'[f])[Len(queue'[f])] /\ S = filter'[f]
    BY <1>1, <1>2, <1>3, <1>5
  <2>3. f \in subs' => Agrees(s, S)'
    BY <1>2, <1>4, <1>5
  <2> QED
    BY <2>1, <2>2, <2>3, Zenon DEF Follows
<1>6. CASE queue'[f] = Append(q, u) /\ f \in subs /\ conn \in filter[f]
  <2>1. PICK t : t = Reduce(s, u)
    OBVIOUS
  <2>2. Agrees(t, S)'
    BY <1>2, <1>4, <1>6, <2>1
  <2>3. t \in Shows
    BY <2>2 DEF Agrees
  <2>4. /\ Reads(shown[f], Append(q, u))
        /\ After(shown[f], Append(q, u))[Len(Append(q, u))] = t
    BY <1>1, <1>3, <1>4, <2>1, <2>3, ReadsMore
  <2>5. Reads(shown'[f], queue'[f])
    BY <1>1, <1>6, <2>4
  <2>6. t = After(shown'[f], queue'[f])[Len(queue'[f])] /\ S = filter'[f]
    BY <1>1, <1>2, <1>6, <2>4
  <2> QED
    BY <2>2, <2>5, <2>6, Zenon DEF Follows
<1> QED
  BY <1>5, <1>6 DEF Told
-----------------------------------------------------------------------------
(* What followers show stays right when nothing of it changes, ...         *)
LEMMA StillFollows ==
  ASSUME FollowInv, UNCHANGED <<nextID, entry, subs, queue, filter, feedVars>>
  PROVE  FollowInv'
<1>1. ASSUME NEW f \in Followers PROVE Follows(f)'
  <2>1. Reads(shown'[f], queue'[f])
    BY Zenon DEF FollowInv, Follows, Reads, feedVars
  <2>2. ASSUME NEW s, NEW S, f \in subs', S = filter'[f],
               s = After(shown'[f], queue'[f])[Len(queue'[f])]
        PROVE  Agrees(s, S)'
    <3>1. /\ f \in subs /\ S = filter[f]
          /\ s = After(shown[f], queue[f])[Len(queue[f])]
      BY <2>2, Zenon DEF feedVars
    <3>2. Agrees(s, S)
      BY <3>1, Zenon DEF FollowInv, Follows
    <3> QED
      BY <3>2, AgreesSame
  <2> QED
    BY <2>1, <2>2, Zenon DEF Follows
<1>2. QueueInv'
  BY DEF FollowInv, QueueInv
<1>3. LastOnes'
  BY DEF FollowInv, LastOnes, Logged
<1> QED
  BY <1>1, <1>2, <1>3 DEF FollowInv, feedVars

(* ... when an entry changes, ...                                          *)
LEMMA ChangedFollows ==
  ASSUME LogInv, FollowInv, NEW i \in Ids, NEW new, Changed(i, new), UNCHANGED feedVars
  PROVE  FollowInv'
<1>1. /\ QueueInv /\ LastOnes /\ \A f \in Followers : Follows(f)
      /\ feed' \in [Followers -> BOOLEAN] /\ shown' = [f \in Followers |-> shown'[f]]
  BY DEF FollowInv, feedVars
<1>2. /\ i \in Logged /\ nextID' = nextID /\ new \in Entries
      /\ (MaxBytes = 0 => Logged' = Logged) /\ filter' = filter
  BY ChangedFacts DEF Changed
<1>3. LastOnes'
  BY <1>1, <1>2 DEF LastOnes
<1>4. \A s, S : Agrees(s, S) /\ new.conn \notin S => Agrees(s, S)'
  BY ChangedElsewhere
<1>5. shown' = shown
  BY DEF feedVars
<1>6. ASSUME NEW w \in Entries \cup {None}, Publish(i, new.conn, w),
             \A s, S, t : /\ Agrees(s, S) /\ new.conn \in S
                          /\ t = Reduce(s, [id |-> i, whole |-> w])
                          => Agrees(t, S)'
      PROVE  FollowInv'
  <2>1. QueueInv' /\ \A f \in Followers : Told(f, new.conn, [id |-> i, whole |-> w])
    BY <1>1, <1>2, <1>6, PublishTells
  <2>2. [id |-> i, whole |-> w] \in Updates
    BY DEF Updates
  <2>3. ASSUME NEW f \in Followers PROVE Follows(f)'
    BY <1>1, <1>2, <1>4, <1>5, <1>6, <2>1, <2>2, Informed
  <2> QED
    BY <1>1, <1>3, <2>1, <2>3 DEF FollowInv
<1>7. CASE Publish(i, new.conn, View(new))
  <2>1. View(new) \in Entries \cup {None}
    BY <1>2, ViewOf
  <2>2. \A s, S, t : /\ Agrees(s, S) /\ new.conn \in S
                     /\ t = Reduce(s, [id |-> i, whole |-> View(new)])
                     => Agrees(t, S)'
    BY ChangedWhole
  <2> QED
    BY <1>6, <1>7, <2>1, <2>2
<1>8. CASE /\ new = [entry[i] EXCEPT !.items = @ + 1, !.size = @ + 1]
           /\ Publish(i, new.conn, None)
  <2>1. \A s, S, t : /\ Agrees(s, S) /\ new.conn \in S
                     /\ t = Reduce(s, [id |-> i, whole |-> None])
                     => Agrees(t, S)'
    BY <1>8, ChangedItem
  <2> QED
    BY <1>6, <1>8, <2>1
<1>9. CASE new = entry[i] /\ UNCHANGED <<subs, queue>>
  <2>1. QueueInv'
    BY <1>1, <1>2, <1>9 DEF QueueInv
  <2>2. ASSUME NEW f \in Followers PROVE Follows(f)'
    <3>1. Reads(shown'[f], queue'[f])
      BY <1>1, <1>5, <1>9, Zenon DEF Follows, Reads
    <3>2. ASSUME NEW s, NEW S, f \in subs', S = filter'[f],
                 s = After(shown'[f], queue'[f])[Len(queue'[f])]
          PROVE  Agrees(s, S)'
      <4>1. /\ f \in subs /\ S = filter[f]
            /\ s = After(shown[f], queue[f])[Len(queue[f])]
        BY <1>2, <1>5, <1>9, <3>2, Zenon
      <4>2. Agrees(s, S)
        BY <1>1, <4>1, Zenon DEF Follows
      <4> QED
        BY <1>9, <4>2, ChangedElsewhere
    <3> QED
      BY <3>1, <3>2, Zenon DEF Follows
  <2> QED
    BY <1>1, <1>3, <2>1, <2>2 DEF FollowInv
<1> QED
  BY <1>7, <1>8, <1>9 DEF Changed

(* ... and when one comes in.                                              *)
LEMMA AddedFollows ==
  ASSUME LogInv, FollowInv, NEW new, Added(new), UNCHANGED feedVars
  PROVE  FollowInv'
<1> DEFINE i == nextID + 1
           u == [id |-> i, whole |-> View(new)]
<1>1. /\ QueueInv /\ LastOnes /\ \A f \in Followers : Follows(f)
      /\ feed' \in [Followers -> BOOLEAN] /\ shown' = [f \in Followers |-> shown'[f]]
  BY DEF FollowInv, feedVars
<1>2. i \in Ids /\ new \in Entries /\ filter' = filter /\ Publish(i, new.conn, View(new))
  BY DEF Added
<1>3. LastOnes'
  BY <1>1, AddedLast
<1>4. \A s, S : Agrees(s, S) /\ new.conn \notin S => Agrees(s, S)'
  BY AddedElsewhere
<1>5. \A s, S, t : Agrees(s, S) /\ new.conn \in S /\ t = Reduce(s, u) => Agrees(t, S)'
  BY <1>1, AddedShown
<1>6. shown' = shown /\ View(new) \in Entries \cup {None}
  BY <1>2, ViewOf DEF feedVars
<1>8. PICK w : w = u
  OBVIOUS
<1>9. QueueInv' /\ \A f \in Followers : Told(f, new.conn, u)
  BY <1>1, <1>2, <1>6, PublishTells
<1>10. u \in Updates
  BY <1>2, <1>6 DEF Updates
<1>11. ASSUME NEW f \in Followers PROVE Follows(f)'
  <2> HIDE DEF u
  <2>1. \A s, S, t : Agrees(s, S) /\ new.conn \in S /\ t = Reduce(s, w) => Agrees(t, S)'
    BY <1>5, <1>8
  <2>2. w \in Updates /\ Told(f, new.conn, w)
    BY <1>8, <1>9, <1>10
  <2> QED
    BY <1>1, <1>2, <1>4, <1>6, <2>1, <2>2, Informed
<1> QED
  BY <1>1, <1>3, <1>9, <1>11 DEF FollowInv
-----------------------------------------------------------------------------
(* The followers' own steps.  Another follower's step changes nothing.     *)
LEMMA OtherFollows ==
  ASSUME NEW f \in Followers, Follows(f), UNCHANGED <<nextID, entry>>,
         f \in subs' => f \in subs, queue'[f] = queue[f], filter'[f] = filter[f],
         shown'[f] = shown[f]
  PROVE  Follows(f)'
<1>1. Reads(shown'[f], queue'[f])
  BY Zenon DEF Follows, Reads
<1>2. ASSUME NEW s, NEW S, f \in subs', S = filter'[f],
             s = After(shown'[f], queue'[f])[Len(queue'[f])]
      PROVE  Agrees(s, S)'
  <2>1. /\ f \in subs /\ S = filter[f]
        /\ s = After(shown[f], queue[f])[Len(queue[f])]
    BY <1>2, Zenon
  <2>2. Agrees(s, S)
    BY <2>1, Zenon DEF Follows
  <2> QED
    BY <2>2, AgreesSame
<1> QED
  BY <1>1, <1>2, Zenon DEF Follows

(* With an empty channel, the list is what is shown.                       *)
LEMMA ReadsNothing ==
  ASSUME NEW s \in Shows
  PROVE  /\ <<>> \in Seq(Updates) /\ Reads(s, <<>>)
         /\ After(s, <<>>)[Len(<<>>)] = s
<1>1. <<>> \in Seq(Updates) /\ Len(<<>>) = 0
  OBVIOUS
<1>2. After(s, <<>>)[0] = s
  BY <1>1, AfterEach
<1>3. \A n \in 0..Len(<<>>) : n = 0
  OBVIOUS
<1> QED
  BY <1>1, <1>2, <1>3 DEF Reads

LEMMA DeliverFollows ==
  ASSUME FollowInv, NEW g \in Followers, Deliver(g)
  PROVE  FollowInv'
<1>1. /\ QueueInv /\ LastOnes /\ \A f \in Followers : Follows(f)
      /\ feed \in [Followers -> BOOLEAN] /\ shown = [f \in Followers |-> shown[f]]
  BY DEF FollowInv
<1>2. /\ queue[g] # <<>> /\ shown' = [shown EXCEPT ![g] = Reduce(@, Head(queue[g]))]
      /\ queue' = [queue EXCEPT ![g] = Tail(@)]
      /\ UNCHANGED <<nextID, entry, subs, filter, feed>>
  BY DEF Deliver
<1>3. /\ queue[g] \in Seq(Updates) /\ Len(queue[g]) <= QueueSize /\ QueueSize \in Nat
      /\ queue'[g] = Tail(queue[g]) /\ shown'[g] = Reduce(shown[g], Head(queue[g]))
      /\ shown' = [f \in Followers |-> shown'[f]]
      /\ \A f \in Followers : f # g => queue'[f] = queue[f] /\ shown'[f] = shown[f]
  BY <1>1, <1>2, LogAssumption DEF QueueInv
<1> DEFINE q == queue[g]
<1>4. /\ Tail(q) \in Seq(Updates) /\ Len(Tail(q)) = Len(q) - 1
      /\ Len(q) \in Nat /\ Len(q) >= 1
  BY <1>2, <1>3
<1>5. QueueInv'
  <2>1. ASSUME NEW f \in Followers
        PROVE  queue'[f] \in Seq(Updates) /\ Len(queue'[f]) <= QueueSize
    <3>1. CASE f = g
      <4>1. Len(q) - 1 <= QueueSize
        BY <1>3, <1>4
      <4> QED
        BY <1>3, <1>4, <3>1, <4>1
    <3>2. CASE f # g
      BY <1>1, <1>3, <3>2 DEF QueueInv
    <3> QED
      BY <3>1, <3>2
  <2>2. queue' \in [Followers -> Seq(Updates)]
    BY <1>1, <1>2, <1>4 DEF QueueInv
  <2> QED
    BY <1>1, <1>2, <2>1, <2>2 DEF QueueInv
<1>6. \A n \in 0..Len(Tail(q)) :
        After(Reduce(shown[g], Head(q)), Tail(q))[n] = After(shown[g], q)[n + 1]
  <2> HIDE DEF q
  <2> QED
    BY <1>2, <1>3, AfterTail DEF q
<1>7. Follows(g)'
  <2> HIDE DEF q
  <2>1. Reads(shown'[g], queue'[g])
    <3>1. ASSUME NEW n \in 0..Len(Tail(q))
          PROVE  After(Reduce(shown[g], Head(q)), Tail(q))[n] \in Shows
      <4>1. n + 1 \in 0..Len(q)
        BY <1>4
      <4>2. After(shown[g], q)[n + 1] \in Shows
        BY <1>1, <4>1 DEF Follows, Reads, q
      <4> QED
        BY <1>6, <4>2
    <3> QED
      BY <1>3, <3>1 DEF Reads, q
  <2>2. ASSUME NEW s, NEW S, g \in subs', S = filter'[g],
               s = After(shown'[g], queue'[g])[Len(queue'[g])]
        PROVE  Agrees(s, S)'
    <3>1. s = After(Reduce(shown[g], Head(q)), Tail(q))[Len(Tail(q))]
      BY <1>3, <2>2, Zenon DEF q
    <3>2. Len(Tail(q)) \in 0..Len(Tail(q)) /\ Len(Tail(q)) + 1 = Len(q)
      BY <1>4
    <3>3. s = After(shown[g], q)[Len(q)]
      BY <1>6, <3>1, <3>2
    <3>4. Agrees(s, S)
      BY <1>1, <1>2, <2>2, <3>3, Zenon DEF Follows, q
    <3> QED
      BY <1>2, <3>4, AgreesSame
  <2> QED
    BY <2>1, <2>2, Zenon DEF Follows
<1>8. ASSUME NEW f \in Followers, f # g PROVE Follows(f)'
  BY <1>1, <1>2, <1>3, <1>8, OtherFollows
<1>9. LastOnes'
  BY <1>1, <1>2 DEF LastOnes, Logged
<1> QED
  BY <1>1, <1>2, <1>3, <1>5, <1>7, <1>8, <1>9 DEF FollowInv

(* A follower that starts or stops.                                        *)
LEMMA StartFollows ==
  ASSUME LogInv, FollowInv, NEW g \in Followers, UNCHANGED <<nextID, entry>>,
         NEW S \in SUBSET Connections, NEW s \in Shows,
         subs' \subseteq subs \cup {g}, g \in subs' => Agrees(s, S),
         queue' = [queue EXCEPT ![g] = <<>>],
         filter' = [filter EXCEPT ![g] = S],
         shown' = [shown EXCEPT ![g] = s],
         NEW b \in BOOLEAN, feed' = [feed EXCEPT ![g] = b]
  PROVE  FollowInv'
<1>1. /\ QueueInv /\ LastOnes /\ \A f \in Followers : Follows(f)
      /\ feed \in [Followers -> BOOLEAN] /\ shown = [f \in Followers |-> shown[f]]
  BY DEF FollowInv
<1>2. /\ queue'[g] = <<>> /\ filter'[g] = S /\ shown'[g] = s
      /\ shown' = [f \in Followers |-> shown'[f]]
      /\ feed' \in [Followers -> BOOLEAN]
      /\ \A f \in Followers : f # g => /\ queue'[f] = queue[f] /\ shown'[f] = shown[f]
                                       /\ filter'[f] = filter[f]
  BY <1>1 DEF QueueInv
<1>3. QueueInv'
  <2>1. <<>> \in Seq(Updates) /\ Len(<<>>) <= QueueSize
    BY LogAssumption
  <2>2. queue' \in [Followers -> Seq(Updates)] /\ filter' \in [Followers -> SUBSET Connections]
        /\ subs' \subseteq Followers
    BY <1>1, <2>1 DEF QueueInv
  <2>3. ASSUME NEW f \in Followers PROVE Len(queue'[f]) <= QueueSize
    <3>1. CASE f = g
      BY <1>2, <2>1, <3>1
    <3>2. CASE f # g
      BY <1>1, <1>2, <3>2 DEF QueueInv
    <3> QED
      BY <3>1, <3>2
  <2> QED
    BY <2>2, <2>3 DEF QueueInv
<1>4. Follows(g)'
  <2>1. Reads(shown'[g], queue'[g])
    BY <1>2, ReadsNothing
  <2>2. ASSUME NEW r, NEW R, g \in subs', R = filter'[g],
               r = After(shown'[g], queue'[g])[Len(queue'[g])]
        PROVE  Agrees(r, R)'
    <3>1. r = s /\ R = S
      BY <1>2, <2>2, ReadsNothing
    <3>2. Agrees(r, R)
      BY <2>2, <3>1
    <3> QED
      BY <3>2, AgreesSame
  <2> QED
    BY <2>1, <2>2, Zenon DEF Follows
<1>5. ASSUME NEW f \in Followers, f # g PROVE Follows(f)'
  <2>1. f \in subs' => f \in subs
    BY <1>5
  <2> QED
    BY <1>1, <1>2, <1>5, <2>1, OtherFollows
<1>6. LastOnes'
  BY <1>1 DEF LastOnes, Logged
<1> QED
  BY <1>1, <1>2, <1>3, <1>4, <1>5, <1>6 DEF FollowInv

LEMMA FollowerFollows ==
  ASSUME LogInv, FollowInv, NEW g \in Followers, FollowerStep(g)
  PROVE  FollowInv'
<1>1. /\ subs \subseteq Followers /\ queue \in [Followers -> Seq(Updates)]
      /\ filter \in [Followers -> SUBSET Connections]
  BY DEF FollowInv, QueueInv
<1>2. <<>> \in Shows
  BY LogAssumption DEF Shows
<1>3. CASE Deliver(g)
  BY <1>3, DeliverFollows
<1>4. CASE FellBehind(g)
  <2>1. /\ g \notin subs' /\ UNCHANGED <<nextID, entry>> /\ subs' \subseteq subs \cup {g}
        /\ queue' = [queue EXCEPT ![g] = <<>>]
        /\ filter' = [filter EXCEPT ![g] = filter[g]]
        /\ shown' = [shown EXCEPT ![g] = <<>>]
        /\ feed' = [feed EXCEPT ![g] = FALSE]
    BY <1>1, <1>4 DEF FellBehind, logVars
  <2>2. PICK S \in SUBSET Connections : S = filter[g]
    BY <1>1
  <2>3. filter' = [filter EXCEPT ![g] = S]
    BY <2>1, <2>2
  <2> QED
    BY <1>2, <2>1, <2>3, StartFollows
<1>5. CASE Unfollow(g)
  <2>1. /\ g \notin subs' /\ UNCHANGED <<nextID, entry>> /\ subs' \subseteq subs \cup {g}
        /\ queue' = [queue EXCEPT ![g] = <<>>]
        /\ filter' = [filter EXCEPT ![g] = {}]
        /\ shown' = [shown EXCEPT ![g] = <<>>]
        /\ feed' = [feed EXCEPT ![g] = FALSE]
    BY <1>5 DEF Unfollow, LogUnsubscribe
  <2> QED
    BY <1>2, <2>1, StartFollows
<1>6. ASSUME NEW S \in {Connections} \cup {{conn} : conn \in Connections}, Follow(g, S)
      PROVE  FollowInv'
  <2>1. PICK s : s = Snapshot(S)
    OBVIOUS
  <2>2. /\ UNCHANGED <<nextID, entry>> /\ subs' \subseteq subs \cup {g}
        /\ queue' = [queue EXCEPT ![g] = <<>>]
        /\ filter' = [filter EXCEPT ![g] = S]
        /\ shown' = [shown EXCEPT ![g] = s]
        /\ feed' = [feed EXCEPT ![g] = TRUE]
    BY <1>6, <2>1 DEF Follow, LogSubscribe
  <2>3. Agrees(s, S)
    BY <2>1, SnapshotAgrees
  <2>4. s \in Shows /\ S \in SUBSET Connections
    BY <2>3 DEF Agrees
  <2> QED
    BY <2>2, <2>3, <2>4, StartFollows
<1> QED
  BY <1>3, <1>4, <1>5, <1>6 DEF FollowerStep

LEMMA FollowInit == TrafficInit => FollowInv
<1> SUFFICES ASSUME TrafficInit PROVE FollowInv
  OBVIOUS
<1>1. /\ nextID = 0 /\ subs = {} /\ Logged = {}
      /\ \A f \in Followers : queue[f] = <<>> /\ shown[f] = <<>>
  BY DEF TrafficInit, LogInit, Logged
<1>2. <<>> \in Shows /\ <<>> \in Seq(Updates) /\ Len(<<>>) = 0 /\ QueueSize \in Nat
  BY LogAssumption DEF Shows
<1>3. QueueInv
  <2>1. /\ subs \subseteq Followers /\ queue \in [Followers -> Seq(Updates)]
        /\ filter \in [Followers -> SUBSET Connections]
    BY <1>2 DEF TrafficInit, LogInit
  <2>2. \A f \in Followers : Len(queue[f]) <= QueueSize
    BY <1>1, <1>2
  <2> QED
    BY <2>1, <2>2 DEF QueueInv
<1>4. LastOnes
  BY <1>1, LogAssumption DEF LastOnes, Ids
<1>5. ASSUME NEW f \in Followers PROVE Follows(f)
  <2>1. Reads(shown[f], queue[f])
    BY <1>1, <1>2, ReadsNothing
  <2> QED
    BY <1>1, <2>1 DEF Follows
<1> QED
  BY <1>3, <1>4, <1>5 DEF FollowInv, TrafficInit

LEMMA FollowNext ==
  ASSUME LogInv, ExchangeInv, FollowInv, [TrafficNext]_vars
  PROVE  FollowInv'
<1>1. ASSUME NEW k \in Kinds, NEW conn \in Connections, NEW b \in Weights,
             Send(k, conn, b)
      PROVE  FollowInv'
  <2>1. UNCHANGED feedVars /\ \E new : Added(new)
    BY <1>1, SendSound
  <2> QED
    BY <2>1, AddedFollows
<1>2. ASSUME NEW i \in Ids, Exchange(i) PROVE FollowInv'
  <2>1. UNCHANGED feedVars /\ ChangedOrNot(i)
    BY <1>2, ExchangeSound
  <2>2. CASE UNCHANGED logVars
    BY <2>1, <2>2, StillFollows DEF logVars
  <2>3. CASE \E new : Changed(i, new)
    BY <2>1, <2>3, ChangedFollows
  <2> QED
    BY <2>1, <2>2, <2>3 DEF ChangedOrNot
<1>3. ASSUME NEW f \in Followers, FollowerStep(f) PROVE FollowInv'
  BY <1>3, FollowerFollows
<1>4. CASE UNCHANGED vars
  BY <1>4, StillFollows DEF vars, logVars
<1> QED
  BY <1>1, <1>2, <1>3, <1>4, StepSplit

TrafficInv == LogInv /\ ExchangeInv /\ FollowInv

LEMMA TrafficAlways == TrafficSpec => []TrafficInv
<1>1. TrafficInit => TrafficInv
  BY LogInit0, FollowInit DEF TrafficInv
<1>2. TrafficInv /\ [TrafficNext]_vars => TrafficInv'
  BY LogNext, FollowNext DEF TrafficInv
<1> QED
  BY <1>1, <1>2, PTL DEF TrafficSpec
-----------------------------------------------------------------------------
(* The log counts the bytes of what it keeps and stays within its limits,  *)
(* for every limit and whatever exchanges and followers do: the accounts   *)
(* of add, update, finish, addFrame and makeRoom in log.go.                *)
THEOREM LogStaysSound == TrafficSpec => []TrafficSound
<1>1. ASSUME TrafficInv PROVE TrafficSound
  <2>1. LogInv /\ ExchangeInv /\ FollowInv /\ QueueInv
    BY <1>1 DEF TrafficInv, FollowInv
  <2>2. ASSUME NEW f \in Followers
        PROVE  /\ Len(queue[f]) <= QueueSize
               /\ \A n \in 1..Len(queue[f]) : queue[f][n] \in Updates
    BY <2>1 DEF QueueInv
  <2>3. ASSUME NEW f \in Followers, NEW n \in 1..Len(shown[f])
        PROVE  shown[f][n] \in [id : Ids, entry : Entries]
    <3>1. 0 \in 0..Len(queue[f]) /\ queue[f] \in Seq(Updates)
      BY <2>1 DEF QueueInv
    <3>2. After(shown[f], queue[f])[0] \in Shows
      BY <2>1, <3>1 DEF FollowInv, Follows, Reads
    <3>3. shown[f] \in Shows
      BY <3>1, <3>2, AfterEach
    <3> QED
      BY <2>3, <3>3, Shown DEF Show
  <2>4. LogTypeOK
    BY <2>1, <2>2 DEF LogTypeOK, LogInv, QueueInv
  <2>5. TrafficTypeOK
    BY <2>1, <2>3, <2>4 DEF TrafficTypeOK, ExchangeInv, FollowInv
  <2> QED
    BY <2>1, <2>5 DEF TrafficSound, LogInv
<1> QED
  BY <1>1, TrafficAlways, PTL

(* What FollowersAgree says of one follower.                               *)
Right(s, S) ==
  LET alive == {n \in DOMAIN s : s[n].id \in Logged}
  IN /\ \A n \in alive : s[n].entry = View(entry[s[n].id])
     /\ Len(s) < Capacity \/ MaxBytes = 0 =>
          /\ {s[n].id : n \in alive} = Seen(S)
          /\ \A m, n \in alive : m < n => s[m].id < s[n].id

(* A UI that follows the log shows of it what the log has, once it got     *)
(* what is in its channel: the snapshot of Subscribe, publish and the      *)
(* reducer of traffic.ts neither miss a change nor make one twice.         *)
THEOREM UIsFollow == TrafficSpec => []FollowersAgree
<1>1. ASSUME TrafficInv PROVE FollowersAgree
  <2>1. SUFFICES ASSUME NEW f \in subs
        PROVE  Right(After(shown[f], queue[f])[Len(queue[f])], filter[f])
    BY DEF FollowersAgree, Right
  <2>a. PICK s : s = After(shown[f], queue[f])[Len(queue[f])]
    OBVIOUS
  <2>b. SUFFICES Right(s, filter[f])
    BY <2>a, Zenon
  <2> DEFINE alive == {n \in DOMAIN s : s[n].id \in Logged}
  <2>2. Agrees(s, filter[f])
    BY <1>1, <2>a DEF TrafficInv, FollowInv, QueueInv, Follows
  <2>3. s \in Shows /\ DOMAIN s = 1..Len(s)
    BY <2>2, Shown DEF Agrees
  <2>4. \A n \in alive : n \in 1..Len(s) /\ s[n].entry = View(entry[s[n].id])
    BY <2>2, <2>3 DEF Agrees
  <2>5. ASSUME Len(s) < Capacity \/ MaxBytes = 0
        PROVE  /\ {s[n].id : n \in alive} = Seen(filter[f])
               /\ \A m, n \in alive : m < n => s[m].id < s[n].id
    <3>1. /\ InOrder(s)
          /\ \A i \in Seen(filter[f]) : \E n \in 1..Len(s) : s[n].id = i
      BY <2>2, <2>5 DEF Agrees
    <3>2. ASSUME NEW n \in alive PROVE s[n].id \in Seen(filter[f])
      <4>1. /\ n \in 1..Len(s) /\ s[n].id \in Logged
            /\ s[n].entry = View(entry[s[n].id]) /\ s[n].entry.conn \in filter[f]
        BY <2>2, <2>4 DEF Agrees
      <4>2. entry[s[n].id] \in Entries
        BY <1>1, <4>1 DEF TrafficInv, LogInv, Logged
      <4> QED
        BY <4>1, <4>2, ViewOf DEF Seen
    <3>3. ASSUME NEW i \in Seen(filter[f]) PROVE \E n \in alive : s[n].id = i
      BY <2>3, <3>1 DEF Seen
    <3> QED
      BY <2>4, <3>1, <3>2, <3>3 DEF InOrder
  <2> QED
    BY <2>4, <2>5 DEF Right
<1> QED
  BY <1>1, TrafficAlways, PTL
=============================================================================
