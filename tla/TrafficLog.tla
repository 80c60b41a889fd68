----------------------------- MODULE TrafficLog -----------------------------
(***************************************************************************)
(* The traffic log of a session (src/internal/traffic/log.go): a ring      *)
(* buffer of entries with a limit on their number and one on their bytes,  *)
(* and the subscribers that follow it through bounded channels.  Every     *)
(* method runs under l.mu, so each is one operator on the whole state, for *)
(* module Traffic to call from the exchanges it records.                   *)
(*                                                                         *)
(* Entries are known by their numbers, which also order them.  A frame, a  *)
(* message, a header block or a body weighs one unit or a few; what is in  *)
(* it does not matter, only that it is there once.                         *)
(***************************************************************************)
EXTENDS Integers, Sequences, FiniteSetsExt

CONSTANTS Connections,   \* the connections whose calls are recorded
          Followers,     \* the subscribers
          Capacity,      \* entries the log keeps, and the UI
          MaxBytes,      \* units the log keeps, 0 for no limit
          MaxFrames,     \* frames or messages one entry keeps
          QueueSize,     \* subscriberQueue
          LastID,        \* bound: entries added in a behaviour
          AtOnce,        \* bound: exchanges under way at once
          Weights,       \* the units of a request, and of an answer
          None           \* no such entry

Ids == 1..LastID

(* What an entry shows; size is for the log's accounts only.               *)
Entries == [conn : Connections, items : 0..MaxFrames, body : Nat,
            truncated : BOOLEAN, done : BOOLEAN, size : Nat]

(* NewLog replaces a capacity of 0 by a default one.                       *)
ASSUME LogAssumption ==
  /\ Capacity \in Nat \ {0}
  /\ {MaxBytes, MaxFrames, QueueSize, LastID} \subseteq Nat
  /\ Weights \subseteq Nat
  /\ None \notin Entries

VARIABLES
  nextID,   \* l.nextID
  entry,    \* the entries of l.entries by number, None if not (or no longer)
  bytes,    \* l.bytes
  subs,     \* l.subs
  queue,    \* what is in each subscriber's channel
  filter    \* the connections a subscriber asked for

logVars == <<nextID, entry, bytes, subs, queue, filter>>

Updates == [id : Ids, whole : Entries \cup {None}]

LogTypeOK ==
  /\ nextID \in 0..LastID
  /\ entry \in [Ids -> Entries \cup {None}]
  /\ bytes \in Nat
  /\ subs \subseteq Followers
  /\ \A f \in Followers : /\ Len(queue[f]) <= QueueSize
                          /\ \A n \in 1..Len(queue[f]) : queue[f][n] \in Updates
  /\ filter \in [Followers -> SUBSET Connections]

LogInit ==
  /\ nextID = 0
  /\ entry = [i \in Ids |-> None]
  /\ bytes = 0
  /\ subs = {}
  /\ queue = [f \in Followers |-> <<>>]
  /\ filter = [f \in Followers |-> {}]

Logged == {i \in Ids : entry[i] # None}

(* entrySize: something for the entry itself, and for all it holds.        *)
EntrySize(e) == 1 + e.body + e.items

SizeOf(S) == SumFunction([i \in S |-> entry[i].size])

-----------------------------------------------------------------------------
(* Mutant: makeRoom stops at the entry it keeps.                           *)
FreedBefore(S, keep, t) == {i \in S : i < t /\ i < keep}

(* The entries of S that makeRoom drops when it goes on up to number t.    *)
Freed(S, keep, t) == {i \in S : i < t /\ i # keep}

(* makeRoom: with b bytes in use by the entries S, the entries left and    *)
(* the bytes they use, once the oldest but keep are gone that n more need. *)
MakeRoom(S, b, keep, n) ==
  LET after(t) == b - SizeOf(Freed(S, keep, t))
      enough == {t \in 0..LastID : after(t) + n <= MaxBytes}
      t == IF MaxBytes = 0 THEN 0
           ELSE IF enough = {} THEN LastID + 1 ELSE Min(enough)
  IN [kept |-> S \ Freed(S, keep, t), bytes |-> after(t)]

Fits(room, n) == MaxBytes = 0 \/ room.bytes + n <= MaxBytes

(* The copy of an entry that subscribers get.                              *)
View(e) == [e EXCEPT !.size = 0]

(* Mutant: publish skips a subscriber whose channel is full.               *)
PublishLossy(i, conn, whole) ==
  /\ subs' = subs
  /\ queue' = [f \in Followers |->
       IF f \in subs /\ conn \in filter[f] /\ Len(queue[f]) < QueueSize
       THEN Append(queue[f], [id |-> i, whole |-> whole]) ELSE queue[f]]

(* publish: a subscriber whose channel is full is dropped instead.         *)
Publish(i, conn, whole) ==
  LET interested == {f \in subs : conn \in filter[f]}
      full == {f \in interested : Len(queue[f]) = QueueSize}
  IN /\ subs' = subs \ full
     /\ queue' = [f \in Followers |->
          IF f \in interested \ full
          THEN Append(queue[f], [id |-> i, whole |-> whole]) ELSE queue[f]]

(* resize and publish for the entry e, whose number is i, among the        *)
(* entries S that take b bytes without what changed.                       *)
Resize(i, e, S, b) ==
  LET sized == [e EXCEPT !.size = EntrySize(e)]
      room == MakeRoom(S, b + sized.size - e.size, i, 0)
  IN /\ bytes' = room.bytes
     /\ entry' = [x \in Ids |-> IF x = i THEN sized
                                ELSE IF x \in room.kept THEN entry[x] ELSE None]
     /\ Publish(i, e.conn, View(sized))

(* add                                                                     *)
LogAdd(e) ==
  LET i    == nextID + 1
      over == IF Cardinality(Logged) = Capacity THEN {Min(Logged)} ELSE {}
  IN /\ i \in Ids
     /\ nextID' = i
     /\ Resize(i, [e EXCEPT !.size = 0], Logged \ over, bytes - SizeOf(over))
     /\ UNCHANGED filter

(* update: an entry that was dropped is ignored.                           *)
LogUpdate(i, e) ==
  IF entry[i] = None THEN UNCHANGED logVars
  ELSE Resize(i, e, Logged, bytes) /\ UNCHANGED <<nextID, filter>>

(* finish: an entry that is over stays as it is, and is published again.   *)
LogFinish(i, e) ==
  IF entry[i] # None /\ entry[i].done THEN LogUpdate(i, entry[i])
  ELSE LogUpdate(i, [e EXCEPT !.done = TRUE])

(* Mutant: the entry's truncation is not published.                        *)
LogAppendQuietly(i) ==
  LET room == MakeRoom(Logged, bytes, i, 1)
      e == entry[i]
  IN IF e = None THEN UNCHANGED logVars
     ELSE LET fits == e.items < MaxFrames /\ Fits(room, 1)
              new == IF fits THEN [e EXCEPT !.items = @ + 1, !.size = @ + 1]
                             ELSE [e EXCEPT !.truncated = TRUE]
              kept == IF e.items < MaxFrames THEN room.kept ELSE Logged
          IN /\ entry' = [x \in Ids |-> IF x = i THEN new
                                        ELSE IF x \in kept THEN entry[x] ELSE None]
             /\ bytes' = IF e.items < MaxFrames
                         THEN room.bytes + (new.size - e.size) ELSE bytes
             /\ IF fits THEN Publish(i, e.conn, None)
                        ELSE UNCHANGED <<subs, queue>>
             /\ UNCHANGED <<nextID, filter>>

(* addFrame and addMessage: one more item, unless the entry has too many   *)
(* or there is no room for it.  makeRoom has dropped the others by then.   *)
LogAppend(i) ==
  LET room == MakeRoom(Logged, bytes, i, 1)
      e == entry[i]
  IN IF e = None THEN UNCHANGED logVars
     ELSE LET fits == e.items < MaxFrames /\ Fits(room, 1)
              new == IF fits THEN [e EXCEPT !.items = @ + 1, !.size = @ + 1]
                             ELSE [e EXCEPT !.truncated = TRUE]
              kept == IF e.items < MaxFrames THEN room.kept ELSE Logged
          IN /\ entry' = [x \in Ids |-> IF x = i THEN new
                                        ELSE IF x \in kept THEN entry[x] ELSE None]
             /\ bytes' = IF e.items < MaxFrames
                         THEN room.bytes + (new.size - e.size) ELSE bytes
             /\ IF fits THEN Publish(i, e.conn, None)
                ELSE IF ~e.truncated THEN Publish(i, e.conn, View(new))
                ELSE UNCHANGED <<subs, queue>>
             /\ UNCHANGED <<nextID, filter>>

(* Subscribe to the entries of the connections S, or of all.  The snapshot *)
(* is what is logged.                                                      *)
LogSubscribe(f, S) ==
  /\ subs' = subs \cup {f}
  /\ queue' = [queue EXCEPT ![f] = <<>>]
  /\ filter' = [filter EXCEPT ![f] = S]
  /\ UNCHANGED <<nextID, entry, bytes>>

(* The cancel function that Subscribe returns.                             *)
LogUnsubscribe(f) ==
  /\ subs' = subs \ {f}
  /\ queue' = [queue EXCEPT ![f] = <<>>]
  /\ filter' = [filter EXCEPT ![f] = {}]
  /\ UNCHANGED <<nextID, entry, bytes>>

-----------------------------------------------------------------------------
(* The byte count that makeRoom decides by is the size of what is logged,  *)
(* through evictions, changed entries, appended frames and dropped ones.   *)
BytesAccounted ==
  /\ bytes = SizeOf(Logged)
  /\ \A i \in Logged : entry[i].size = EntrySize(entry[i])

(* The log stays within its limits (NewLog's comment); only an entry that  *)
(* alone exceeds the bytes stays, and then nothing else does.              *)
WithinBudget ==
  /\ Cardinality(Logged) <= Capacity
  /\ MaxBytes > 0 /\ bytes > MaxBytes => Cardinality(Logged) = 1
=============================================================================
