------------------------------- MODULE Traffic -------------------------------
(***************************************************************************)
(* Exchanges with agents recorded in the traffic log, and the UIs that     *)
(* follow it.                                                              *)
(*                                                                         *)
(* An exchange is an HTTP request (src/internal/traffic/http.go), whose    *)
(* response is a body or a stream of events, or a gRPC call (grpc.go),     *)
(* unary or streaming.  The goroutine that reads a stream and the one that *)
(* closes it, or sees its context end, are different ones.                 *)
(*                                                                         *)
(* A follower is a run of handleTraffic (src/internal/server/traffic.go)   *)
(* and the UI at its end (trafficReducer of src/ui/src/traffic.ts).        *)
(***************************************************************************)
EXTENDS TrafficLog

VARIABLES
  kind,    \* what each exchange is
  phase,   \* where its goroutine is
  chunk,   \* what it read from the network and did not record yet
  feed,    \* whether each follower's handleTraffic runs
  shown    \* the entries each connected UI shows, in its order

exchangeVars == <<kind, phase, chunk>>
feedVars == <<feed, shown>>
vars == <<logVars, exchangeVars, feedVars>>

Kinds == {"http", "unary", "stream"}
Chunks == [item : BOOLEAN, end : BOOLEAN]
Nothing == [item |-> FALSE, end |-> FALSE]

TrafficTypeOK ==
  /\ LogTypeOK
  /\ kind \in [Ids -> Kinds \cup {None}]
  /\ phase \in [Ids -> {"new", "sent", "called", "stream", "ending", "body",
                        "over"}]
  /\ chunk \in [Ids -> Chunks]
  /\ feed \in [Followers -> BOOLEAN]
  /\ \A f \in Followers : \A n \in 1..Len(shown[f]) :
       shown[f][n] \in [id : Ids, entry : Entries]

TrafficInit ==
  /\ LogInit
  /\ kind = [i \in Ids |-> None]
  /\ phase = [i \in Ids |-> "new"]
  /\ chunk = [i \in Ids |-> Nothing]
  /\ feed = [f \in Followers |-> FALSE]
  /\ shown = [f \in Followers |-> <<>>]

Goto(i, label) == phase' = [phase EXCEPT ![i] = label]

(* The entry i with b more units of headers, body or error.                *)
With(i, b) == IF entry[i] = None THEN None
              ELSE [entry[i] EXCEPT !.body = @ + b]

-----------------------------------------------------------------------------
UnderWay == {i \in Ids : phase[i] \notin {"new", "over"}}

(* RoundTrip and startGRPC: the request is logged.                         *)
Send(k, conn, b) ==
  /\ Cardinality(UnderWay) < AtOnce
  /\ LogAdd([conn |-> conn, items |-> 0, body |-> b, truncated |-> FALSE,
             done |-> FALSE, size |-> 0])
  /\ kind' = [kind EXCEPT ![nextID + 1] = k]
  /\ Goto(nextID + 1, "sent")
  /\ UNCHANGED <<chunk, feedVars>>

(* The exchange is over with what it answered, or failed with.             *)
Finishes(i, b) ==
  /\ LogFinish(i, With(i, b))
  /\ Goto(i, "over")

(* RoundTrip: no response, one that is read at once, or one that breaks    *)
(* off.  gRPC: the call fails before a stream or a reply.                  *)
Respond(i, b) ==
  /\ phase[i] \in {"sent", "called"}
  /\ Finishes(i, b)
  /\ UNCHANGED <<kind, chunk, feedVars>>

(* RoundTrip: a response too large to read now finishes when it is closed. *)
RespondTruncated(i) ==
  /\ phase[i] = "sent" /\ kind[i] = "http"
  /\ LET e == With(i, 1) IN
       LogUpdate(i, IF e = None THEN None ELSE [e EXCEPT !.truncated = TRUE])
  /\ Goto(i, "body")
  /\ UNCHANGED <<kind, chunk, feedVars>>

(* finishingBody.Close                                                     *)
CloseBody(i) ==
  /\ phase[i] = "body"
  /\ Finishes(i, 0)
  /\ UNCHANGED <<kind, chunk, feedVars>>

(* RoundTrip: the headers of an event stream.  streamInterceptor: a stream *)
(* and the goroutine that waits for its context.                           *)
StreamStarts(i) ==
  /\ phase[i] = "sent" /\ kind[i] \in {"http", "stream"}
  /\ IF kind[i] = "http" THEN LogUpdate(i, With(i, 1)) ELSE UNCHANGED logVars
  /\ Goto(i, "stream")
  /\ UNCHANGED <<kind, chunk, feedVars>>

(* unaryInterceptor logs the request's message and invokes the call, which *)
(* answers one message.                                                    *)
Call(i) ==
  /\ phase[i] = "sent" /\ kind[i] = "unary"
  /\ LogAppend(i)
  /\ Goto(i, "called")
  /\ UNCHANGED <<kind, chunk, feedVars>>

Reply(i) ==
  /\ phase[i] = "called"
  /\ LogAppend(i)
  /\ Goto(i, "ending")
  /\ UNCHANGED <<kind, chunk, feedVars>>

(* streamBody.Read returns from the network, or RecvMsg and SendMsg have a *)
(* message, before they record it.  The last bytes of a body may come with *)
(* its end.                                                                *)
Read(i, c) ==
  /\ phase[i] = "stream" /\ chunk[i] = Nothing
  /\ c # Nothing
  /\ kind[i] = "stream" => ~(c.item /\ c.end)
  /\ chunk' = [chunk EXCEPT ![i] = c]
  /\ UNCHANGED <<logVars, kind, phase, feedVars>>

(* Mutant: streamBody.Read records events of a closed stream.              *)
RecordClosed(i) ==
  /\ kind[i] = "http" /\ chunk[i] # Nothing
  /\ IF chunk[i].item THEN LogAppend(i) ELSE UNCHANGED logVars
  /\ Goto(i, IF phase[i] = "stream" /\ chunk[i].end THEN "ending" ELSE phase[i])
  /\ chunk' = [chunk EXCEPT ![i] = Nothing]
  /\ UNCHANGED <<kind, feedVars>>

(* streamBody.Read records under b.mu what it read, unless the body was    *)
(* closed meanwhile; at the end of the stream it goes on to finish.        *)
Record(i) ==
  /\ kind[i] = "http" /\ chunk[i] # Nothing
  /\ IF phase[i] = "stream" /\ chunk[i].item THEN LogAppend(i)
                                             ELSE UNCHANGED logVars
  /\ Goto(i, IF phase[i] = "stream" /\ chunk[i].end THEN "ending" ELSE phase[i])
  /\ chunk' = [chunk EXCEPT ![i] = Nothing]
  /\ UNCHANGED <<kind, feedVars>>

(* end, for the goroutine that holds b.mu; and the last step of a unary    *)
(* call.                                                                   *)
End(i) ==
  /\ phase[i] = "ending"
  /\ Finishes(i, 0)
  /\ UNCHANGED <<kind, chunk, feedVars>>

(* recordingStream records a message whether or not the stream is over; at *)
(* its end, once.Do finishes a stream that is not.                         *)
RecordMessage(i) ==
  /\ kind[i] = "stream" /\ chunk[i] # Nothing
  /\ IF chunk[i].item THEN LogAppend(i) /\ UNCHANGED phase
     ELSE IF phase[i] = "stream" THEN Finishes(i, 0)
     ELSE UNCHANGED <<logVars, phase>>
  /\ chunk' = [chunk EXCEPT ![i] = Nothing]
  /\ UNCHANGED <<kind, feedVars>>

(* streamBody.Close, or the end of a gRPC stream's context.                *)
CloseStream(i) ==
  /\ phase[i] = "stream"
  /\ Finishes(i, 1)
  /\ UNCHANGED <<kind, chunk, feedVars>>

-----------------------------------------------------------------------------
(* The numbers of S, the oldest first.                                     *)
Oldest(S) ==
  CHOOSE s \in [1..Cardinality(S) -> S] :
    \A m, n \in DOMAIN s : m < n => s[m] < s[n]

(* The logged entries of the connections S.                                *)
Seen(S) == {i \in Logged : entry[i].conn \in S}

Snapshot(S) ==
  [n \in 1..Cardinality(Seen(S)) |->
     LET i == Oldest(Seen(S))[n] IN [id |-> i, entry |-> View(entry[i])]]

(* handleTraffic subscribes, and the UI shows the snapshot.                *)
Follow(f, S) ==
  /\ ~feed[f]
  /\ LogSubscribe(f, S)
  /\ feed' = [feed EXCEPT ![f] = TRUE]
  /\ shown' = [shown EXCEPT ![f] = Snapshot(S)]
  /\ UNCHANGED exchangeVars

Position(s, i) == {n \in DOMAIN s : s[n].id = i}

(* trafficReducer: "entry" replaces or adds an entry, of which the UI      *)
(* keeps as many as the log; "frame" and "message" add to the entry.       *)
Reduce(s, u) ==
  IF u.whole = None
  THEN [n \in DOMAIN s |->
          IF s[n].id = u.id THEN [s[n] EXCEPT !.entry.items = @ + 1] ELSE s[n]]
  ELSE IF Position(s, u.id) # {}
  THEN [n \in DOMAIN s |->
          IF s[n].id = u.id THEN [s[n] EXCEPT !.entry = u.whole] ELSE s[n]]
  ELSE LET more == Append(s, [id |-> u.id, entry |-> u.whole])
       IN SubSeq(more, Max({1, Len(more) - Capacity + 1}), Len(more))

(* What a UI that shows s does after each of the updates q.                *)
After(s, q) ==
  LET after[n \in 0..Len(q)] == IF n = 0 THEN s ELSE Reduce(after[n - 1], q[n])
  IN after

Deliver(f) ==
  /\ feed[f] /\ queue[f] # <<>>
  /\ shown' = [shown EXCEPT ![f] = Reduce(@, Head(queue[f]))]
  /\ queue' = [queue EXCEPT ![f] = Tail(@)]
  /\ UNCHANGED <<nextID, entry, bytes, subs, filter, exchangeVars, feed>>

(* handleTraffic returns: its channel was closed, because the UI fell      *)
(* behind, or the UI went away or the session ended.                       *)
FellBehind(f) ==
  /\ feed[f] /\ f \notin subs /\ queue[f] = <<>>
  /\ feed' = [feed EXCEPT ![f] = FALSE]
  /\ shown' = [shown EXCEPT ![f] = <<>>]
  /\ UNCHANGED <<logVars, exchangeVars>>

Unfollow(f) ==
  /\ feed[f]
  /\ LogUnsubscribe(f)
  /\ feed' = [feed EXCEPT ![f] = FALSE]
  /\ shown' = [shown EXCEPT ![f] = <<>>]
  /\ UNCHANGED exchangeVars

-----------------------------------------------------------------------------
Exchange(i) ==
  \/ RespondTruncated(i) \/ CloseBody(i) \/ Call(i) \/ Reply(i)
  \/ StreamStarts(i) \/ Record(i) \/ RecordMessage(i) \/ End(i)
  \/ CloseStream(i)
  \/ \E c \in Chunks : Read(i, c)
  \/ \E b \in Weights : Respond(i, b)

TrafficNext ==
  \/ \E k \in Kinds, conn \in Connections, b \in Weights : Send(k, conn, b)
  \/ \E i \in Ids : Exchange(i)
  \/ \E f \in Followers :
       \/ Deliver(f) \/ FellBehind(f) \/ Unfollow(f)
       \/ \E S \in {Connections} \cup {{conn} : conn \in Connections} :
            Follow(f, S)

TrafficSpec == TrafficInit /\ [][TrafficNext]_vars
-----------------------------------------------------------------------------
(* The log's accounts are right and its limits kept, whatever exchanges    *)
(* write to it and followers read of it.                                   *)
TrafficSound == TrafficTypeOK /\ BytesAccounted /\ WithinBudget

(* What a UI shows of the entries still logged, once it got what is in its *)
(* channel, is what the log has: the snapshot and the updates after it     *)
(* neither miss a change nor repeat one.  A UI that shows as many entries  *)
(* as it may can have dropped one that makeRoom spared, which only a log   *)
(* with a byte limit does; without one, it has them all, in their order.   *)
FollowersAgree ==
  \A f \in subs :
    LET s == After(shown[f], queue[f])[Len(queue[f])]
        alive == {n \in DOMAIN s : s[n].id \in Logged}
    IN /\ \A n \in alive : s[n].entry = View(entry[s[n].id])
       /\ Len(s) < Capacity \/ MaxBytes = 0 =>
            /\ {s[n].id : n \in alive} = Seen(filter[f])
            /\ \A m, n \in alive : m < n => s[m].id < s[n].id

(* An exchange that is over does not change any more, although the reader  *)
(* of a stream and whoever closes it race.  A gRPC stream still gets the   *)
(* message that was read when its context ended.                           *)
FinishedStays ==
  [][\A i \in Logged :
       entry[i].done /\ entry'[i] # None =>
         \/ entry'[i] = entry[i]
         \/ kind[i] = "stream" /\ entry'[i].body = entry[i].body]_vars

(* A UI that keeps up learns that an exchange is over; one that does not   *)
(* is cut off, to start again from a snapshot.                             *)
OverIsShown ==
  \A f \in Followers, i \in Ids :
    (feed[f] /\ entry[i] # None /\ entry[i].done /\ entry[i].conn \in filter[f])
      ~> \/ ~feed[f] \/ entry[i] = None
         \/ \E n \in Position(shown[f], i) : shown[f][n].entry.done
=============================================================================
