--------------------------- MODULE ReplayArbiter ---------------------------
(***************************************************************************)
(* The single-writer replay arbiter (src/sut/replay_arbiter/__main__.py),  *)
(* its client RemoteJtiCache (src/sut/authz/replay_client.py) and the      *)
(* harness that kills it (src/harness/replay_arbiter.py).                  *)
(*                                                                         *)
(* A client opens one TCP connection per request, writes one line, reads   *)
(* one line and closes.  The arbiter accepts in connection order and       *)
(* serves each connection to completion before the next: that is where     *)
(* concurrent SUT processes serialise.  A client that times out closes its *)
(* end, but the line it wrote is still in the socket and is served later.  *)
(*                                                                         *)
(* lastGrant, horizon and granted are history variables.                   *)
(***************************************************************************)
EXTENDS ReplayCache, Sequences

CONSTANTS Requests,   \* the connections that may be opened, one request each
          Asks,       \* the request lines clients may send
          FillKeys    \* the sequence of ids the bulk `fill` operation inserts

AllAsks == [op : {"consume"}, key : Keys, now : Instants]
             \cup [op : {"fill"}, now : Instants]

ASSUME ArbiterAssumption ==
  /\ Asks \subseteq AllAsks
  /\ FillKeys \in Seq(Keys)

VARIABLES
  pc,         \* pc[r]: where the client of r is in RemoteJtiCache._round_trip
  ask,        \* ask[r]: the request line r carries
  verdict,    \* verdict[r]: what `consume` returned to its caller
  written,    \* the requests whose line is in the socket
  backlog,    \* the connections not served yet, in accept order
  reply,      \* reply[r]: the line the arbiter wrote back
  failMode,   \* --fail-mode: answer every request with an error
  up,         \* is the arbiter process alive?
  entries,    \* JtiCache._entries
  filled,     \* how far the fill loop of the connection being served has got
  lastGrant,  \* history: the `now` of the last admission of each id
  horizon,    \* history: the latest `now` the cache was asked about
  granted     \* history: the requests the arbiter admitted

clientVars  == <<pc, ask, verdict>>
historyVars == <<lastGrant, horizon, granted>>
vars == <<pc, ask, verdict, written, backlog, reply, failMode, up, entries, filled,
          lastGrant, horizon, granted>>

Never == -1
None == "none"

NoAsk == [op |-> None]

Later(a, b) == IF a >= b THEN a ELSE b

TypeOK ==
  /\ pc \in [Requests -> {"idle", "connected", "awaiting", "done"}]
  /\ ask \in [Requests -> Asks \cup {NoAsk}]
  /\ verdict \in [Requests -> Outcomes \cup {None}]
  /\ written \subseteq Requests
  /\ backlog \in Seq(Requests)
  /\ reply \in [Requests -> Outcomes \cup {"error", "counts", None}]
  /\ failMode \in BOOLEAN
  /\ up \in BOOLEAN
  /\ IsCache(entries)
  /\ filled \in 0 .. Len(FillKeys)
  /\ lastGrant \in [Keys -> Instants \cup {Never}]
  /\ horizon \in Instants \cup {Never}
  /\ granted \subseteq Requests

Init ==
  /\ pc = [r \in Requests |-> "idle"]
  /\ ask = [r \in Requests |-> NoAsk]
  /\ verdict = [r \in Requests |-> None]
  /\ written = {}
  /\ backlog = <<>>
  /\ reply = [r \in Requests |-> None]
  /\ failMode \in BOOLEAN
  /\ up = TRUE
  /\ entries = EmptyCache
  /\ filled = 0
  /\ lastGrant = [k \in Keys |-> Never]
  /\ horizon = Never
  /\ granted = {}

-----------------------------------------------------------------------------
(* The client.                                                             *)

(* `consume` returns: the verdict its caller sees, or none if it died. *)
Return(r, v) ==
  /\ pc' = [pc EXCEPT ![r] = "done"]
  /\ verdict' = [verdict EXCEPT ![r] = v]

Connect(r, a) ==
  /\ pc[r] = "idle" /\ up
  /\ pc' = [pc EXCEPT ![r] = "connected"]
  /\ ask' = [ask EXCEPT ![r] = a]
  /\ backlog' = Append(backlog, r)
  /\ UNCHANGED <<failMode, verdict, written, reply, up, entries, filled, historyVars>>

ConnectRefused(r) ==
  /\ pc[r] = "idle" /\ ~up
  /\ Return(r, "capacity")
  /\ UNCHANGED <<failMode, ask, written, backlog, reply, up, entries, filled, historyVars>>

Send(r) ==
  /\ pc[r] = "connected" /\ up
  /\ pc' = [pc EXCEPT ![r] = "awaiting"]
  /\ written' = written \cup {r}
  /\ UNCHANGED <<failMode, ask, verdict, backlog, reply, up, entries, filled, historyVars>>

(* A reply that is not one of the three outcomes is a denial. *)
Receive(r) ==
  /\ pc[r] = "awaiting" /\ reply[r] # None
  /\ Return(r, IF reply[r] \in Outcomes THEN reply[r] ELSE "capacity")
  /\ reply' = [reply EXCEPT ![r] = None]
  /\ UNCHANGED <<failMode, ask, written, backlog, up, entries, filled, historyVars>>

(* Seeded fault: no answer is taken for an admission (fail open). *)
NoReplyAdmits(r) ==
  /\ \/ pc[r] = "awaiting"
     \/ pc[r] = "connected" /\ ~up
  /\ reply[r] = None
  /\ Return(r, "admitted")
  /\ UNCHANGED <<failMode, ask, written, backlog, reply, up, entries, filled, historyVars>>

(* Seeded fault: the read has no timeout. *)
NoReplyNoTimeout(r) ==
  /\ pc[r] = "connected" /\ ~up
  /\ reply[r] = None
  /\ Return(r, "capacity")
  /\ UNCHANGED <<failMode, ask, written, backlog, reply, up, entries, filled, historyVars>>

(* The ten-second socket timeout, or the reset when the arbiter is gone. *)
NoReply(r) ==
  /\ \/ pc[r] = "awaiting"
     \/ pc[r] = "connected" /\ ~up
  /\ reply[r] = None
  /\ Return(r, "capacity")
  /\ UNCHANGED <<failMode, ask, written, backlog, reply, up, entries, filled, historyVars>>

(* The client process dies with its request in flight. *)
Abandon(r) ==
  /\ pc[r] \in {"connected", "awaiting"}
  /\ Return(r, None)
  /\ reply' = [reply EXCEPT ![r] = None]
  /\ UNCHANGED <<failMode, ask, written, backlog, up, entries, filled, historyVars>>

-----------------------------------------------------------------------------
(* The arbiter's accept loop.  r is the connection being served.           *)

Serving(r) == up /\ backlog # <<>> /\ r = Head(backlog)

(* The line is read and one written back: lost if the client hung up. *)
Answer(r, x) ==
  /\ reply' = [reply EXCEPT ![r] = IF pc[r] = "done" THEN None ELSE x]
  /\ written' = written \ {r}
  /\ backlog' = Tail(backlog)

(* JtiCache.consume, and what the history variables make of it. *)
CheckAndInsert(r, k, now) ==
  LET admitted == Outcome(entries, k, now) = "admitted"
  IN  /\ entries' = Consumed(entries, k, now)
      /\ horizon' = Later(horizon, now)
      /\ lastGrant' = IF admitted THEN [lastGrant EXCEPT ![k] = now] ELSE lastGrant
      /\ granted' = IF admitted THEN granted \cup {r} ELSE granted

(* Seeded fault: an empty read is retried on the same connection. *)
SkipEmptyRetries(r) ==
  /\ Serving(r) /\ r \notin written /\ pc[r] = "done"
  /\ UNCHANGED vars

(* readline returned '': the peer closed without writing. *)
SkipEmpty(r) ==
  /\ Serving(r) /\ r \notin written /\ pc[r] = "done"
  /\ backlog' = Tail(backlog)
  /\ UNCHANGED <<failMode, clientVars, written, reply, up, entries, filled, historyVars>>

ServeFailing(r) ==
  /\ Serving(r) /\ r \in written /\ failMode
  /\ Answer(r, "error")
  /\ UNCHANGED <<failMode, clientVars, up, entries, filled, historyVars>>

ServeConsume(r) ==
  /\ Serving(r) /\ r \in written /\ ~failMode /\ ask[r].op = "consume"
  /\ CheckAndInsert(r, ask[r].key, ask[r].now)
  /\ Answer(r, Outcome(entries, ask[r].key, ask[r].now))
  /\ UNCHANGED <<failMode, clientVars, up, filled>>

(* One iteration of the fill loop; the connection stays at the head. *)
FillOne(r) ==
  /\ Serving(r) /\ r \in written /\ ~failMode /\ ask[r].op = "fill"
  /\ filled < Len(FillKeys)
  /\ CheckAndInsert(r, FillKeys[filled + 1], ask[r].now)
  /\ filled' = filled + 1
  /\ UNCHANGED <<failMode, clientVars, written, backlog, reply, up>>

FillDone(r) ==
  /\ Serving(r) /\ r \in written /\ ~failMode /\ ask[r].op = "fill"
  /\ filled = Len(FillKeys)
  /\ filled' = 0
  /\ Answer(r, "counts")
  /\ UNCHANGED <<failMode, clientVars, up, entries, historyVars>>

(* The harness kills or stops the process; its cache dies with it.  A new  *)
(* arbiter listens on a new port that these clients do not know.           *)
Kill ==
  /\ up
  /\ up' = FALSE
  /\ entries' = EmptyCache
  /\ backlog' = <<>>
  /\ written' = {}
  /\ filled' = 0
  /\ UNCHANGED <<failMode, clientVars, reply, historyVars>>

-----------------------------------------------------------------------------
Client(r) ==
  \/ \E a \in Asks : Connect(r, a)
  \/ ConnectRefused(r) \/ Send(r) \/ Receive(r) \/ NoReply(r) \/ Abandon(r)

Serve(r) ==
  \/ SkipEmpty(r) \/ ServeFailing(r) \/ ServeConsume(r)
  \/ FillOne(r) \/ FillDone(r)

Next == Kill \/ \E r \in Requests : Client(r) \/ Serve(r)

Spec == Init /\ [][Next]_vars

(* The arbiter's loop runs, and a client that has written its line reads   *)
(* the reply or gives up at its own timeout.  Nothing makes a client       *)
(* connect, nor one that has connected write: the arbiter reads its        *)
(* connection with no deadline (__main__.py:85), and no timeout runs in    *)
(* the client before its first socket operation.                           *)
Finish(r) == pc[r] = "awaiting" /\ (Receive(r) \/ NoReply(r))

Fairness ==
  \A r \in Requests : WF_vars(Serve(r)) /\ WF_vars(Finish(r))

FairSpec == Spec /\ Fairness

-----------------------------------------------------------------------------
(* Properties.                                                             *)

(* The arbiter implements the abstract single-use store: whatever the      *)
(* interleaving of processes, timeouts and abandoned requests, an id is    *)
(* granted again only once a whole window has passed on the latest `now`   *)
(* the arbiter has been asked about (JtiCache.consume, _evict_expired).    *)
SU == INSTANCE SingleUse
SingleUseSpec == SU!Spec

(* The docstring of replay_client.py: "There is no path here that returns  *)
(* ADMITTED without the arbiter having said so" -- to this very request.   *)
AdmittedOnlyIfGranted ==
  \A r \in Requests : verdict[r] = "admitted" => r \in granted

(* What G-9 adjudicates: of two clients admitted under one id within one   *)
(* window of each other, the arbiter must meanwhile have been told of an   *)
(* instant at which the first grant had expired.                           *)
OneWinnerPerWindow ==
  \A r, s \in Requests :
    /\ r # s /\ verdict[r] = "admitted" /\ verdict[s] = "admitted"
    /\ ask[r].op = "consume" /\ ask[s].op = "consume" /\ ask[r].key = ask[s].key
    => \/ ask[r].now + Delta <= horizon
       \/ ask[s].now + Delta <= horizon

(* ADR 0027's capacity rule: the bound holds, and ... *)
WithinCapacity == Cardinality(DOMAIN entries) <= Capacity

(* ... an entry leaves a live arbiter's cache only when a request arrived  *)
(* at or after its expiry: room is never made by dropping a live entry.    *)
NoLiveEviction ==
  [][\A k \in DOMAIN entries \ DOMAIN entries' :
        ~up' \/ entries[k] <= horizon']_vars

(* An id in its window is remembered while the arbiter lives: the relation *)
(* between the cache and the history that carries the proof of SingleUse.  *)
RemembersGrants ==
  up => \A k \in Keys :
          lastGrant[k] # Never /\ lastGrant[k] + Delta > horizon
            => k \in DOMAIN entries /\ entries[k] = lastGrant[k] + Delta

(* A request that was written always ends, whoever holds the arbiter: a    *)
(* client behind a silent one, or behind a killed arbiter, is let go by    *)
(* its own timeout.                                                        *)
EveryRequestReturns ==
  \A r \in Requests : pc[r] = "awaiting" ~> pc[r] = "done"

InBacklog(r) == \E i \in DOMAIN backlog : backlog[i] = r

(* The connection being served is of a client that lives and has not       *)
(* written: the loop sits in `readline`.                                   *)
HeldBySilence == backlog # <<>> /\ pc[Head(backlog)] = "connected"

(* What the single-threaded loop promises.  Every connection leaves the    *)
(* backlog -- of a client that died before or after it wrote, that timed   *)
(* out, that asked for a bulk fill -- unless one client connects, lives    *)
(* and never writes: from then on it holds the loop for good.              *)
OnlySilenceHoldsTheLoop ==
  \A r \in Requests : InBacklog(r) ~> (~InBacklog(r) \/ []HeldBySilence)

=============================================================================
