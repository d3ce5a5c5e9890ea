------------------------ MODULE ReplayArbiterProofs ------------------------
(***************************************************************************)
(* The arbiter's safety, for every set of ids, requests and instants, every*)
(* window and every capacity: it is typed, within capacity, never invents  *)
(* an admission, and implements the abstract single-use store.             *)
(*                                                                         *)
(* IInv is inductive.  TypeOK bounds the cache, RemembersGrants ties the   *)
(* cache to the history of grants, and GrantsSpaced adds that any earlier  *)
(* grant of an id has already left its window on the arbiter's own time.   *)
(***************************************************************************)
EXTENDS ReplayArbiter, ReplayCacheProofs

(* A request whose line was written or answered is not idle. *)
Started ==
  \A r \in Requests :
    pc[r] = "idle" => r \notin written /\ r \notin granted /\ ask[r] = NoAsk

(* An arbiter's "admitted" was written because it admitted that request. *)
RepliesBacked ==
  \A r \in Requests :
    /\ reply[r] = "admitted" => r \in granted
    /\ verdict[r] = "admitted" => r \in granted

(* A written line is a request; nothing sends the empty ask. *)
LinesAreAsks ==
  \A r \in Requests : pc[r] \in {"connected", "awaiting"} \/ r \in written => ask[r] \in Asks

(* Every granted id was granted last by that request, or the request's     *)
(* window has passed on the arbiter's time.                                *)
GrantsCounted ==
  \A r \in granted :
    /\ ask[r] \in Asks
    /\ ask[r].op = "consume" =>
         /\ lastGrant[ask[r].key] # Never
         /\ \/ lastGrant[ask[r].key] = ask[r].now
            \/ ask[r].now + Delta <= horizon

(* The single-use guarantee on the grants themselves. *)
GrantsSpaced ==
  \A r, s \in granted :
    /\ r # s
    /\ ask[r].op = "consume" /\ ask[s].op = "consume" /\ ask[r].key = ask[s].key
    => \/ ask[r].now + Delta <= horizon
       \/ ask[s].now + Delta <= horizon

IInv ==
  /\ TypeOK /\ WithinCapacity /\ RemembersGrants
  /\ Started /\ RepliesBacked /\ LinesAreAsks /\ GrantsCounted /\ GrantsSpaced

-----------------------------------------------------------------------------
(* The later of two instants, in this module and in the abstract one. *)
LEMMA LaterFacts ==
  ASSUME NEW a \in Instants \cup {Never}, NEW b \in Instants
  PROVE  /\ Later(a, b) \in Instants /\ Later(a, b) \in Int
         /\ Later(a, b) >= a /\ Later(a, b) >= b
         /\ Later(a, b) = SU!Later(a, b)
BY ReplayCacheAssumption DEF Later, SU!Later, Never

(* What is left of the backlog when its head is taken. *)
LEMMA BacklogTail ==
  ASSUME backlog \in Seq(Requests), backlog # <<>>
  PROVE  Tail(backlog) \in Seq(Requests)
OBVIOUS

(* The parts of a request are of their types. *)
LEMMA AsksTyped ==
  ASSUME NEW a \in Asks
  PROVE  /\ a.op \in {"consume", "fill"} /\ a.now \in Instants
         /\ a.op = "consume" => a.key \in Keys
BY ArbiterAssumption DEF AllAsks

(* One check-and-insert keeps the cache typed, bounded and in step with    *)
(* the history of grants, whichever connection it is done for.             *)
LEMMA CheckAndInsertKeepsHistory ==
  ASSUME IInv, up, up', NEW r \in Requests, NEW k \in Keys, NEW now \in Instants,
         CheckAndInsert(r, k, now)
  PROVE  /\ IsCache(entries') /\ WithinCapacity' /\ RemembersGrants'
         /\ lastGrant' \in [Keys -> Instants \cup {Never}]
         /\ horizon' \in Instants /\ horizon' >= horizon
         /\ granted' \subseteq Requests
         /\ lastGrant' # lastGrant \/ granted' # granted
              => /\ Outcome(entries, k, now) = "admitted"
                 /\ lastGrant' = [lastGrant EXCEPT ![k] = now]
                 /\ granted' = granted \cup {r}
                 /\ lastGrant[k] = Never \/ lastGrant[k] + Delta <= horizon'
         /\ SU!Next
<1> USE ReplayCacheAssumption
<1>1. /\ TypeOK /\ WithinCapacity /\ RemembersGrants
      /\ entries' = Consumed(entries, k, now)
      /\ horizon' = Later(horizon, now)
  BY DEF IInv, CheckAndInsert
<1>0. IsCache(entries) /\ now \in Nat
  BY <1>1 DEF TypeOK
<1>2. IsCache(entries') /\ WithinCapacity'
  BY <1>0, <1>1, ConsumedIsCache DEF WithinCapacity
<1>3. horizon \in Instants \cup {Never} /\ lastGrant \in [Keys -> Instants \cup {Never}]
  BY <1>1 DEF TypeOK
<1>4. /\ horizon' \in Instants /\ horizon' >= horizon /\ horizon' >= now
      /\ horizon' = SU!Later(horizon, now)
  BY <1>1, <1>3, LaterFacts
<1>5. /\ \A j \in DOMAIN entries :
           entries[j] > now => j \in DOMAIN entries' /\ entries'[j] = entries[j]
      /\ Outcome(entries, k, now) = "admitted"
           => /\ k \in DOMAIN entries' /\ entries'[k] = now + Delta
              /\ ~(k \in DOMAIN entries /\ entries[k] > now)
  <2> DEFINE after == Consumed(entries, k, now)
  <2>1. /\ \A j \in DOMAIN entries :
             entries[j] > now => j \in DOMAIN after /\ after[j] = entries[j]
        /\ Outcome(entries, k, now) = "admitted"
             => /\ k \in DOMAIN after /\ after[k] = now + Delta
                /\ ~(k \in DOMAIN entries /\ entries[k] > now)
    BY <1>0, ConsumedFacts
  <2> QED
    BY <1>1, <2>1, Zenon
<1>6. \A j \in Keys :
        lastGrant[j] # Never /\ lastGrant[j] + Delta > horizon
          => j \in DOMAIN entries /\ entries[j] = lastGrant[j] + Delta
  BY <1>1 DEF RemembersGrants
<1>7. \A j \in Keys : lastGrant[j] \in Int
  <2>1. \A j \in Keys : lastGrant[j] \in Instants \cup {Never}
    BY <1>3
  <2>2. Instants \cup {Never} \subseteq Int
    BY DEF Never
  <2> QED
    BY <2>1, <2>2
<1>8. CASE Outcome(entries, k, now) # "admitted"
  <2>1. lastGrant' = lastGrant /\ granted' = granted
    BY <1>8 DEF CheckAndInsert
  <2>2. RemembersGrants'
    <3> SUFFICES ASSUME NEW j \in Keys, lastGrant[j] # Never,
                        lastGrant[j] + Delta > horizon'
                 PROVE  j \in DOMAIN entries' /\ entries'[j] = lastGrant[j] + Delta
      BY <2>1 DEF RemembersGrants
    <3>1. lastGrant[j] + Delta > horizon /\ lastGrant[j] + Delta > now
      BY <1>3, <1>4, <1>7 DEF Never
    <3> QED
      BY <1>5, <1>6, <3>1
  <2>3. SU!Refuse(now)
    BY <1>4, <2>1 DEF SU!Refuse
  <2> QED
    BY <1>1, <1>2, <1>3, <1>4, <2>1, <2>2, <2>3 DEF TypeOK, SU!Next
<1>9. CASE Outcome(entries, k, now) = "admitted"
  <2>1. /\ lastGrant' = [lastGrant EXCEPT ![k] = now]
        /\ granted' = granted \cup {r}
    BY <1>9 DEF CheckAndInsert
  <2>2. lastGrant[k] = Never \/ lastGrant[k] + Delta <= horizon'
    <3> SUFFICES ASSUME lastGrant[k] # Never, lastGrant[k] + Delta > horizon'
                 PROVE  FALSE
      BY <1>4, <1>7 DEF Never
    <3>1. lastGrant[k] + Delta > horizon /\ lastGrant[k] + Delta > now
      BY <1>3, <1>4, <1>7 DEF Never
    <3> QED
      BY <1>5, <1>6, <1>9, <3>1
  <2>3. RemembersGrants'
    <3> SUFFICES ASSUME NEW j \in Keys, lastGrant'[j] # Never,
                        lastGrant'[j] + Delta > horizon'
                 PROVE  j \in DOMAIN entries' /\ entries'[j] = lastGrant'[j] + Delta
      BY DEF RemembersGrants
    <3>1. CASE j = k
      BY <1>3, <1>5, <1>9, <2>1, <3>1
    <3>2. CASE j # k
      <4>1. lastGrant'[j] = lastGrant[j]
        BY <1>3, <2>1, <3>2
      <4>2. lastGrant[j] + Delta > horizon /\ lastGrant[j] + Delta > now
        BY <1>3, <1>4, <1>7, <4>1 DEF Never
      <4> QED
        BY <1>5, <1>6, <4>1, <4>2
    <3> QED
      BY <3>1, <3>2
  <2>4. SU!Grant(k, now)
    BY <1>4, <2>1, <2>2 DEF SU!Grant, SU!Never, Never
  <2> QED
    BY <1>1, <1>2, <1>3, <1>4, <1>9, <2>1, <2>2, <2>3, <2>4 DEF TypeOK, SU!Next
<1> QED
  BY <1>8, <1>9

-----------------------------------------------------------------------------
(* The arbiter starts empty, with nothing granted. *)
LEMMA InitIInv == Init => IInv /\ SU!Init
<1> SUFFICES ASSUME Init PROVE IInv /\ SU!Init
  OBVIOUS
<1> USE DEF Init
<1>1. IsCache(EmptyCache) /\ DOMAIN EmptyCache = {} /\ Cardinality({}) = 0
  BY FS_EmptySet DEF IsCache, EmptyCache
<1>2. TypeOK
  BY <1>1, ArbiterAssumption DEF TypeOK, Never
<1>3. WithinCapacity
  BY <1>1, ReplayCacheAssumption DEF WithinCapacity
<1>4. RemembersGrants
  BY DEF RemembersGrants
<1>5. Started /\ RepliesBacked /\ LinesAreAsks /\ GrantsCounted /\ GrantsSpaced
  BY DEF Started, RepliesBacked, LinesAreAsks, GrantsCounted, GrantsSpaced, None
<1> QED
  BY <1>2, <1>3, <1>4, <1>5 DEF IInv, SU!Init, SU!Never, Never

(* A client's steps touch neither the cache nor the history. *)
LEMMA ClientStep ==
  ASSUME IInv, NEW r \in Requests, Client(r)
  PROVE  IInv' /\ UNCHANGED SU!vars
<1> USE DEF IInv
<1>1. UNCHANGED <<failMode, up, entries, filled, historyVars>>
  BY DEF Client, Connect, ConnectRefused, Send, Receive, NoReply, Abandon
<1>2. WithinCapacity' /\ RemembersGrants'
  BY <1>1 DEF WithinCapacity, RemembersGrants, historyVars
<1>3. ASSUME NEW a \in Asks, Connect(r, a)
      PROVE  TypeOK' /\ Started' /\ RepliesBacked' /\ LinesAreAsks'
             /\ GrantsCounted' /\ GrantsSpaced'
  <2> USE <1>3 DEF Connect, historyVars
  <2>1. r \notin granted /\ r \notin written
    BY DEF Started
  <2>2. \A s \in Requests \ {r} : ask'[s] = ask[s] /\ pc'[s] = pc[s]
    BY DEF TypeOK
  <2>3. /\ ask'[r] = a /\ pc'[r] = "connected"
        /\ granted' = granted /\ written' = written
    BY DEF TypeOK
  <2>4. granted \subseteq Requests \ {r} /\ written \subseteq Requests \ {r}
    BY <2>1 DEF TypeOK
  <2>5. TypeOK'
    BY DEF TypeOK, IsCache
  <2>6. Started' /\ RepliesBacked' /\ LinesAreAsks'
    BY <2>2, <2>3, <2>4 DEF Started, RepliesBacked, LinesAreAsks
  <2>7. GrantsCounted' /\ GrantsSpaced'
    <3>1. \A s \in granted : ask'[s] = ask[s]
      BY <2>2, <2>4
    <3> QED
      BY <2>3, <3>1 DEF GrantsCounted, GrantsSpaced
  <2> QED
    BY <2>5, <2>6, <2>7
<1>4. ASSUME ConnectRefused(r) \/ Send(r) \/ Receive(r) \/ NoReply(r) \/ Abandon(r)
      PROVE  TypeOK' /\ Started' /\ RepliesBacked' /\ LinesAreAsks'
             /\ GrantsCounted' /\ GrantsSpaced'
  <2>1. ask' = ask /\ granted' = granted /\ lastGrant' = lastGrant /\ horizon' = horizon
    BY <1>4 DEF ConnectRefused, Send, Receive, NoReply, Abandon, historyVars
  <2>2. GrantsCounted' /\ GrantsSpaced'
    BY <2>1 DEF GrantsCounted, GrantsSpaced
  <2>3. TypeOK'
    <3>1. CASE ConnectRefused(r)
      BY <3>1 DEF ConnectRefused, Return, TypeOK, IsCache, historyVars, Outcomes
    <3>2. CASE Send(r)
      BY <3>2 DEF Send, TypeOK, IsCache, historyVars
    <3>3. CASE Receive(r)
      BY <3>3 DEF Receive, Return, TypeOK, IsCache, historyVars, Outcomes
    <3>4. CASE NoReply(r)
      BY <3>4 DEF NoReply, Return, TypeOK, IsCache, historyVars, Outcomes
    <3>5. CASE Abandon(r)
      BY <3>5 DEF Abandon, Return, TypeOK, IsCache, historyVars, Outcomes
    <3> QED
      BY <1>4, <3>1, <3>2, <3>3, <3>4, <3>5
  <2>4. Started' /\ LinesAreAsks'
    BY <1>4, <2>1 DEF ConnectRefused, Send, Receive, NoReply, Abandon, Return,
                      TypeOK, Started, LinesAreAsks
  <2>5. RepliesBacked'
    BY <1>4, <2>1 DEF ConnectRefused, Send, Receive, NoReply, Abandon, Return,
                      TypeOK, RepliesBacked, None, Outcomes
  <2> QED
    BY <2>2, <2>3, <2>4, <2>5
<1> QED
  BY <1>1, <1>2, <1>3, <1>4 DEF Client, SU!vars, historyVars

(* A step that inserts nothing leaves the abstract store alone. *)
LEMMA IdleServeStep ==
  ASSUME IInv, NEW r \in Requests, SkipEmpty(r) \/ ServeFailing(r) \/ FillDone(r)
  PROVE  IInv' /\ UNCHANGED SU!vars
<1> USE DEF IInv
<1>1. /\ UNCHANGED <<up, entries, pc, ask, verdict, lastGrant, horizon, granted>>
      /\ written' \subseteq written
  BY DEF SkipEmpty, ServeFailing, FillDone, Answer, clientVars, historyVars
<1>2. WithinCapacity' /\ RemembersGrants' /\ GrantsCounted' /\ GrantsSpaced'
  BY <1>1 DEF WithinCapacity, RemembersGrants, GrantsCounted, GrantsSpaced
<1>3. Started' /\ LinesAreAsks'
  BY <1>1 DEF Started, LinesAreAsks
<1>4. /\ backlog' \in Seq(Requests)
      /\ filled' \in 0 .. Len(FillKeys)
      /\ failMode' \in BOOLEAN
  <2>1. /\ backlog' = Tail(backlog) /\ backlog # <<>>
        /\ filled' = filled \/ filled' = 0
        /\ failMode' = failMode
    BY DEF SkipEmpty, ServeFailing, FillDone, Answer, Serving
  <2>2. Len(FillKeys) \in Nat
    BY ArbiterAssumption
  <2> QED
    BY <2>1, <2>2, BacklogTail DEF TypeOK
<1>5. \A x \in Requests : reply'[x] = reply[x] \/ reply'[x] \in {"error", "counts", None}
  BY DEF TypeOK, SkipEmpty, ServeFailing, FillDone, Answer
<1>6. reply' \in [Requests -> Outcomes \cup {"error", "counts", None}]
  BY DEF TypeOK, SkipEmpty, ServeFailing, FillDone, Answer
<1>7. TypeOK'
  BY <1>1, <1>4, <1>6 DEF TypeOK, IsCache
<1>8. RepliesBacked'
  BY <1>1, <1>5 DEF RepliesBacked, None
<1> QED
  BY <1>1, <1>2, <1>3, <1>7, <1>8 DEF SU!vars

(* A check-and-insert for a written line keeps the grants accounted for.   *)
LEMMA GrantsAfterCheckAndInsert ==
  ASSUME IInv, up, up', NEW r \in Requests, NEW k \in Keys, NEW now \in Instants,
         CheckAndInsert(r, k, now), UNCHANGED ask, ask[r] \in Asks,
         ask[r].op = "consume" => k = ask[r].key /\ now = ask[r].now
  PROVE  GrantsCounted' /\ GrantsSpaced'
<1> USE DEF IInv
<1>1. /\ horizon \in Int /\ horizon' \in Int /\ horizon' >= horizon
      /\ \A j \in Keys : lastGrant[j] \in Int
      /\ \A a \in Asks : a.now \in Int
  <2>1. Instants \cup {Never} \subseteq Int
    BY ReplayCacheAssumption DEF Never
  <2> QED
    BY <2>1, CheckAndInsertKeepsHistory, AsksTyped DEF TypeOK
<1>2. /\ \A a \in Asks : a.op = "consume" => a.key \in Keys
      /\ Delta \in Int
  BY AsksTyped, ReplayCacheAssumption
<1>3. CASE lastGrant' = lastGrant /\ granted' = granted
  BY <1>1, <1>2, <1>3 DEF GrantsCounted, GrantsSpaced
<1>4. CASE lastGrant' # lastGrant \/ granted' # granted
  <2>1. /\ lastGrant' = [lastGrant EXCEPT ![k] = now]
        /\ granted' = granted \cup {r}
        /\ lastGrant[k] = Never \/ lastGrant[k] + Delta <= horizon'
    BY <1>4, CheckAndInsertKeepsHistory
  <2>2. /\ lastGrant'[k] = now /\ now # Never
        /\ \A j \in Keys \ {k} : lastGrant'[j] = lastGrant[j]
    BY <2>1, ReplayCacheAssumption DEF TypeOK, Never
  <2>3. ASSUME NEW s \in granted, ask[s].op = "consume", ask[s].key = k
        PROVE  ask[s].now + Delta <= horizon'
    BY <1>1, <1>2, <2>1, <2>3 DEF GrantsCounted
  <2>4. GrantsCounted'
    <3> SUFFICES ASSUME NEW s \in granted'
                 PROVE  /\ ask[s] \in Asks
                        /\ ask[s].op = "consume" =>
                             /\ lastGrant'[ask[s].key] # Never
                             /\ \/ lastGrant'[ask[s].key] = ask[s].now
                                \/ ask[s].now + Delta <= horizon'
      BY DEF GrantsCounted
    <3>1. CASE s = r
      BY <2>2, <3>1
    <3>2. CASE s \in granted
      <4>1. CASE ask[s].op = "consume" /\ ask[s].key = k
        BY <2>2, <2>3, <3>2, <4>1 DEF GrantsCounted
      <4>2. CASE ask[s].op = "consume" /\ ask[s].key # k
        <5>1. /\ ask[s] \in Asks /\ ask[s].key \in Keys
              /\ lastGrant[ask[s].key] # Never
              /\ \/ lastGrant[ask[s].key] = ask[s].now
                 \/ ask[s].now + Delta <= horizon
          BY <1>2, <3>2, <4>2 DEF GrantsCounted
        <5> QED
          BY <1>1, <1>2, <2>2, <4>2, <5>1
      <4> QED
        BY <3>2, <4>1, <4>2 DEF GrantsCounted
    <3> QED
      BY <2>1, <3>1, <3>2
  <2>5. GrantsSpaced'
    <3> SUFFICES ASSUME NEW s \in granted', NEW t \in granted', s # t,
                        ask[s].op = "consume", ask[t].op = "consume",
                        ask[s].key = ask[t].key
                 PROVE  \/ ask[s].now + Delta <= horizon'
                        \/ ask[t].now + Delta <= horizon'
      BY DEF GrantsSpaced
    <3>1. CASE s = r
      BY <2>1, <2>3, <3>1
    <3>2. CASE t = r
      BY <2>1, <2>3, <3>2
    <3>3. CASE s # r /\ t # r
      <4>1. /\ s \in granted /\ t \in granted
            /\ ask[s].now \in Int /\ ask[t].now \in Int
        BY <1>1, <2>1, <3>3 DEF GrantsCounted
      <4> QED
        BY <1>1, <1>2, <4>1 DEF GrantsSpaced
    <3> QED
      BY <3>1, <3>2, <3>3
  <2> QED
    BY <2>4, <2>5
<1> QED
  BY <1>3, <1>4

(* Both handlers that insert: a `consume` and one round of the fill loop.  *)
LEMMA InsertStep ==
  ASSUME IInv, NEW r \in Requests, ServeConsume(r) \/ FillOne(r)
  PROVE  IInv' /\ SU!Next
<1> USE DEF IInv
<1>1. /\ up /\ up' /\ r \in written /\ UNCHANGED <<failMode, pc, ask, verdict>>
      /\ written' \subseteq written
  BY DEF ServeConsume, FillOne, Serving, Answer, clientVars
<1>2. ask[r] \in Asks
  BY <1>1 DEF LinesAreAsks
<1>3. PICK k \in Keys, now \in Instants :
        /\ CheckAndInsert(r, k, now)
        /\ ask[r].op = "consume" => k = ask[r].key /\ now = ask[r].now
        /\ \/ UNCHANGED reply
           \/ reply' = [reply EXCEPT ![r] = IF pc[r] = "done" THEN None
                                            ELSE Outcome(entries, k, now)]
  <2>1. CASE ServeConsume(r)
    BY <1>2, <2>1, AsksTyped DEF ServeConsume, Answer
  <2>2. CASE FillOne(r)
    <3>1. filled + 1 \in 1 .. Len(FillKeys)
      BY <2>2, ArbiterAssumption DEF FillOne, TypeOK
    <3>2. FillKeys[filled + 1] \in Keys
      BY <3>1, ArbiterAssumption
    <3> QED
      BY <1>2, <2>2, <3>2, AsksTyped DEF FillOne
  <2> QED
    BY <2>1, <2>2
<1>4. /\ IsCache(entries') /\ WithinCapacity' /\ RemembersGrants'
      /\ lastGrant' \in [Keys -> Instants \cup {Never}]
      /\ horizon' \in Instants /\ granted' \subseteq Requests
      /\ SU!Next
  BY <1>1, <1>3, CheckAndInsertKeepsHistory
<1>5. GrantsCounted' /\ GrantsSpaced'
  BY <1>1, <1>2, <1>3, GrantsAfterCheckAndInsert
<1>6. /\ granted' = granted \/ granted' = granted \cup {r}
      /\ Outcome(entries, k, now) = "admitted" => r \in granted'
      /\ granted \subseteq granted'
      /\ Outcome(entries, k, now) \in Outcomes
  BY <1>3 DEF CheckAndInsert, Outcome, Outcomes
<1>7. Started'
  BY <1>1, <1>6 DEF Started
<1>8. RepliesBacked' /\ reply' \in [Requests -> Outcomes \cup {"error", "counts", None}]
  BY <1>1, <1>3, <1>6 DEF RepliesBacked, TypeOK, None
<1>9. LinesAreAsks'
  BY <1>1 DEF LinesAreAsks
<1>10. backlog' \in Seq(Requests) /\ filled' \in 0 .. Len(FillKeys)
  <2>1. Len(FillKeys) \in Nat
    BY ArbiterAssumption
  <2>2. CASE ServeConsume(r)
    BY <2>2, BacklogTail DEF TypeOK, ServeConsume, Answer, Serving
  <2>3. CASE FillOne(r)
    BY <2>1, <2>3 DEF TypeOK, FillOne
  <2> QED
    BY <2>2, <2>3
<1>11. TypeOK'
  <2>1. written' \subseteq Requests
    BY <1>1 DEF TypeOK
  <2> QED
    BY <1>1, <1>4, <1>8, <1>10, <2>1 DEF TypeOK
<1> QED
  BY <1>4, <1>5, <1>7, <1>8, <1>9, <1>11

(* Killing the arbiter preserves the invariant and is a stutter of the store. *)
LEMMA KillStep == IInv /\ Kill => IInv' /\ UNCHANGED SU!vars
<1> SUFFICES ASSUME IInv, Kill PROVE IInv' /\ UNCHANGED SU!vars
  OBVIOUS
<1> USE DEF IInv, Kill, clientVars, historyVars
<1>1. IsCache(EmptyCache) /\ DOMAIN EmptyCache = {} /\ Cardinality({}) = 0
  BY FS_EmptySet DEF IsCache, EmptyCache
<1>2. TypeOK'
  <2>1. 0 \in 0 .. Len(FillKeys)
    BY ArbiterAssumption
  <2>2. <<>> \in Seq(Requests)
    OBVIOUS
  <2> QED
    BY <1>1, <2>1, <2>2 DEF TypeOK
<1>3. WithinCapacity' /\ RemembersGrants'
  BY <1>1, ReplayCacheAssumption DEF WithinCapacity, RemembersGrants
<1>4. Started' /\ RepliesBacked' /\ LinesAreAsks' /\ GrantsCounted' /\ GrantsSpaced'
  BY DEF Started, RepliesBacked, LinesAreAsks, GrantsCounted, GrantsSpaced
<1> QED
  BY <1>2, <1>3, <1>4 DEF SU!vars

(* Every step preserves the invariant and is one of the store, or a stutter. *)
LEMMA NextIInv == IInv /\ [Next]_vars => IInv' /\ [SU!Next]_SU!vars
<1> SUFFICES ASSUME IInv, [Next]_vars PROVE IInv' /\ [SU!Next]_SU!vars
  OBVIOUS
<1>1. CASE Kill
  BY <1>1, KillStep
<1>2. ASSUME NEW r \in Requests, Client(r) PROVE IInv' /\ [SU!Next]_SU!vars
  BY <1>2, ClientStep
<1>3. ASSUME NEW r \in Requests, Serve(r) PROVE IInv' /\ [SU!Next]_SU!vars
  BY <1>3, IdleServeStep, InsertStep DEF Serve
<1>4. CASE UNCHANGED vars
  BY <1>4 DEF vars, IInv, TypeOK, IsCache, WithinCapacity, RemembersGrants, Started,
              RepliesBacked, LinesAreAsks, GrantsCounted, GrantsSpaced, SU!vars
<1> QED
  BY <1>1, <1>2, <1>3, <1>4 DEF Next

-----------------------------------------------------------------------------
(* The inductive invariant holds of every behaviour. *)
THEOREM ArbiterInvariant == Spec => []IInv
BY InitIInv, NextIInv, PTL DEF Spec

(* Every variable keeps its type: a reply, a verdict and a cache are always *)
(* what the client and JtiCache expect them to be.                          *)
THEOREM ArbiterTypeOK == Spec => []TypeOK
<1>1. IInv => TypeOK
  BY DEF IInv
<1> QED
  BY <1>1, ArbiterInvariant, PTL

(* ADR 0027's capacity rule holds for every capacity. *)
THEOREM ArbiterWithinCapacity == Spec => []WithinCapacity
<1>1. IInv => WithinCapacity
  BY DEF IInv
<1> QED
  BY <1>1, ArbiterInvariant, PTL

(* _evict_expired and the insertion: an id in its window is in the cache of a *)
(* live arbiter, with the expiry of its last grant. *)
THEOREM ArbiterRemembersGrants == Spec => []RemembersGrants
<1>1. IInv => RemembersGrants
  BY DEF IInv
<1> QED
  BY <1>1, ArbiterInvariant, PTL

(* RemoteJtiCache.consume admits nothing the arbiter did not grant to this *)
(* request, whatever is lost, late or killed.                              *)
THEOREM ArbiterAdmittedOnlyIfGranted == Spec => []AdmittedOnlyIfGranted
<1>1. IInv => AdmittedOnlyIfGranted
  BY DEF IInv, RepliesBacked, AdmittedOnlyIfGranted
<1> QED
  BY <1>1, ArbiterInvariant, PTL

(* Gate G-9: any number of clients racing for one id have one winner until *)
(* the arbiter is told of an instant at which that grant has expired.      *)
THEOREM ArbiterOneWinner == Spec => []OneWinnerPerWindow
<1>1. IInv => OneWinnerPerWindow
  BY DEF IInv, RepliesBacked, GrantsSpaced, OneWinnerPerWindow
<1> QED
  BY <1>1, ArbiterInvariant, PTL

(* Refinement: the arbiter, with its sockets, timeouts and abandoned       *)
(* requests, implements the abstract single-use store.                     *)
THEOREM ArbiterImplementsSingleUse == Spec => SingleUseSpec
BY ArbiterInvariant, InitIInv, NextIInv, PTL DEF Spec, SingleUseSpec, SU!Spec

(* ADR 0027: room is never made by forgetting an entry in its window. *)
THEOREM ArbiterNoLiveEviction == Spec => NoLiveEviction
<1> DEFINE A == \A k \in DOMAIN entries \ DOMAIN entries' :
                   ~up' \/ entries[k] <= horizon'
<1>1. ASSUME IInv, [Next]_vars PROVE A
  <2>1. CASE Kill
    BY <2>1 DEF Kill
  <2>2. CASE entries' = entries
    BY <2>2
  <2>3. ASSUME NEW r \in Requests, NEW k \in Keys, NEW now \in Instants,
               CheckAndInsert(r, k, now)
        PROVE  A
    <3>1. /\ IsCache(entries) /\ now \in Nat
          /\ entries' = Consumed(entries, k, now)
          /\ horizon \in Instants \cup {Never} /\ horizon' = Later(horizon, now)
      BY <1>1, <2>3, ReplayCacheAssumption DEF CheckAndInsert, IInv, TypeOK
    <3>2. horizon' \in Int /\ horizon' >= now
      <4>1. Later(horizon, now) \in Int /\ Later(horizon, now) >= now
        BY <3>1, LaterFacts
      <4> QED
        BY <3>1, <4>1, Zenon
    <3>3. \A j \in DOMAIN entries : entries[j] \in Int
      BY <3>1 DEF IsCache
    <3>4. \A j \in DOMAIN entries : j \notin DOMAIN entries' => entries[j] <= now
      <4> DEFINE after == Consumed(entries, k, now)
      <4>1. \A j \in DOMAIN entries : j \notin DOMAIN after => entries[j] <= now
        BY <3>1, ConsumedFacts
      <4> QED
        BY <3>1, <4>1, Zenon
    <3> QED
      BY <3>1, <3>2, <3>3, <3>4
  <2>4. ASSUME NEW r \in Requests, Client(r) PROVE entries' = entries
    BY <2>4 DEF Client, Connect, ConnectRefused, Send, Receive, NoReply, Abandon
  <2>5. ASSUME NEW r \in Requests, Serve(r) PROVE A
    <3>1. CASE SkipEmpty(r) \/ ServeFailing(r) \/ FillDone(r)
      BY <2>2, <3>1 DEF SkipEmpty, ServeFailing, FillDone
    <3>2. CASE ServeConsume(r) \/ FillOne(r)
      <4>1. ask[r] \in Asks
        BY <1>1, <3>2 DEF ServeConsume, FillOne, IInv, LinesAreAsks
      <4>2. CASE ServeConsume(r)
        BY <2>3, <4>1, <4>2, AsksTyped DEF ServeConsume
      <4>3. CASE FillOne(r)
        <5>1. filled + 1 \in 1 .. Len(FillKeys)
          BY <1>1, <4>3, ArbiterAssumption DEF FillOne, IInv, TypeOK
        <5>2. FillKeys[filled + 1] \in Keys
          BY <5>1, ArbiterAssumption
        <5> QED
          BY <2>3, <4>1, <4>3, <5>2, AsksTyped DEF FillOne
      <4> QED
        BY <3>2, <4>2, <4>3
    <3> QED
      BY <2>5, <3>1, <3>2 DEF Serve
  <2> QED
    BY <1>1, <2>1, <2>2, <2>4, <2>5 DEF Next, vars
<1> QED
  BY <1>1, ArbiterInvariant, PTL DEF Spec, NoLiveEviction

=============================================================================
