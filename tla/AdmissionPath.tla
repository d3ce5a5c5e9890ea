--------------------------- MODULE AdmissionPath ---------------------------
(***************************************************************************)
(* The boundary decision of the two mechanisms that spend single-use ids:  *)
(* the capability path (CapabilityDecisionPath.decide, arms B3 and B3+)    *)
(* and the OAuth path with DPoP (B2ExchangeTaskDPoPArm).                   *)
(*                                                                         *)
(* An arm stages one presentation and then decides calls over it; nothing  *)
(* un-stages it, so a captured presentation is replayed by deciding again. *)
(* A decision runs the conjuncts in order and stops at the first refusal.  *)
(* Three of them spend an id: the DPoP proof's or the invocation's (in a   *)
(* replay cache that two arms may share, gate G-14), the declassification's *)
(* and the approval's (in the cache the arm's own reference monitor made). *)
(* The conjuncts that keep no state are inputs: a call says which of them  *)
(* it fails, and what the label policy makes of it.                        *)
(*                                                                         *)
(* One arm runs in one process and decides one call at a time, so Decide   *)
(* is a single step.  used and horizon are history variables.          *)
(***************************************************************************)
EXTENDS ReplayCache, Sequences

CONSTANTS
  Arms,
  Capability,      \* the arms on the capability path; the others use DPoP
  Skipped,         \* Skipped[a]: the conjuncts absent from the arm, or ablated
  Stores,          \* the JtiCache objects
  RequestStore,    \* RequestStore[a]: the cache for request ids, or None
  MonitorStore,    \* MonitorStore[a]: the cache of the arm's monitor, or None
  Presentations,   \* what an arm may stage
  Calls,           \* what it may be asked to decide
  Owned,           \* Owned[a]: the stores made with the arm, not attached to it
  AuditCapacity,   \* BoundedAuditBuffer's maxlen
  MaxDecisions     \* bound: how many calls are decided

None == "none"

CapabilityOrder ==
  <<"crypto_chain_ok", "authorizer_policy_ok", "htc_chain_ok", "holder_proof_ok",
    "invocation_binding_ok", "containment_ok", "context_policy_ok",
    "approval_artifact_ok", "oauth_resource_authorization_ok",
    "identity_plane_consistency_ok", "consume_id">>

DPoPOrder ==
  <<"access_token_ok", "dpop_proof_ok", "consume_id", "token_scope_ok",
    "context_policy_ok", "approval_artifact_ok">>

(* The conjuncts that read what earlier decisions left behind. *)
Stateful == {"context_policy_ok", "approval_artifact_ok", "consume_id"}

Elements(seq) == {seq[i] : i \in DOMAIN seq}
Stages == Elements(CapabilityOrder) \cup Elements(DPoPOrder)

Order(a) == IF a \in Capability THEN CapabilityOrder ELSE DPoPOrder

(* The mechanism tags keep the four kinds of id apart in one cache. *)
RequestKey(a, p) == <<IF a \in Capability THEN "inv" ELSE "dpop", p.id>>
DeclassKey(p)    == <<"declass", p.declass.jti>>
ApprovalKey(p)   == <<"approval", p.approval.jti>>

NoArtifact == [jti |-> None, iat |-> 0, nbf |-> 0, exp |-> 0]

NotStaged  == [id |-> None]

ASSUME AdmissionAssumption ==
  /\ NotStaged \notin Presentations
  /\ Capability \subseteq Arms
  /\ Skipped \in [Arms -> SUBSET (Stages \ {"consume_id"})]
  /\ RequestStore \in [Arms -> Stores \cup {None}]
  /\ MonitorStore \in [Arms -> Stores \cup {None}]
  /\ Owned \in [Arms -> SUBSET Stores]
  /\ None \notin Stores
  /\ \A a, b \in Arms :       \* a monitor makes its own cache
       /\ MonitorStore[a] # None => MonitorStore[a] # RequestStore[b]
       /\ MonitorStore[a] # None /\ MonitorStore[a] = MonitorStore[b] => a = b
  /\ \A p \in Presentations :
       /\ p.now \in Instants
       /\ \A a \in Arms : RequestKey(a, p) \in Keys
       /\ p.declass # NoArtifact => DeclassKey(p) \in Keys
       /\ p.approval # NoArtifact => ApprovalKey(p) \in Keys
  /\ \A c \in Calls :
       /\ c.fails \subseteq Stages \ Stateful
       /\ c.egress \in {"permit", "covered", "refused"}
       /\ c.highRisk \in BOOLEAN /\ c.binds \in BOOLEAN
  /\ AuditCapacity \in Nat \ {0}
  /\ MaxDecisions \in Nat

VARIABLES
  staged,     \* staged[a]: what `present` left for `decide`, or NotStaged
  entries,    \* entries[s]: JtiCache._entries of store s
  log,        \* log[a]: the reasons in the audit buffer, oldest first
  dropped,    \* dropped[a]: BoundedAuditBuffer.dropped
  decided,    \* decided[a]: how many calls the arm's decision path decided
  used,       \* history: used[s][k]: the `now` of the last ADMITTED call that spent k
  horizon     \* history: horizon[s]: the latest `now` the store was asked about

historyVars == <<used, horizon>>
vars == <<staged, entries, log, dropped, decided, used, horizon>>

Never == -1

Later(a, b) == IF a >= b THEN a ELSE b

Reasons == Stages \cup {"admitted", "not_presented"}

TypeOK ==
  /\ staged \in [Arms -> Presentations \cup {NotStaged}]
  /\ DOMAIN entries = Stores /\ \A s \in Stores : IsCache(entries[s])
  /\ log \in [Arms -> Seq(Reasons)]
  /\ dropped \in [Arms -> Nat]
  /\ decided \in [Arms -> Nat]
  /\ used \in [Stores -> [Keys -> Instants \cup {Never}]]
  /\ horizon \in [Stores -> Instants \cup {Never}]

Init ==
  /\ staged = [a \in Arms |-> NotStaged]
  /\ entries = [s \in Stores |-> EmptyCache]
  /\ log = [a \in Arms |-> <<>>]
  /\ dropped = [a \in Arms |-> 0]
  /\ decided = [a \in Arms |-> 0]
  /\ used = [s \in Stores |-> [k \in Keys |-> Never]]
  /\ horizon = [s \in Stores |-> Never]

-----------------------------------------------------------------------------
(* What each conjunct says of call c over a's staged presentation, were it *)
(* reached.  An absent or ablated conjunct refuses nothing.                *)

InWindow(artifact, now) == artifact.nbf <= now /\ now <= artifact.exp

(* nbf <= now <= exp, then |now - iat| <= Delta. *)
Live(artifact, now) == InWindow(artifact, now) /\ IsFresh(now, artifact.iat)

Monitored(a) == MonitorStore[a] # None

(* Neither conjunct that parses the INV ran: there is no id to consume. *)
NoInvocationRead(a) ==
  a \in Capability /\ {"holder_proof_ok", "invocation_binding_ok"} \subseteq Skipped[a]

(* A declassification is asked for only where the policy does not permit   *)
(* the egress outright, and spent once everything else about it holds.     *)
SpendsDeclass(a, c) ==
  /\ Monitored(a) /\ "context_policy_ok" \notin Skipped[a]
  /\ c.egress = "covered"
  /\ staged[a].declass # NoArtifact /\ Live(staged[a].declass, staged[a].now)

(* A presented approval is verified, and spent, even if none is required. *)
SpendsApproval(a, c) ==
  /\ Monitored(a) /\ "approval_artifact_ok" \notin Skipped[a]
  /\ staged[a].approval # NoArtifact
  /\ c.binds /\ Live(staged[a].approval, staged[a].now)

(* The monitor's cache as the approval conjunct finds it. *)
AfterContext(a, c) ==
  LET p == staged[a]  cache == entries[MonitorStore[a]]
  IN  IF SpendsDeclass(a, c) THEN Consumed(cache, DeclassKey(p), p.now) ELSE cache

ContextRefuses(a, c) ==
  IF Monitored(a)
  THEN /\ c.egress # "permit"
       /\ SpendsDeclass(a, c) =>
            Outcome(entries[MonitorStore[a]], DeclassKey(staged[a]), staged[a].now) # "admitted"
  ELSE a \in Capability /\ c.egress # "permit"

ApprovalRefuses(a, c) ==
  LET p == staged[a]
  IN  IF Monitored(a)
      THEN /\ c.highRisk \/ p.approval # NoArtifact
           /\ SpendsApproval(a, c) =>
                Outcome(AfterContext(a, c), ApprovalKey(p), p.now) # "admitted"
      ELSE a \in Capability /\ (c.highRisk \/ p.approval # NoArtifact)

StaleRequest(a, stage) ==
  LET p == staged[a]
  IN  \/ stage = "invocation_binding_ok" /\ ~Live(p, p.now)
      \/ stage = "dpop_proof_ok" /\ ~IsFresh(p.now, p.iat)

(* Seeded fault: a full store is taken for a passing check (fail open). *)
ConsumeRefusesDuplicates(a) ==
  /\ RequestStore[a] # None
  /\ Outcome(entries[RequestStore[a]], RequestKey(a, staged[a]), staged[a].now) = "duplicate"

ConsumeRefuses(a) ==
  /\ RequestStore[a] # None
  /\ \/ NoInvocationRead(a)
     \/ Outcome(entries[RequestStore[a]], RequestKey(a, staged[a]), staged[a].now) # "admitted"

Refuses(a, c, stage) ==
  /\ stage \notin Skipped[a]
  /\ \/ stage \in c.fails
     \/ StaleRequest(a, stage)
     \/ stage = "context_policy_ok" /\ ContextRefuses(a, c)
     \/ stage = "approval_artifact_ok" /\ ApprovalRefuses(a, c)
     \/ stage = "consume_id" /\ ConsumeRefuses(a)

(* The stages an arm runs ahead of a given one. *)
Before(a, stage) ==
  LET order == Order(a)
      place == CHOOSE i \in DOMAIN order : order[i] = stage
  IN  {order[i] : i \in 1 .. place - 1}

Reached(a, c, stage) == \A t \in Before(a, stage) : ~Refuses(a, c, t)

Admits(a, c) == \A t \in Elements(Order(a)) : ~Refuses(a, c, t)

Reason(a, c) ==
  IF Admits(a, c) THEN "admitted"
  ELSE CHOOSE t \in Elements(Order(a)) : Refuses(a, c, t) /\ Reached(a, c, t)

-----------------------------------------------------------------------------
(* The ids the decision asks each store to spend.                          *)

(* Seeded fault: the invocation id is consumed before the policy conjuncts. *)
SpentRequestEarly(a, c, s) ==
  s = RequestStore[a] /\ ~NoInvocationRead(a) /\ Reached(a, c, "context_policy_ok")

SpentRequest(a, c, s) ==
  s = RequestStore[a] /\ ~NoInvocationRead(a) /\ Reached(a, c, "consume_id")
SpentDeclass(a, c, s) ==
  s = MonitorStore[a] /\ SpendsDeclass(a, c) /\ Reached(a, c, "context_policy_ok")
SpentApproval(a, c, s) ==
  s = MonitorStore[a] /\ SpendsApproval(a, c) /\ Reached(a, c, "approval_artifact_ok")

Spends(a, c, s) ==
  LET p == staged[a]
  IN  (IF SpentRequest(a, c, s) THEN {RequestKey(a, p)} ELSE {})
        \cup (IF SpentDeclass(a, c, s) THEN {DeclassKey(p)} ELSE {})
        \cup (IF SpentApproval(a, c, s) THEN {ApprovalKey(p)} ELSE {})

CacheAfter(a, c, s) ==
  LET p == staged[a]
  IN  CASE SpentRequest(a, c, s) -> Consumed(entries[s], RequestKey(a, p), p.now)
        [] SpentApproval(a, c, s) -> Consumed(AfterContext(a, c), ApprovalKey(p), p.now)
        [] SpentDeclass(a, c, s) /\ ~SpentApproval(a, c, s) -> AfterContext(a, c)
        [] OTHER -> entries[s]

(* Seeded fault: the buffer overflows without counting what it lost. *)
AuditUncounted(a, reason) ==
  /\ log' = [log EXCEPT ![a] =
               Append(IF a \in Capability /\ Len(@) = AuditCapacity THEN Tail(@) ELSE @, reason)]
  /\ decided' = [decided EXCEPT ![a] = @ + 1]
  /\ UNCHANGED dropped

(* The deque drops its oldest record when it is full, and counts it; the   *)
(* OAuth arm's audit log is a plain list.                                  *)
Audit(a, reason) ==
  LET full == a \in Capability /\ Len(log[a]) = AuditCapacity
  IN  /\ log' = [log EXCEPT ![a] = Append(IF full THEN Tail(@) ELSE @, reason)]
      /\ dropped' = [dropped EXCEPT ![a] = IF full THEN @ + 1 ELSE @]
      /\ decided' = [decided EXCEPT ![a] = @ + 1]

-----------------------------------------------------------------------------
Bounded == \A a \in Arms : decided[a] < MaxDecisions

Present(a, p) ==
  /\ staged' = [staged EXCEPT ![a] = p]
  /\ UNCHANGED <<entries, log, dropped, decided, historyVars>>

(* Fail closed: nothing was presented.  The capability arm refuses before  *)
(* its decision path, which is what audits; the OAuth arm audits it too.   *)
DecideUnpresented(a) ==
  /\ staged[a] = NotStaged /\ Bounded
  /\ IF a \in Capability THEN UNCHANGED <<log, dropped, decided>> ELSE Audit(a, "not_presented")
  /\ UNCHANGED <<staged, entries, used, horizon>>

Decide(a, c) ==
  LET now == staged[a].now
      spent == [s \in Stores |-> Spends(a, c, s)]
      admitted == Admits(a, c)
  IN  /\ staged[a] # NotStaged /\ Bounded
      /\ entries' = [s \in Stores |-> CacheAfter(a, c, s)]
      /\ Audit(a, Reason(a, c))
      /\ used' = [s \in Stores |-> [k \in Keys |->
                    IF admitted /\ k \in spent[s] THEN now ELSE used[s][k]]]
      /\ horizon' = [s \in Stores |->
                       IF spent[s] # {} THEN Later(horizon[s], now) ELSE horizon[s]]
      /\ UNCHANGED staged

(* The process is asked for a new arm: everything the old one made is gone, *)
(* an attached cache is not.                                                *)
Provision(a) ==
  /\ staged' = [staged EXCEPT ![a] = NotStaged]
  /\ entries' = [s \in Stores |-> IF s \in Owned[a] THEN EmptyCache ELSE entries[s]]
  /\ used' = [s \in Stores |-> IF s \in Owned[a] THEN [k \in Keys |-> Never] ELSE used[s]]
  /\ horizon' = [s \in Stores |-> IF s \in Owned[a] THEN Never ELSE horizon[s]]
  /\ log' = [log EXCEPT ![a] = <<>>]
  /\ dropped' = [dropped EXCEPT ![a] = 0]
  /\ decided' = [decided EXCEPT ![a] = 0]

Next ==
  \E a \in Arms :
    \/ \E p \in Presentations : Present(a, p)
    \/ DecideUnpresented(a)
    \/ \E c \in Calls : Decide(a, c)
    \/ Provision(a)

Spec == Init /\ [][Next]_vars

-----------------------------------------------------------------------------
(* Properties.                                                             *)

(* What one store promises about one id, in the admitted calls that spend  *)
(* it: the abstract single-use store over that id alone.                   *)
SU(s, k) == INSTANCE SingleUse WITH Keys <- {k},
                                    lastGrant <- [j \in {k} |-> used[s][j]],
                                    horizon <- horizon[s]

(* The step is an admission of c at a. *)
Admission(a, c) ==
  /\ decided'[a] > decided[a] /\ log'[a][Len(log'[a])] = "admitted"
  /\ Decide(a, c)

(* Whatever is staged, replayed, refused half way or shared between two    *)
(* arms: an admission is a grant of the single-use store for every id it   *)
(* rests on -- the invocation's or proof's when a replay cache is attached *)
(* (the residual B3+ closes), and, under a monitor, the approval's when    *)
(* one is required or presented, and the declassification's when the       *)
(* policy refuses the egress.  None is granted twice within a window of    *)
(* the store's time, even across two arms (decide, _consume_jti,           *)
(* _consume_request_id, _declassification_covers, _approval_binds).        *)
AdmissionsPay ==
  [][\A a \in Arms, c \in Calls :
       LET p == staged[a]  r == RequestStore[a]  m == MonitorStore[a]
       IN  Admission(a, c) =>
             /\ r # None => SU(r, RequestKey(a, p))!Grant(RequestKey(a, p), p.now)
             /\ /\ Monitored(a) /\ "approval_artifact_ok" \notin Skipped[a]
                /\ c.highRisk \/ p.approval # NoArtifact
                => SU(m, ApprovalKey(p))!Grant(ApprovalKey(p), p.now)
             /\ /\ Monitored(a) /\ "context_policy_ok" \notin Skipped[a]
                /\ c.egress = "covered"
                => SU(m, DeclassKey(p))!Grant(DeclassKey(p), p.now)]_vars

(* decide's comment: an id is consumed only after every conjunct passed,   *)
(* so the retry of a refused call is not a duplicate.  An invocation id is *)
(* in a cache only on account of an admitted call.                         *)
NoBurnedInvocation ==
  \A s \in Stores : \A k \in DOMAIN entries[s] :
    k[1] = "inv" => used[s][k] # Never /\ entries[s][k] = used[s][k] + Delta

(* ADR 0026: the audit buffer may lose records but not the count of them,  *)
(* and loses none before it is full.                                       *)
AuditAccountsForEveryDecision ==
  \A a \in Arms :
    /\ Len(log[a]) + dropped[a] = decided[a]
    /\ dropped[a] > 0 => Len(log[a]) = AuditCapacity

Renewed(s) == entries'[s] = EmptyCache /\ horizon'[s] = Never

(* _evict_expired's docstring: "a replay inside the window can never find  *)
(* the cache empty".  Every admission requires a fresh id, so an id spent  *)
(* once by an admitted call is never spent by a second.                    *)
NeverAdmittedAgain ==
  [][\A s \in Stores, k \in Keys :
       used[s][k] # Never => used'[s][k] = used[s][k] \/ Renewed(s)]_vars

=============================================================================
