# Verification of the agent-communication experiment

The repository is an experiment that compares mechanisms for delegating
authority between software agents: a ladder of arms (no protection, OAuth with
and without token exchange and DPoP, offline capabilities) is driven through
the same scenarios, each arm decides whether a tool call is admitted, and an
oracle scores the decisions from records the arm cannot write. This directory
holds TLA+ models of it, the TLC configurations that check them, and TLAPS
proofs. Paths below are relative to the repository root.

Two things must be right. The **mechanisms** must keep what they promise: an id
is spent once, authority narrows, a refusal does not become an admission. The
**instrument** must report what happened: a clean verdict is the truth, and a
mechanism is not charged for the clock, for a dead process or for a lost record.

## 1. Inventory

| component | state | operations | talks to |
|---|---|---|---|
| replay cache, `src/sut/authz/jti_cache.py` | id pair -> expiry | `consume` | called by arms, monitor, arbiter |
| replay arbiter, `src/sut/replay_arbiter/`, `replay_client.py`, `harness/replay_arbiter.py` | one cache, a listening socket | serve `consume` and `fill`, kill | TCP, one line per connection |
| capability decision path, `capability_path.py` (B3, B3+, B-cap) | staged presentation, audit buffer, cache | `present`, `decide`, `provision`, `delegate` | cache, monitor |
| B0, B1 and the OAuth arms, `b0.py`, `b1.py`, `b2_*.py` | ladder configuration, staged credential, keep-alive connection, proof cache | the same | authorization server, boundary |
| policy plane: `reference_monitor.py`, `boundary_policy.py`, `label_context.py`, `harness/policy/` | the monitor's cache; the ledger's label directory | mint artifacts, `context_decision`, `approval_decision`, `reference_allow`, realized harm | called by `decide`; ledger; oracle |
| authorization server, `src/sut/oauth_as/` | signing key, nonces; no token store | Phase-1 minting, `exchange` | HTTPS, threads |
| OAuth boundary, `boundary.py`, `dpop.py` | none | verify, `admits` | called by arms |
| SUT process, `src/sut/sut_process/`, `harness/sut_process.py` | one arm, one session: credentials, presentation, fault | `provision`, `delegate`, `present`, `decide`, `run_task` | two pipes |
| scenario runner, `harness/runner.py` | one run's records | `run_scenario` | all of the above |
| mediation boundary, recorder, effector, ledger | events; ledger file, writer process | mediate, record, act, append | MCP session, pipe |
| oracle, `harness/oracle/` | none | `linkage_of`, `log_integrity_failure`, reference and harm predicates | reads records |
| campaign, `harness/campaign.py` | scored and unscorable cells | preconditions, `run_campaign`, `clock_refusal`, `score_cell` | runner, wall clock |
| matrix grouping, analysis: `harness/matrix_grouping.py`, `src/analysis/` | none | which comparisons are sound; series, deltas, repetitions | read the campaign's tables |
| capability chain, `src/sut/capability/`, `harness/verifier/holder_binding.py`, `harness/credential_faults.py` | the staged presentation | mint, attenuate, hand over, invoke, verify, inject a fault | called by the arms, the gates and the runner |
| gates, tools | | drivers and reports | |

What is hard in each, and what makes it correct:

* **Cache and arbiter.** `now` is injected, so requests arrive with instants out
  of order; clients time out after their line was sent; the arbiter is
  single-threaded and may be killed. Correct: one winner per id and window, no
  admission the arbiter did not make, never over capacity, no live entry
  dropped; nobody who has written waits for ever, and only a silent client holds the loop.
* **Decision paths.** Up to three ids are spent in one decision, in two caches,
  at different places of an order that stops at the first refusal; a cache may be
  shared, full, or renewed with the arm; a presentation stays staged. Correct:
  an admission rests on ids that were granted; a refusal burns no invocation.
* **Capability chain.** Four separately signed things (blocks, HTCs, INV, access
  token) are joined by digests, and ten conjuncts see one join each. Correct: no
  combination of valid pieces is admitted that was not delegated; a fault and an
  ablation touch the one conjunct they are about.
* **Authorization server.** It sees one hop at a time. Correct: over any number
  of hops authority only narrows, in all planes at once; the `act` chain is
  who handed the token to whom; a request sent away for its nonce loses by that nothing
  but time.
* **Separated run.** Two processes, an event loop, a worker thread and a ledger
  process; a timed-out call is still queued; any of them dies; the child lies.
  Correct: whatever the oracle reads as clean is what happened.
* **Policy plane.** The monitor and the oracle implement one label policy twice, over
  different fields, windows and digests; artifacts are spent by decisions that go
  on to refuse. Correct: the two disagree only for a reason one can name, harm is
  a breach, and a high-risk effect has a consent of its own.
* **OAuth session.** Operations raise half-way and the session goes on with what
  they left; the hop crosses a connection that may be dropped or wedged. Correct: no
  arm admits beyond its row, half-provisioned arms admit nothing, a fault is
  refused by the check it is about if it changed anything, a proof is admitted once.
* **Campaign.** Several readers of the clock. Correct: a mechanism is not
  charged for a credential that expired.
* **Table and analysis.** Verdicts are put together from records of a whole run;
  sets of arms and tables of bits are kept by hand beside the arms they describe.
  Correct: an admitted attack is never scored clean, the groupings and the
  attributions agree with what the arms do, two passes disagree for a reason, a figure
  is taken over the runs it names.

`PROJECT.json` lists every hazard at its line, with the properties that cover it.

## 2. Modules

| module | models | extends |
|---|---|---|
| `Freshness` | the one freshness rule | |
| `ReplayCache` | `JtiCache` as operators on its contents | `Freshness` |
| `SingleUse` | abstract: what any replay store promises | |
| `ReplayArbiter` | arbiter, clients, kill | `ReplayCache`; implements `SingleUse` |
| `AdmissionPath` | `decide` of B3/B3+ and of the DPoP arm, monitor, caches, audit | `ReplayCache`; uses `SingleUse` per store and id |
| `CapabilityChain` | the capability arms' credentials, their faults, the ten conjuncts and the independent verifier | `Freshness` |
| `TokenExchange` | the authorization server, and what the boundary makes of its tokens | |
| `OracleLinkage` | the oracle's reading of one invocation's records, and gate G-12's damage | |
| `SeparatedRun` | runner, SUT process, event loop, tool stack, ledger | `OracleLinkage` |
| `CampaignClock` | the loop over the cells, its clocks and guard | `Freshness` |
| `PolicyPlane` | label policy, artifacts, the monitor's two decisions, ledger labels, oracle predicates of F4/F5 | `ReplayCache` |
| `OAuthSession` | one SUT session driven operation by operation: B0, B1, the OAuth arms, their faults and the hop | `ReplayCache` |
| `LatencySeries` | the series of the latency analysis and the bit difference of a delta | |
| `LatencyMeasurement` | the samples a caller may hand the latency analysis | `LatencySeries` |
| `CampaignTable` | preconditions, the cells' decisions, mishaps and scores, repeated passes, groupings, disagreements of repetitions | `LatencySeries`, `OracleLinkage` |
| `ReplayCacheProofs`, `ReplayArbiterProofs`, `AdmissionPathProofs`, `CapabilityChainProofs`, `TokenExchangeProofs`, `PolicyPlaneProofs`, `OAuthSessionProofs` | theorems | the module they name |
| `HarnessProofs` | theorems | `SeparatedRun`, `CampaignClock`, `CampaignTable`, `LatencyMeasurement` |
| `MC...` | the instances TLC checks; `MCCampaign` is that of the clock, the table and the measurement, each by itself | the module they name |

An operator commented *Seeded fault* is not part of a model: it is a plausible
bug of the definition it stands before, with which the named property must
fail. `PROJECT.json` "mutants" pairs them with the properties, so that no
property is kept that no bug could break.

### Correspondence with the code

`PROJECT.json` "map" gives the lines of every definition. The choices behind it:

* **ReplayArbiter.** `pc[r]` is a client's place in `_round_trip`; `backlog` is
  the accept queue, `written` the lines in sockets. The `fill` operation is one
  action per id, since the process may be killed between two. A connection that
  outlives its client is served all the same and its reply is lost. A client that has
  connected and stays silent is one that never takes `Send`.
  `lastGrant`, `horizon` and `granted` are history variables and
  become the abstract state of `SingleUse`.
* **AdmissionPath.** One arm decides one call at a time in one process, so
  `Decide` is one step. The checks that keep no state (signatures, containment,
  scopes) are inputs: a call says which it fails and what the label policy makes
  of it. The three consumptions, the order of the conjuncts, the two caches and
  the early stop are the model. In the capability path the order is
  evaluated with the id consumed last; in the DPoP arm the proof is consumed
  inside the holder binding.
* **CapabilityChain.** Cryptography is symbolic: a key, its kid and its principal
  are one value, a token `<<d, n>>` is the n-th prefix of the d-th delegation,
  and a digest is what it was taken of. `by` is the key that really signed.
  `Restage...` and `Reseal...` are what the gates' fixtures and
  `harness/verifier/holder_binding.py` `reseal` do to a staged presentation. A task stands for a
  (task, audience) pair and a call for its tool, method and arguments. The chain
  has the arm's fixed length of two; the Supervisor and kappa sign what the
  signer issues, save for one HTC with one field off; `<<-d, n>>` is the same
  delegation minted under another root. The corruption of a token's signature
  replaces its last base64url character, two bits of which are the signature's: the
  fault either breaks it or leaves a token that is only spelled otherwise
  (`Respelled`), and the INV is re-bound to either. It leaves out the
  consumptions, which are `AdmissionPath`'s.
* **TokenExchange.** The server keeps no record of its tokens, so any client may
  present any token ever issued. An exchange reads the clock once and shares only
  the growing nonce set, so it is one step although the server is threaded.
  Authority is the expansion of `authorization_details`. Signatures verify
  exactly what was signed; a request that cannot be parsed is one input. `turned`
  remembers the requests that were answered *use_dpop_nonce*.
* **SeparatedRun.** One action per step of the runner's thread, of the child, of
  the event loop and of the ledger. `Leave` cannot happen inside a tool because
  the loop takes the worker's return between two callbacks. Deaths and torn lines
  may happen at any step; the pipe's end of file is read only when it is empty.
* **OracleLinkage.** Operators on event and row sequences, with the alternatives
  in the order of `linkage_of`.
* **CampaignClock.** One action per step of a cell; the wall clock may move
  between any two. The cells are benign controls with a monitor attached: the
  only thing that may block them is time.
* **PolicyPlane.** `Mint` signs the artifacts of a scenario, `Decide` is an arm's
  decision on a call with any presentation: this scenario's artifacts, an
  earlier one's, none, or one field misissued. What is presented is not state, so the
  properties range over everything that could be presented in a state. A value
  stands for its bytes, a call for its `authz_context_hash`; the label of a value
  is what its ingestion plane gave it. `EgressDecision` is the rule and
  `VerdictTable` the table the frozen document writes out: an assumption TLC
  evaluates says that they agree. `Directory` is what the ledger's label directory
  was told, the one constant that differs in `unscored_harm`.
* **OAuthSession.** `stage` says where a provisioning ended: an exception leaves
  what was assigned before it. `Session.credentials` survives a provisioning, as
  in `sut_process/__main__.py`. `link` is the reused connection: *dropped* is
  reconnected by `http.client`, *wedged* is a request whose answer was given up on.
  The answers of the server are what `TokenExchange` lets it say to an arm. The
  steps of `decide` are in `Reason...`, in the order of the code; `Corruptions` is
  what the corruption of a token may leave, a broken one or a respelled one.
  `admissions` and the fields `of` and `own` are history.
* **CampaignTable.** A cell is a scenario and an arm. `Decide` takes the arm's
  decision from its bitmask, the scenario's attack or fault and the monitor, which is
  what the three modules above establish. A run follows it, or something befell the run
  (`Mishaps`): a refusal no mechanism decided (the arm raised, the other process sent no
  decision, a credential lapsed within the cell), or a corruption that corrupted
  nothing. An exchange that times out raises out of the run and is `Abort`. The
  events and rows of the run are `OracleLinkage`'s, and the principal is that of the
  token that was presented, if a presentation was kept: the Supervisor's own with
  `B2-broad-noexchange`, which the sealed `oauth_actor` is not. `ScoreCell` reads only
  those. A tool may fail to take effect, a cell may not complete, an exception may end
  the pass. `Parameters` is what `run_campaign` is called with and what its
  preconditions look at.
* **LatencySeries.** No duration is modelled: a series is the set of repetitions a
  figure is taken over, and an exception is a predicate `...Refused`.
* **LatencyMeasurement.** `analysis/latency.py` measures nothing and gets its samples
  from a caller the repository does not have. The module lets any caller hand over
  repetitions of any arm, scenario and phase with the spans `TimingSeams` records in
  process (all five) or out of process (setup and end-to-end), or without one of them.

## 3. Runs

| run | shows | bounds |
|---|---|---|
| `replay_arbiter` | the arbiter implements `SingleUse`; no invented admission, one winner, no grant forgotten, no live eviction; every request that was written returns, and every connection leaves the backlog unless a silent client holds the loop | 3 requests, 2 ids, capacity 1, instants 0 and 2, window 2 |
| `admission_path` | admissions are grants of the store for every id they rest on; no burned invocation id; the audit count adds up | 2 arms on one shared cache of 2, one monitor, 3 presentations, 3 calls, 2 decisions each between re-provisionings |
| `capability_chain` | an admission was delegated and invoked by the last holder; boundary and verifier agree; faults are attributed; ablations are matched | 2 delegations of 2 hops, each under kappa and under another root, 4 calls, instants 0 to 2, one edit and then a new INV (ablations: one edit), 6 arms |
| `token_exchange` | no authority beyond any ancestor; the chain is the delegation; nothing clamped; a request sent away for its nonce loses to time alone | 2 base tokens, 4 tokens, 3 principals, 3 instants, 2 nonces, 28 requests |
| `separated_run` | clean verdicts are the truth; damage is detected; the tool acts only on a recorded admission; nothing after the run; the run ends | one invocation, three faults, with and without a ledger |
| `policy_plane` | monitor and oracle disagree only for named reasons; harm is a breach; consent is spent | 5 scenarios of the corpus's kinds, 6 sets of labels, 2 mints, 2 effects, instants 0 to 2 against lifetime 2 and `Delta` 1 |
| `oauth_session` | no admission beyond the ladder row; half-provisioned arms refuse; faults are refused by their check; a proof is admitted once | 6 arms, 3 authority elements, 2 proofs, a cache of 1, instants 0 to 2 against lifetimes 1 and 2 |
| `campaign` | *clock:* false blocks lapse within their cell; every cell accounted once. *Table:* attacks are never scored clean; groupings predict the table; disagreements of two passes are accounted for; an increment moves its mechanism only. *Measurement:* Row 1 is taken over the warm runs that have both spans, and a run it leaves out refuses the report | *clock:* 7 cells covering every kind of arm, instants 0 to 5. *Table:* the 13 pilot scenarios, the nine arms, 5 configurations that run and 9 that are refused; 2 passes over each single cell and each pair a monitor divides, one over each pair a mechanism divides. *Measurement:* 2 arms, 2 scenarios, 2 phases, 4 repetitions, one of the segment's spans that may be missing |

In `campaign` every behaviour is of one of the three modules, with the other two left
where they start. `CampaignClock` and `CampaignTable` are two views of one loop, what
the clock does to a pass and what the scores of several say, and a lapse of the first
is a mishap or an unscored cell of the second; the latency samples come from neither.

Why the bounds are enough. *Arbiter:* duplicates need two requests, an eviction
in between a third; a cache of one is full at once; an instant at or past expiry
and one before it give every order of `now`. *Admission path:* two decisions per
arm give refuse-then-retry and admit-then-replay on each side of the window, two
arms give sharing, and re-provisioning makes their number unbounded.
*Chain:* two
delegations are what a splice needs, two blocks are what the arm makes, the
instants reach the last and the first lapsed instant of an HTC, a capability, an
INV and the token; a second edit other than a new INV only breaks more joins.
*Exchange:* two hops on top of a base token is the
first chain where an ancestor is not the parent, and the four tokens may as well be
siblings; old tokens are presented again at will; a second nonce is issued between a
demand and its retry; there is one request for each refusal of the code. *Separated run:* a run makes one invocation. The model
is bounded by its control flow, not by a constant. *Campaign:* cells are
independent but for the clock, and the clock outlives every lifetime. *Policy
plane:* a mint and a later one of the same or of another scenario give every
order of fresh, stale, expired and spent artifacts; two effects are what reuse needs.
*OAuth session:* one element inside the attenuation, one inside the task's grant
and one outside both, so that each ladder row reaches something another does not;
the number of operations is unbounded. *Table:* the scenarios and arms are the
repository's own; a comparison of
arms needs two cells of a pass, a repetition two passes of a cell, and only a change
of the monitor needs both. *Latency:* a
figure needs a repetition of each of its two arms, and two more give the warm-up, the
other phase, the refusal path and each way of being incomplete.

Four runs end in a counterexample. Each compares a sentence of the repository with what
its code does; `PROJECT.json` "findings" quotes both.

| run | the sentence that does not hold |
|---|---|
| `fresh_replay` | "a replay inside the window can never find the cache empty": with skew, or at the last instant of the closed window, an evicted id is still fresh |
| `sut_stall` | "Every call is deadline-bounded": the pipe is read without a deadline |
| `fault_no_op` | a credential fault is "never silently a no-op": of a token whose signature ends in `A`, one in four, the corruption changes padding bits only, and the call is admitted |
| `unscored_harm` | the effector resolves the labels of what the tool acted on: the runner gives it no directory, so a campaign scores no F4 harm |

Only seven of the ten conjuncts can be ablated at all. Later conjuncts read what
`crypto_chain_ok`, `htc_chain_ok` and `oauth_resource_authorization_ok` leave in
`state` and refuse without it, so a variant without one of those admits nothing
(`LeavesToLater`); the run takes three of the other seven and one of these, the proof
all ten. `ArmIdentity.check_disabled` accepts exactly one disabled conjunct.

### Divergences noted while modelling

What the code does, where a comment, a document or a reader would say otherwise.
The models have all of it; each is one or two steps by reading, so no run is spent on it.

Decision paths and arms:

* The DPoP arm consumes the proof id inside `check_holder_binding`
  (`b2_dpop.py:200`), ahead of the scope check and the monitor, where its docstring
  (215) says "AFTER every other check has passed": a call refused for its scope
  burns its proof.
* The monitor accepts an artifact at `now = exp` (`reference_monitor.py:391`);
  ADR 0030 (139) says `nbf <= now < exp`, and so does the oracle.
* Declassification and approval are spent in conjuncts 7 and 8, whatever refuses
  after them.
* A response that timed out leaves the connection in request-sent state;
  `_post_token` (`b2_exchange_task.py:463`) says that `http.client` reconnects,
  which it does after a drop only. Every later hop of that instance is refused.
* `provision` keeps the session's credentials: an arm that presents before it
  delegates presents the last arm's token, although
  `_check_subject_token_matches_the_ladder_grant` takes care of the base token.
* Only the in-process runner applies a scenario's credential fault
  (`runner.py:667-693`); in separated mode the credential is decided as staged.
* The presentation observed for the verifier is the one staged before the fault
  (`runner.py:692`).
* A DPoP arm without a key and with a proof staged raises, and is recorded as
  `arm_error`, not as a refusal.

Instrument:

* The outcome of `run_task` is never read (`runner.py:786`): a child that died
  after its invoke event is returned as any other run, where
  `sut_process.py:26-28` promises "a fail-closed denial".
* A provisioning that is refused, or a child that cannot be spawned, leaves the
  ledger writer open (`SetupFails`, `SpawnFails`).
* `_check_subject_token_matches_the_ladder_grant` reads the clock after the guard has judged the
  cell: a token that expires in between aborts the pass, where `campaign.py:506`
  says that "one expired token now produces one outcome for every arm".
* `matrix_grouping.py:9` says of the F1 grouping that nothing about a run changes
  it. The two broad arms refuse `gt-f1-root` once the monitor is attached, since
  its call needs an approval; `GroupingsPredictTheTable` therefore says what the
  ladder predicts without the monitor.
* `run_campaign` does not compare its `monitor_attached` argument with the arms' setups,
  and `Verdict.key()` leaves it out.
* The replay bit of the latency table does not see that the DPoP arm has a proof
  cache.
* The warm-up is discarded by index among the repetitions present.
* `analysis/latency.py:30-31` says that "a repetition missing either span is refused". A
  repetition with neither, as every run timed out of process is, is dropped from the
  series unseen (`_segment_values`, 179-197); `RowOneIsTakenOverWholeRuns` says what
  still notices it.
* The harness verifies the presented token against no actor: the oracle does, and an
  effect of `B2-broad-noexchange` in F2 is harm although its token verifies
  (`predicates.py:324-328`).

The disagreements between monitor and oracle that `PolicyPlane`'s properties name as
exceptions: a sensitive value that is merely written (row 4 permits it, the oracle
wants a declassification); a sensitive subject over a public body, which only the
ledger sees (`boundary_policy.py:102-112`); an approver who names another
recipient; an internal value sent out, which only the monitor wants
declassified. The oracle knows neither `Delta` nor single use.

### Fairness

* `ReplayArbiter`: weak fairness of the accept loop, and of a client's read or
  ten-second timeout once it has written its line. Nothing makes a client connect, nor
  one that has connected write: the accepted connection is read with no deadline
  (`replay_arbiter/__main__.py:85`), so `OnlySilenceHoldsTheLoop` names that case. A
  kill is never forced.
* `SeparatedRun`: `HarnessSpec` has weak fairness of the runner's thread (whose
  tool call has a timeout) and of the event loop. `ResponsiveSpec` adds that the
  child goes on *or dies*. The run ends under the second; `sut_stall` shows that
  it need not under the first, which is the whole of what the code guarantees.

Deadlock checking is off where the system really stops: the arbiter's clients
are finite, a run ends, a pass ends.

## 4. Proofs

The theorems hold for every value of the constants that satisfies the named
assumptions in the modules (a positive window and capacity, well-typed registries,
requests, cells). TLC evaluates every assumption on the instances it checks; the ones
that say more than a type are:

* `CapabilityChain`, `RegistryAssumption`: no two principals share a key, and a fault
  finds a registered key other than the holder's and one that is not registered.
  `ArmsAssumption`: an arm selects B-cap's conjuncts or B3's, and an ablation is B3
  without one (`ArmIdentity.check_disabled`).
* `CampaignTable`, `CorpusAssumption`: a sealed record is labelled benign just when
  nothing in it is off, an F1 attack amplifies, an F2 attack corrupts a credential,
  and in F4 and F5 nothing is off but the artifacts. The pilot corpus is so; the
  confirmatory one is sealed, and the theorems are about it if it is so too.
  `DriverAssumption`: with the label *on* the arms' setups do attach the monitor, as
  the drivers do. `run_campaign` itself does not compare the two (section 3).
* `PolicyPlane`, `LabelsAssumption` and `CallsAssumption`, see below.


* **ReplayCacheProofs** — lemmas on the check-and-insert: it keeps a bounded
  cache, forgets only what has expired, and remembers an admitted id for `Delta`.
* **ReplayArbiterProofs** — type correctness, capacity, no invented admission,
  one winner per window, no grant forgotten, no live eviction, and the refinement of `SingleUse`.
  `RemembersGrants` (the cache holds every grant still in its window) makes an
  admission a legal grant, but says nothing of grants that have left the window;
  `GrantsCounted` and `GrantsSpaced` carry those, and `RepliesBacked` ties a
  client's verdict to the arbiter's, across timeouts and deaths.
* **AdmissionPathProofs** — no burned invocation, the audit count, and that every
  admission is a grant of each single-use store it draws on (`AdmissionsPay`, the
  composition of the decision path with `SingleUse`, a step property). For any
  arms, stores, sharing, capacity and ablation. `Remembered` relates each cache entry to
  the grant that made it; `ListsDropNothing` and `LastConjunct` say that the
  request id is spent by the conjunct after which nothing refuses.
* **TokenExchangeProofs** — type correctness, no authority beyond any ancestor,
  and nothing clamped, over chains of any length. A hop compares with its parent
  only; `Narrowed` states the comparison against every ancestor in every plane,
  and `Located` that a token's details all name its audience, without which the
  filter on the way out could remove something. `TurnedStands` says that what a request
  sent away for its nonce was granted on, its windows apart, stands for good:
  tokens are never withdrawn and nonces never spent. The act chain follows the policy by `ChainInv`: a token
  descends from exactly one base token (`Descends`), its `may_act` is the policy's
  for its current holder (`Entitled`), and the hops so far are chained.
* **CapabilityChainProofs** — type correctness and all four properties, for any keys,
  principals, calls, arms, delegations and edits. The conjuncts see ids, keys and
  digests and none of them a delegation; what ties them to one is an invariant of
  everything that can be staged. `Evident`: each prefix was issued by some delegation,
  kappa signed first HTCs only and the Supervisor hands over to the Specialist only;
  `Presents` and `Injected`: what nobody touched is what the arm sealed, and a faulted
  presentation is that with one fault. From the ids in the HTC chain it then follows
  that all blocks are of one delegation, and from its exp and task that this is still
  running and for this task. `AblationIsMatched` and `FaultIsAttributed` need the
  types and the order of the conjuncts, `FaultIsAttributed` also `Injected`, which tells
  a token that was broken from one that was respelled.
* **HarnessProofs**, one run — type correctness, the tool acts only on a recorded
  admission, a verdict the oracle reads as clean is the truth, damage to the records
  is detected, and nothing happens after the run. `Wires` says what may be in the
  two pipes and in which state of either end, `Decided` and `Called` tie the
  call on the event loop to the decision that was recorded, and `RunRecorded` the rows
  in the ledger to how far the call had come. Which rows there can be is then few
  enough to say what each kind of damage makes of them.
* **HarnessProofs**, the clocks of a pass — type correctness, that a false block lapses
  within its cell, and that every cell is accounted for once. `Judged` carries what
  the guard established to the decision, `Holding` what the arm holds after
  provisioning and after the hop, `Passed` which cells the loop has left behind.
* **HarnessProofs**, the table of repeated passes — type correctness and all four
  properties, for any corpus of the assumed shape, sweeps, configurations and number
  of passes. The invariant is small: a cell of a table is what `ScoreCell` makes of
  some run that follows its arm's decision or what befell it (`FromRuns`), and a cell
  passed over is in just one of the two lists (`RunningInv`); what is hard is what the
  tables then say. `RecordFacts` reads the records of a run as the oracle does,
  `ConfigurationDecision` reduces an arm's decision in F4 and F5 to the artifacts,
  `TwoVerdicts` compares two scores of one cell under two configurations, and
  `ThreeIncrements` finds the pairs of arms one column apart.
* **HarnessProofs**, the latency analysis — that Row 1, the report and the arm-pair
  deltas are taken over the same whole runs or refused. Nothing is assumed of the
  samples, so no invariant is needed: `SegmentIsOfWholeRuns` and `ReportIsOfEveryRun`
  are facts about the analysis on any set of them.
* **PolicyPlaneProofs** — type correctness and all four properties of the plane,
  for any scenarios, labels, artifacts and capacity. For `ConsentIsSpent` the
  invariant ties an entry of the monitor's cache to the effect that spent it and
  an artifact that verifies to its mint. The three that compare monitor and oracle
  are about each presentation that can be made and follow from what its artifacts
  were minted as, under `LabelsAssumption` (the label issuer signs what the
  ingestion plane said) and `CallsAssumption` (only a mail has a recipient).
* **OAuthSessionProofs** — the four properties of the session. `Provisioned` says
  what each stage of a provisioning has set, `Obtained` and `OnStage` what a token
  that any arm holds or staged can be, `Corrupt` what a fault left, or that it left the
  signature as it was; `Remembered`
  and `Spaced` are the cache's side of the proofs.

Where the type invariant of a module is proved and shows nothing beyond types it is
not a property of a run as well; its theorem (`...TypeOK`, `...TypeCorrect`) stands alone.

Only model-checked: liveness (`EveryRequestReturns`, `OnlySilenceHoldsTheLoop`, `RunEnds`;
fairness and ENABLED are beyond the prover). Every safety property of a passing run
is also proved.

## 5. Plan

Next models, in order:

1. **CapabilityChain**, continued: chains of any length as the verifier allows
   them, and an abstract delegation the chain implements.
2. The setup builders of the runner, composed with `OAuthSession` and
   `CapabilityChain`: what an arm is provisioned with is what its row says.
3. The gates that drive several processes at once (G-9, G-12), as environments
   of `ReplayArbiter` and `OAuthSession`.

Next proofs: that the cell-by-cell decisions `CampaignTable` takes from the bitmask
are those of `CapabilityChain`, `OAuthSession` and `PolicyPlane`, each on the
presentations its scenario stages; and the properties of the models above as they come.

## 6. Not modelled

* Cryptography, canonical JSON, key derivation and schemas: functions of their
  arguments, taken to do what they are called. A signature verifies exactly what
  was signed. The twelve items of a DPoP proof are one input.
* The Biscuit library's Datalog evaluation, and the MCP SDK's argument validation
  (the latter is one external action).
* The raw-block parsing and the fixture constructors of the capability chain.
* The runner's setup builders; the SUT process's `sealed`, `gc_sweep`, `probe`
  and `ping`, which change no state of an arm.
* Gates, smoke tests and tools, which drive or report what the modules above
  produce: about a quarter of the repository's code, most of it straight-line.
* Percentiles, bootstrap intervals and the share of a model turn: arithmetic on
  durations.
