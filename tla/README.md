# MandateGuard: a TLA+ model of its path from a purchase to an order

MandateGuard lets a buyer agent spend money only under a signed mandate: a
proposal is checked by rules and by a semantic judge, an `ALLOW` becomes a
signed single-use capability, and a guarded executor turns the capability into
at most one Razorpay order while the mandate is in force. A `REVIEW` may be
recovered with evidence from trusted sources. This directory models the whole of
that path, the service's tables behind it and the page in front of it, checks the
models with TLC and proves their main invariants with TLAPS.

Paths below are relative to the repository; `execution/`, `product/` and the like
are directories of the package `src/mandateguard/`.

## Inventory

| Component | Code | State | Operations |
|---|---|---|---|
| Consent registry | `execution/mandate_state.py` | rows per version, current-version pointer, audit chain, one SQLite file | `register_active`, `revoke`, `supersede`, `record_execution_refusal`, `execution_guard` |
| Execution kernel | `execution/authorization, gate, executor, ledger, razorpay` | signed capabilities, ledger row per nonce, a second SQLite file | `issue_execution_authorization`, `execute_razorpay_order` |
| Authorization decision | `policy/*`, `semantic/*`, `models/decision.py` | none | tier A, tier B, semantic verdict, combination |
| Checkout | `intelligence/orchestration.py`, `product/service.py` | the run under way | proposal, decision, trace, registration, issuance, execution |
| Semantic cache | `intelligence/cache`, `semantic/cache.py` | SQLite table, `last_status` | get, put |
| Commerce service | `product/service.py`, `product/http.py` | tables of runs and request ids; per run: result, timeline, audit, flags | start, execute, mutate, replay, revoke, recover |
| Sessions | `sandbox/session.py`, `product/playground.py` | sessions with their runs and onboarded merchants | create, get, `record_run`, `add_onboarded`, `authorize_run_access` |
| Review recovery | `recovery/*` | review with rounds, evidence, audit; SQLite audit store | create, reserve round, complete round |
| Evidence registry | `recovery/registry.py` | sources and manifests with windows and supersession | construct, candidates, acquire |
| Browser client | `product/static/app.js` | snapshot, run id, generation, locks | search, preview, authorize, poll, guided scenario, operation |
| Decision journal | `audit/*` | append-only file with a hash chain | append, read_all |
| The rest | discovery, ml, benchmark, engineering, sandbox data, other views | offline data | batch jobs, presentation |

How they interact. The page sends one request per click and polls. The HTTP server
answers each request on a thread of its own; a request takes one step under the lock
of the sessions, another under that of the service, and reads a run between them. A
run executes on another thread: `run.lock` covers the entry checks of a request
and every write to the run, never a provider call. All runs share one semantic
cache. An execution holds the registry's guard (`BEGIN IMMEDIATE` on the
registry's file, behind an `RLock` of the registry object) from before the gate to
after the ledger's last mark. The ledger is a second database with its own
commits, so a crash can separate the two. A revocation needs the same guard and
therefore waits for the provider. Recoveries of all reviews share one provenance
store, a third database.

What is hard: a revocation against an execution in flight; one call per nonce
across threads, processes and crashes; two databases that do not commit
together; a COMMIT that fails; overlapping requests about one run; a
counter and a cache status that are read without a lock; tables that evict what
another thread is using; a retry whose run is gone; sources that expire between
their choice and their answer; an `ALLOW` on less evidence, or on none; and answers
that overtake each other on the page. `PROJECT.json` lists every hazard with its
line and the properties that cover it.

What makes each component correct:

* registry: a version that ended never returns; rows, pointer and successor links agree; the audit trail explains the rows;
* kernel: at most one provider call per nonce; every call under consent in force; what the ledger says about a nonce is true; every refusal a caller was told is recorded;
* decision and checkout: whatever is allowed is inside the mandate at catalogue prices; evidence that is withheld allows nothing; an `ALLOW` is the model's answer to this very question; every run ends;
* service and sessions: a request id and its run belong together; a run is its owner's; nothing pays twice over retries, evictions and restarts; flags are released; claims about provider calls are true;
* recovery: rounds and evidence within budget; a review is resolved once; provenance stored before a provider call or a capability exists; evidence that is acquired is authoritative and complete;
* page: what it shows is what the server has; what was retired paints nothing; nothing stays busy.

## Modules

| Module | Models |
|---|---|
| `MandateState` | the registry: one action per transition, with its audit event |
| `ConsentGate` | abstract: what the kernel promises. A call starts atomically with the decision that its version is the one in force and its nonce is fresh, and consent does not change during it |
| `GuardedExecution` | the kernel over the registry: threads in processes, both locks, gate, ledger, provider, crashes, storage faults |
| `AuthorizationDecision` | every check of both tiers, their composition, the reduction of a semantic result; operators only |
| `AgenticCheckout` | the threads from a proposal to a decision, a capability and an order, with the semantic cache they share; extends `AuthorizationDecision` |
| `CommerceRun` | one run of the service and the requests about it |
| `CommerceService` | all runs, request ids and sessions, and the HTTP threads that use them |
| `ReviewRecovery` | recovery of a review over its rounds, and the provenance store that all reviews share |
| `EvidenceRegistry` | the trusted sources: construction, candidates, acquisition; operators only |
| `RecoveryAcquisition` | composes `ReviewRecovery` with `EvidenceRegistry` and a clock |
| `PlaygroundPage` | the interactions of the playground page with the server |
| `MandateStateProofs`, `ExecutionProofs`, `LedgerProofs`, `CheckoutProofs`, `ReviewRecoveryProofs`, `CommerceRunProofs`, `CommerceServiceProofs`, `PlaygroundPageProofs` | theorems about the modules they name (`LedgerProofs` about `GuardedExecution`, `ReviewRecoveryProofs` about `RecoveryAcquisition` too) |
| `MCGuardedExecution`, `MCAgenticCheckout`, `MCReviewRecovery`, `MCRecoveryAcquisition`, `MCCommerceService`, `MCPlaygroundPage` | finite constants for TLC |

Operators whose comment begins with "Faulty" are plausible bugs in the operator
that follows. Nothing uses them; replacing the operator by its faulty form makes
TLC refute the property `PROJECT.json` pairs with it.

### MandateState

`states[m][v]` is the row of a version, `current[m]` the pointer (0: no row) and
`audit[m]` the chain. `RegisterActive`, `Revoke`, `Supersede` and
`RecordExecutionRefusal` are the transaction bodies, guards included;
`ConsistentRows` is `_assert_consistent_unlocked`. A transition that raises
changes nothing and is no action here. `revoke` of a version that is already
revoked is idempotent, also no action. Hashes of audit
events are left out: the sequence itself is the chain.

### GuardedExecution

A connection is one process with its registry object. A thread's `pc` goes

    idle -> lock (the RLock) -> begin (BEGIN IMMEDIATE)
         -> apply                                  a transition, with its COMMIT
         -> gate -> refused -> return              refused for the mandate's state
         -> gate -> granted -> calling -> answered -> return

`call[t]` holds the arguments, with the caller's own reading of the clock, which may lag by
`ClockLag`. `Reserve` writes the ledger at once, since that database commits by
itself; the refusal event of the registry appears in `Return`, with the guard's
COMMIT. `Answer` classifies what the adapter sees of the provider's `order`;
`Mark` writes the ledger and raises if the row is not this reservation any more.
`Crash` frees every lock of a process and forgets its threads. `LedgerFault` is a
SQLite error of the ledger, `CommitFails` a COMMIT that raises and leaves the
connection inside its transaction. A capability's checks are represented by one
of each kind: what the gate checks before the clock (`SIGNATURE_INVALID`), the
clock, and what it recomputes (`TRANSACTION_HASH_MISMATCH`). The gate's
`MANDATE_ID_MISMATCH` cannot occur behind the mandate-hash check. Issuing through
a connection whose COMMIT failed is left out.

### AuthorizationDecision

A scenario is what the evaluators are given: mandate, transaction, the hash it
declares of itself, catalogue snapshot, the two commitments, the clock and the
consumed nonces, each of the last four possibly withheld. `A1`..`A8` and
`B1`..`B10` are the checks with the code's order of "fails" before "cannot be
evaluated". A hash is the value it is the hash of; amounts are integers.
`WithinMandate` is the reference: it says of the data, without any check, what an
`ALLOW` promises.

### AgenticCheckout

    buyer -> authorize -> lookup -> model -> put -> report
          -> register -> issue -> execute -> ended        ALLOW
          -> review -> authorize ...                      REVIEW, and its recovery

`rows` and `lastStatus` are the shared cache: a row's key commits to the mandate,
which is the run's, and to the evidence. `Put` looks the key up once more. A damaged
row or a storage fault makes the first evaluation abstain on everything
(`_safe_authorize`) and a recovery's evaluation raise. `Report` reads `lastStatus` after
the evaluation, as the trace does. `Recover` is a second evaluation: later, and on
evidence that contains the first. `Issue` decides the same scenario again from the cache
alone and compares. `replied` remembers what the model last said about a key, which is
what `AllowIsEarned` is stated with. The proposal itself is a choice.

### CommerceRun

`request[q]` holds where a request is and its local variables: the two readings
of the provider-call counter and the answer. Kernel steps are atomic here: the gate
together with the start of the call, the answer together with the mark. That is what
`GuardIsExclusive` and `InFlightConsent` justify: between the two nothing else
passes the guard. Other runs appear as `MandateStateBusyError`, which may end
any wait. Initially the nonce has any status, since a request id may be reused after a
restart or an eviction. Requests that are refused at entry change nothing and
are no actions. Storage faults are left to `GuardedExecution`.

### CommerceService

`retained` is `_runs` in its order and `requests` the request ids; `runs` are the run
objects, which survive their eviction as long as a thread holds them, and `judge` the
session objects, of which `live` are in the table. `OpenSession` is
`resolve_or_create` with the arrival of a request, `StartRun` is `start_run` under the
service's lock with its eviction, `RecordRun` the session's window. `GuardRun`,
`AuthorizeRunAccess` and `ActInTime` are the three lookups of a route about a run; from
the last one on, the operation holds the run object. `Restart`
forgets every table and keeps `spent`, the nonces of the ledger: that is so when
`MANDATEGUARD_STATE_DIR` is set, while the default is a temporary directory. What a run
decides is a choice here.

    running -> presented            ALLOW, executed at once: receipt or refusal
            -> held                 ALLOW, deferred, or the execution raised
            -> review -> presented | held | review | done      by a round of recover
            -> done                 no capability: BLOCK, an error

A `held` run has a capability and no result: `ActExecute` presents it, with the
authorized transaction or a mutated one (a mutated price may be the authorized one), and
a call that raises leaves it held. `ActReplay` presents the capability of a held or
presented run. `ActRecover` presents the round's own capability, or holds it back when the
run is deferred; when its presentation raises, the run keeps none. `round` is the round
whose capability the run has. `Present` is `execute_razorpay_order`: it changes nothing (refused
before the ledger, or busy), spends the nonce, or spends it and reaches the provider.
A nonce belongs to a request id and a round, not to a run. `orders` remembers which
runs reached the provider for a purchase, which is the first evaluation of a request or
a round of its recovery.

### ReviewRecovery

`review[r]` is the immutable `ReviewRecoveryState` that the context of run `r`
points to, `next[r]` the one that a request has computed but not installed, and
`stored[r]` the rows of the store. A request goes

    idle -> reserved -> acquire -> completed -> resolved -> issued -> linked -> idle

where `reserved`, `completed` and `linked` wait for an append. `reserve_recovery_round`
is installed before its append, the other two after it, as in `recover`. An
append is one step, since the store's lock is held from BEGIN to COMMIT; what
follows its failure is not, since the ROLLBACK takes the lock again: `open` says
that the connection is still in the failed transaction. A ROLLBACK ends whichever
transaction there is, as in the code. What an acquisition brings is a choice here:
raised, incomplete, complete without covering the initial evidence, or complete with a
batch that has one entry per id and fits the remaining budget. As in the code, an entry
is new when its id is, so an entry that was revised costs nothing (`NewIds`).
`MayReserve` is when `reserve_recovery_round` opens a round. Registration, issuance and execution after
an `ALLOW` are choices of success and failure; the kernel itself is `GuardedExecution`.

### EvidenceRegistry and RecoveryAcquisition

A source and its manifest are one record, with the window in which it is in force,
what it supersedes, and its records, each with an entry, a window, claims and what it
supersedes. `Constructible` is the validation by the constructors of the manifests (`ValidManifest`)
and of the registry, `Candidates` what a gap
leads to, and `Acquire` what becomes of a provider's bundle: standing of each source,
ambiguity, budget, availability, verification of each delivery, conflicts of claims.

`RecoveryAcquisition` computes what `ReviewRecovery` chooses: each of its actions is an
action of that module with the acquisition's result conjoined, or a tick of the clock.
Sources are chosen when gaps are analysed and asked one request later; `chosen` is
what is kept in between. `startedAt` is the `recovery_time` that `recover` reads once,
before it reserves the round (`BeginRound`): the acquisition and the next analysis are as
of that instant, while the clock runs on.

### PlaygroundPage

`call[i]` is what an interaction waits for: the workspace (a preview or an
authorization, which share a lock), the action on the shown run, and guided scenarios.
`generation` is the scenario whose interaction may go on; every click that begins a
generation retires the others and aborts the current fetch. `run` is the server's side,
where `version` counts the operations that changed a run. A request may be answered,
refused or lost; `missed` remembers the runs of which the page was not told. The
region of follow-ups is shown exactly while there is a snapshot. A refused run also
stands for one that belongs to another session or was evicted.

## Runs

| Run | Checks | Bounds |
|---|---|---|
| `execution_nonces` | `InFlightConsent`, `SingleUse`, `RefusalIsFinal`, `LedgerTellsTruth`, `RepliesAreRecorded`, `GuardIsExclusive`, `ReservedHasOwner`, `EveryCallReturns` | 3 threads in 2 processes (two share an RLock, two compete for the file), 2 capabilities with one nonce, 1 version, 1 crash, 1 fault |
| `execution_clock` | `Consistent`, `AuditIsContinuous`, `AuditExplainsState`, `LifecycleTimesMonotone`, `NoReactivation`, `ImplementsRegistry`, `ImplementsGate` | 1 executor, 1 administrator, 2 versions, 2 times, readings up to one tick late, both kinds of tampering |
| `rejected_order` | refutes `RejectedMeansNoOrder` | a provider may answer outside 2xx after creating the order |
| `run_requests` | `TypeOK`, `NoStateAlarm`, `ReceiptMeansConsent`, `RevocationIsLoggedOnce`, `FlagsAreReleased` | 3 requests of any kind |
| `rejected_replay` | refutes `RejectedReplayMadeNoCall` | 2 requests |
| `timeline_claims` | refutes `TimelineClaimsHold` | 2 requests |
| `checkout` | `TypeOK`, `AllowIsEarned`, `CapabilityIsWithinMandate`, `WithholdingNeverAllows`, `ModelIsGated`, `EveryRunEnds` | every scenario that differs in up to 2 fields from one of two good purchases, with its hashes kept or taken anew; 1 checkout with 1 round of recovery, 1 fault |
| `recovery_rounds` | `ProvenanceComesFirst`, `BudgetsHold`, `AcquiredIsAuthoritative`, `AcquisitionFits`, `ResolvedOnce` | every constructible registry of up to 3 sources from a pool of 8, in which sources and records replace others and one entry has two contents; deliveries that miss up to one entry and alter up to one; 3 instants, a budget of 2 entries, 2 rounds (the code's number), 1 fault |
| `recovery_store` | `StoreExplainsReview`, `RecoveryEnds` | 2 reviews, 2 entries of which one has two contents, 1 round, a budget of 1, 2 faults |
| `recovery_link` | refutes `ExecutionIsLinked` | 1 review, no fault |
| `service` | `TablesKeepLimits`, `RequestsNameRetainedRuns`, `RunsAreTheirOwners`, `PaidOnce` | 2 threads, 2 request ids, every table of size 1, sessions that expire at the next tick, 1 round of recovery, 3 requests, 1 tick, 1 restart |
| `page` | `ShownIsCurrent`, `OnlyNewestPaints`, `PageSettles` | 2 guided scenarios beside the workspace and the action, 2 runs, `ALLOW` or `REVIEW`, 1 operation per run |

Why the bounds are enough. The properties of the kernel relate at most two
presentations and one transition; two threads that execute and one that
administers give every order of them, and two capabilities are enough to share a
nonce. Two versions give every answer of the
gate: an old version that was superseded, one that was revoked and followed, and
the current one; for more versions, and for longer trails, the registry's
invariants are proved. A refusal that is logged while its mandate has no row
(`mandate_state.py:880`) does not occur in `execution_clock`, where a capability is issued
after its mandate was registered; `RegistryAuditIsContinuous` covers it. One crash is enough to separate any two adjacent steps; `ledger` rows are
never freed, so a second crash finds no new state of a nonce. Three requests
let one act while two others, of which one must be a replay or wait, are between their
two readings: the in-flight flags admit one action and one replay at a time.
A check of the two tiers compares at most two places of a scenario, so two deviations
reach each comparison with both sides changed, and hashes that follow or stay give each
commitment that still matches and each that does not. A key of the cache is never shared
by two checkouts; their one meeting point is `lastStatus`, on which no decision depends,
which is what the proofs, for any number of checkouts, also show. A conflict,
a replacement or an alias relates two sources, and a third one is what they disagree
with. Reviews meet only in the store, where one round makes up to three
appends, and two reviews with two faults give every order of failures and ROLLBACKs.
With tables of size 1 each insertion evicts, so three requests show a run that is
evicted while another thread uses it and a request id that is used again, or a start
and two operations of its run, of which one recovers it and one presents what was held
back; the limits themselves are constants of the proofs. The clock of that module ticks only while a session is live and a
request may still compare it (`ClockMatters`), and a restart before the first request is
left out: neither would change what a request sees. On the page two scenarios are one that is retired
and one that retires it, and two runs one that is shown and one that takes its place.
The type invariants of the kernel, of the recovery and of the page are theorems and take
part in no run.
Deadlock is not checked where the system may rest: mandates end, nonces are spent and
requests are finite. The page can always be clicked, and there it is checked.

### What the refuted properties show

* `RejectedMeansNoOrder`. `razorpay.py:158` takes every status outside 2xx for a
  definite rejection. An error of a gateway after the order was created leaves
  the nonce `REJECTED` and the order created. `D6_RAZORPAY_EXECUTION.md`
  classes ambiguity as `UNCERTAIN`. With `DefiniteErrors = TRUE`, the assumption
  that such a status means no order, `LedgerTellsTruth` holds.
* `RejectedReplayMadeNoCall`. A deferred run that was authorized and never
  executed has a free nonce: its first "replay" is granted, calls the provider
  and is audited as `CAPABILITY_REPLAY_REJECTED`.
* `TimelineClaimsHold`. `_complete_timeline` overwrites the `ERROR` of a run
  whose provider call failed with "Capability issued; Razorpay calls: 0".
* `ExecutionIsLinked`. `recover` stores `EXECUTION_LINKED` only when the execution
  returned. If it raises after the provider was called, the store ends with the
  `ALLOW`, and no later request can add the link.

### Fairness

`EveryCallReturns` assumes that each thread keeps taking its steps (`WF` per
thread). The code justifies it: the wait for the RLock and SQLite's busy wait
are bounded, the provider call has a timeout, and every wait has a failing
alternative (`LockTimeout`, `BeginFails`). Nothing is assumed of crashes, faults,
the clock or new calls. `FlagsAreReleased` assumes the same of the threads that
serve requests, and `RecoveryEnds` of those that recover reviews: each call they
make returns or raises, and none of their waits depends on another one.
`EveryRunEnds` assumes it of the thread of each checkout, whose buyer, models and
provider answer or time out; a recovery need never be asked for. `PageSettles`
assumes that each request of the page is answered or fails, that answers and timers get
their turn, and that each run's thread comes to its end; nothing is assumed of clicks.

## Proofs

All theorems hold for any values of the constants that satisfy the named
assumptions (`RegistryAssumption`, `ExecutionAssumption`, `CheckoutAssumption`,
`RunAssumption`, `RecoveryAssumption`, `AcquisitionAssumption`, `ServiceAssumption`,
`PageAssumption`), which TLC evaluates on the runs; they rest on nothing else, but for the premise named with `LedgerTellsTruth`.

`MandateStateProofs` proves `RegistryTypeCorrect`, `RegistryConsistent` and
`RegistryNoReactivation`. The
inductive invariant is `RegistryTypeOK /\ Consistent /\ NoOrphans`: without
`NoOrphans` (a mandate without a pointer has no row) a first registration could
set the pointer beside rows that nobody has looked at. The second half of the module is
about the audit: `RegistryAuditIsContinuous`, `RegistryAuditExplainsState` and
`RegistryTimesMonotone`.

`ExecutionProofs` proves `ExecutionGuardIsExclusive`, `ExecutionTypeCorrect`,
`ExecutionSingleUse` and `ExecutionInFlightConsent`. Three layers, each inductive
given the one below:

1. `GuardInvariant`: from `begin` on a thread owns its connection's RLock, and
   past `begin` its connection is the writer. This gives exclusivity.
2. `TypeInvariant`: types, the registry's own invariant (reused from
   `MandateStateProofs`, since a step of the kernel is a registry step or a
   stutter) and calls that fit their program counters.
3. `NonceInvariant`: a thread that was granted or refused holds the `RESERVED` row
   of its nonce; a nonce that is free, or held by a thread that has not sent yet,
   has paid for nothing; hence one call at most.

In-flight consent follows from the guard: what changes the registry needs it.

`LedgerProofs` adds a fourth layer, in which a row settles once and what threads and
replies hold fits the rows: `ExecutionReservedHasOwner`, `ExecutionRefusalIsFinal`,
`ExecutionRepliesAreRecorded`. `ExecutionLedgerTellsTruth` needs two premises, that
provider errors are definite (`DefiniteErrors`) and that capabilities have requests of
their own; `rejected_order` shows what becomes of it without the first.

The two refinements are at the end of that module. `ExecutionImplementsRegistry` needs
one fact more: a refusal that waits to be committed is of a nonce no log has, since its
row was `RESERVED` when the gate marked it and a logged nonce is `REJECTED`; and nobody
else writes into the log while the guard is held. `ExecutionImplementsGate` maps the
kernel to `ConsentGate`: `Reserve` is a stutter when it grants and loses the nonce when
it refuses, `Send` is the order, a transition is `Consent` or `Withdraw`, and a crash
between the reservation and the request loses the nonce. It rests on the exclusivity
of the guard, on the held nonce and on in-flight consent.

`CheckoutProofs` first proves of the decision alone that whatever both tiers let
through is within the mandate (`AllowedIsWithinMandate`) and that withheld evidence
allows nothing. The invariant of the checkout then says what each program counter
rests on: past `authorize` the deterministic checks allow, past `put` the results are
those the model gave for this key, and every valid row of the cache is such an answer.
Hence `CheckoutAllowIsEarned`, `CheckoutCapabilityIsWithinMandate`,
`CheckoutWithholdingNeverAllows` and `CheckoutModelIsGated`.

`ReviewRecoveryProofs` has an invariant per review, between `review`, `next`,
`stored` and where the request is: `RecoveryTypeCorrect`,
`RecoveryProvenanceComesFirst`, `RecoveryBudgetsHold`, `RecoveryStoreExplainsReview`.
The budget is one of ids, and what a review holds has one entry per id; a batch adds the
ids that are new, and what it does not bring again stays, so the ids are counted once
(`HoldFacts`). `RecoveryResolvedOnce` is an action property: once a review is resolved, no
step changes its decision or what it holds, or issues a second capability.

The same module then proves that the composed model keeps to the abstract one:
`AcquisitionImplementsRecovery` (`RecoverySpec => Spec`). Its heart is that whatever
`Acquire` calls complete is a batch that `ReviewRecovery` admits: each source that was
asked is settled (verified, or withdrawn by what replaced it), what each settled
source delivers has one entry per id, and two sources that agree on an id agree on its
content, for otherwise the acquisition is a conflict. So the theorems of the
recovery hold of it too, `AcquisitionKeepsRecoverySafe` and `RecoveryAcquisitionFits` among
them. `OneSourcePerScope` says that what a gap leads to never leaves two authorities in
force for one scope, and `RecoveryAcquiredIsAuthoritative` that every entry that was
acquired is declared by a source in force of which it is the genuine content; of aliases
the least is asked, which is where the assumption that ids are numbers is used. The
invariant they rest on is small: the registry is a constructible one and the clock runs
forward.

`CommerceRunProofs`: the invariant relates each request's program counter to the flag
it set, its readings to the counter and its answer to consent; the action flag makes
the revocation or execution under way unique, and a nonce that is free was never
called for. It gives `RunTypeCorrect`, `RunRaisesNoStateAlarm`, `RunReceiptMeansConsent`
and `RunLogsRevocationOnce`. What such a step does to the mandate, the nonce and the
counter is one of five things (`KernelStep`); hence `RunCallsOnce`, and `RunKeepsToGate`:
each step is a step of `ConsentGate` for the run's one capability. With
`ExecutionImplementsGate` this is why the atomic kernel steps of `CommerceRun` are enough:
both keep to the same abstract kernel. It is about steps only, since a run begins
with its capability issued.

`CommerceServiceProofs`: ids that were minted never come back, so whatever a thread
holds is what it was when the thread took it; request ids and retained runs are
inverse to each other; a nonce is spent before its order; and a run that paid did so under
the nonce of its current round, which is spent, with no round to come (`PaidUnder`): it
has been decided and is not open to recovery, so whatever is executed, mutated or
replayed on it meets that nonce again.
It gives `ServiceTypeCorrect`, `ServiceRequestsNameRetainedRuns`,
`ServiceRunsAreTheirOwners` and `ServicePaidOnce`.

`PlaygroundPageProofs`: a run has one loop that starts and polls it, a run on which the page
operates or which it shows as ended is settled (it ended and no loop is about it any more),
and an answer under way about a run that ended is still what the server has
(`PageInvariant`, `PageKeepsInvariant`). Hence `PageTypeCorrect` and `PageShowsCurrent`;
`PageOnlyNewestPaints` is an action property that needs of it only that the generation is
the newest one. It is about guided scenarios: the polls of an authorization have no such
guard (`app.js:4211`) and may repaint after a later search or operation. `PageAssumption` says that the places of the page have names of their own.

Only model-checked: the liveness properties `EveryCallReturns`, `FlagsAreReleased`,
`RecoveryEnds`, `EveryRunEnds` and `PageSettles`, since a proof of liveness under fairness
reasons about `ENABLED`, which this prover does not. Every other property of a passing run
is also a theorem.

## Divergences and weaknesses without a run

Met while modelling, and stated here because no property of a run states them:

* `registry.py:194-196` looks for replaced records among the selected sources only, so a
  record replaced by a source of another scope, or of an earlier one that expired,
  applies again; `docs/MANDATEGUARD_RESOLVE.md:71-72` reads as if it never did.
* `orchestration.py:631` reports the shared cache's `last_status`, which another run's
  lookup may have set. No decision depends on it.
* A request id that is used again after its run was evicted may pay a second time if
  the first run paid in a recovery round, whose nonce is another one. `PaidOnce` is
  about purchases (a first evaluation, or a round) and runs, not about request ids.
* The clock of a session is read before the registry's lock, as is the executor's
  before the guard (`gate.py:86`).
* `attempt_execution` replaces the run's result before it compares the counter
  (`service.py:1668`); what follows is an error answer to a request that succeeded.
* Without `MANDATEGUARD_STATE_DIR` the ledger is lost with the process.
* Page: answers to previews, authorizations and operations are not guarded by a
  generation (only scenarios are), so a late preview shows the old product under a new
  instruction; two first requests without a session open two sessions, of which the
  last answer wins (`app.js:3842`); each click makes a new request id, so repeating one
  whose answer was lost starts a second run; a run that is registered and polled by
  its own route has no narration (`http.py:225-227`, `service.py:1175-1187`).
* The append of the decision journal (`audit/journal.py:107`) reads, checks and
  writes without a lock between processes; a torn last line makes it unreadable. The
  benchmark's journal has the same pattern.

## Plan

Done, in this order: `MandateState`, `ConsentGate`, `GuardedExecution`, their proofs,
`CommerceRun`, `ReviewRecovery`; `AuthorizationDecision`, `AgenticCheckout`,
`EvidenceRegistry`, `RecoveryAcquisition`, `CommerceService`, `PlaygroundPage`; the
proofs of the audit trail, the ledger, the checkout, the recovery, the run and the
service; those of the page, of the acquisition, that it implements the
recovery, and that a run keeps to `ConsentGate`. Left:

1. `DecisionJournal`: two writers and a crash in the middle of a line, and the
   same for the first run of the benchmark's journal.
2. The nonces of `CommerceService` and the executions of `ReviewRecovery` related to
   `ConsentGate` in the same way.
3. The sessions and the console view of the page; the discovery routes.

## Not modelled

* Buyer, retrieval, embeddings, catalogue discovery: scores and text, whose only
  influence on what is modelled is which proposal is decided; the proposal is a choice.
* Training, benchmarks, engineering studies, reports, simulated marketplace: batch
  computation with no state on the path from a decision to an order. They are most of
  the repository's lines.
* The replay runner and its in-memory nonce set: it applies the functions of
  `AuthorizationDecision`, whose field `consumed` is that set.
* The decision journal: written by the offline runner only (see the plan).
* Presentation: panels, texts, the console view, the playground's narration beyond
  which decision it explains.
* Which provider of evidence is configured, and what the first evaluation has selected.
* Serialization and hashing are represented by equality of what they bind. Cases that
  need a damaged registry file (`MANDATE_STATE_CORRUPT`) are in the gate's table and
  cannot be reached by the modelled steps, which is what `RegistryConsistent` says.
