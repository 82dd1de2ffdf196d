--------------------------- MODULE AgenticCheckout ---------------------------
(***************************************************************************)
(* The threads that take a purchase from its proposal to a decision, a     *)
(* capability and an order: _execute_run of product/service.py over        *)
(* run_agentic_checkout of intelligence/orchestration.py, and the second   *)
(* evaluations that a recovery of a REVIEW makes of the same mandate.      *)
(*                                                                         *)
(* Their decisions are those of AuthorizationDecision.  All checkouts      *)
(* share one semantic cache: its rows, and the field last_status in which  *)
(* a lookup leaves its outcome for whoever reads it.  A row's key commits  *)
(* the mandate, whose id is derived from the run, and the evidence: it is  *)
(* the pair of a checkout and the entries that were selected for it.       *)
(*                                                                         *)
(* What is left out: the budgets and the provenance of a recovery          *)
(* (ReviewRecovery) and the consent registry and the ledger behind         *)
(* register, issue and execute (GuardedExecution), of which this module    *)
(* keeps what may come back.                                               *)
(***************************************************************************)
EXTENDS AuthorizationDecision

CONSTANTS
  Checkouts,     \* run ids
  Scenarios,     \* what their deterministic checks may see
  EvidenceSets,  \* the sets of trusted entries that may be selected
  MaxRounds,     \* bound: evaluations of a checkout after its first
  MaxFaults      \* bound: faults of the cache's storage

ASSUME CheckoutAssumption ==
  /\ \A s \in Scenarios : IsScenario(s)
  /\ {} \in EvidenceSets
  /\ MaxRounds \in Nat /\ MaxFaults \in Nat

VARIABLES
  scenario,     \* mandate, transaction, catalog and clock of each checkout
  evidence,     \* semantic_evidence, {} for None
  pc,
  round,        \* evaluations after the first
  final,        \* final_action of the last evaluation
  results,      \* constraint results that the last evaluation rests on
  cacheFailed,  \* cache_failed
  rows,         \* semantic_decision_cache
  lastStatus,   \* SQLiteSemanticCache.last_status
  reported,     \* cache_status in the trace of the checkout
  capability,   \* a capability was issued
  outcome,      \* run.state
  replied,      \* history: the last normalized answer of the model for a key
  asked,        \* history: calls of the model
  orders,       \* history: calls of the payment provider
  faults

cache == <<rows, lastStatus, faults>>
payment == <<capability, orders>>
vars == <<scenario, evidence, pc, round, final, results, cacheFailed, rows, lastStatus,
          reported, capability, outcome, replied, asked, orders, faults>>

-----------------------------------------------------------------------------
Keys == Checkouts \X EvidenceSets
Key(c) == <<c, evidence[c]>>
Constraints(c) == scenario[c].mandate.constraints

Row(status, content) == [status |-> status, results |-> content]
NoRow == Row("NONE", << >>)
NoAnswer == NoRow
Corrupt == Row("CORRUPT", << >>)

\* What the model may answer about these constraints: also about a part of them.
Answers(constraints) ==
  [kind : {"RAISED", "REFUSED", "INCOMPLETE"}, results : {<< >>}]
  \union [kind : {"PAYLOAD"}, results : UNION {[k -> ConstraintStatus] : k \in SUBSET constraints}]

Pcs == {"buyer", "authorize", "lookup", "model", "put", "report", "register", "issue",
        "execute", "review", "ended"}

Go(c, step) == pc' = [pc EXCEPT ![c] = step]

\* Where an action leads: REVIEW opens a recovery, BLOCK is the end.
After(action) ==
  CASE action = "ALLOW" -> "register" [] action = "REVIEW" -> "review" [] OTHER -> "ended"

\* The first evaluation is reported in the trace before anything follows from it.
Decide(c, action) ==
  /\ final' = [final EXCEPT ![c] = action]
  /\ Go(c, IF round[c] = 0 THEN "report" ELSE After(action))

-----------------------------------------------------------------------------
(* The proposal *)

Purchase(c) ==
  /\ pc[c] = "buyer"
  /\ \E selected \in EvidenceSets : evidence' = [evidence EXCEPT ![c] = selected]
  /\ Go(c, "authorize")
  /\ UNCHANGED <<scenario, round, final, results, cacheFailed, cache, reported, payment,
                 outcome, replied, asked>>

\* The buyer, the store or the mandate's construction raises.
PurchaseFails(c) ==
  /\ pc[c] = "buyer"
  /\ outcome' = [outcome EXCEPT ![c] = "ERROR"]
  /\ Go(c, "ended")
  /\ UNCHANGED <<scenario, evidence, round, final, results, cacheFailed, cache, reported,
                 payment, replied, asked>>

-----------------------------------------------------------------------------
(* authorize_transaction *)

\* Faulty: without evidence there is nothing that could speak against an ALLOW.
AuthorizeWithoutEvidence(c) ==
  LET s == scenario[c] IN
  /\ pc[c] = "authorize"
  /\ IF Deterministic(s) = "ALLOW" /\ Constraints(c) # {} /\ evidence[c] # {}
     THEN Go(c, "lookup") /\ UNCHANGED final
     ELSE Decide(c, Deterministic(s))
  /\ UNCHANGED <<scenario, evidence, round, results, cacheFailed, cache, reported, payment,
                 outcome, replied, asked>>

\* Faulty: the semantic verifier is asked before the deterministic gate.
AuthorizeSemanticFirst(c) ==
  /\ pc[c] = "authorize"
  /\ IF Constraints(c) # {} /\ evidence[c] # {}
     THEN Go(c, "lookup") /\ UNCHANGED final
     ELSE Decide(c, Deterministic(scenario[c]))
  /\ UNCHANGED <<scenario, evidence, round, results, cacheFailed, cache, reported, payment,
                 outcome, replied, asked>>

Authorize(c) ==
  LET s == scenario[c]
      judged == Deterministic(s) = "ALLOW" /\ Constraints(c) # {}
  IN /\ pc[c] = "authorize"
     /\ IF judged /\ evidence[c] # {}
        THEN Go(c, "lookup") /\ UNCHANGED final
        ELSE Decide(c, IF judged THEN "REVIEW" ELSE Deterministic(s))
     /\ UNCHANGED <<scenario, evidence, round, results, cacheFailed, cache, reported, payment,
                    outcome, replied, asked>>

LookupHit(c) ==
  /\ pc[c] = "lookup"
  /\ rows[Key(c)].status = "VALID"
  /\ lastStatus' = "HIT"
  /\ results' = [results EXCEPT ![c] = rows[Key(c)].results]
  /\ Decide(c, SemanticAction(rows[Key(c)].results))
  /\ UNCHANGED <<scenario, evidence, round, cacheFailed, rows, faults, reported, payment,
                 outcome, replied, asked>>

LookupMiss(c) ==
  /\ pc[c] = "lookup"
  /\ rows[Key(c)] = NoRow
  /\ lastStatus' = "MISS"
  /\ Go(c, "model")
  /\ UNCHANGED <<scenario, evidence, round, final, results, cacheFailed, rows, faults,
                 reported, payment, outcome, replied, asked>>

\* A failing model, or an answer that is not one, is an abstention like any other.
AskModel(c) ==
  /\ pc[c] = "model"
  /\ \E answer \in Answers(Constraints(c)) :
       LET normalized == Normalized(answer, Constraints(c)) IN
         /\ results' = [results EXCEPT ![c] = normalized]
         /\ replied' = [replied EXCEPT ![Key(c)] = Row("VALID", normalized)]
  /\ asked' = [asked EXCEPT ![c] = @ + 1]
  /\ Go(c, "put")
  /\ UNCHANGED <<scenario, evidence, round, final, cacheFailed, cache, reported, payment,
                 outcome>>

\* put looks up its key once more, and inserts what is not there.
Put(c) ==
  /\ pc[c] = "put"
  /\ rows[Key(c)] = NoRow
  /\ rows' = [rows EXCEPT ![Key(c)] = Row("VALID", results[c])]
  /\ lastStatus' = "MISS"
  /\ Decide(c, SemanticAction(results[c]))
  /\ UNCHANGED <<scenario, evidence, round, results, cacheFailed, faults, reported, payment,
                 outcome, replied, asked>>

\* A row that fails its integrity checks, or storage that does.  The checkout is
\* then decided by a model that abstains, and an empty cache (_safe_authorize); a
\* recovery's evaluation raises instead, and the REVIEW stands.
CacheFails(c) ==
  /\ pc[c] \in {"lookup", "put"}
  /\ \/ rows[Key(c)] = Corrupt /\ UNCHANGED faults
     \/ faults < MaxFaults /\ faults' = faults + 1
  /\ lastStatus' = "MISS"
  /\ IF round[c] = 0
     THEN /\ cacheFailed' = [cacheFailed EXCEPT ![c] = TRUE]
          /\ results' = [results EXCEPT ![c] = AllAbstain(Constraints(c))]
          /\ Decide(c, SemanticAction(AllAbstain(Constraints(c))))
     ELSE Go(c, "review") /\ UNCHANGED <<final, results, cacheFailed>>
  /\ UNCHANGED <<scenario, evidence, round, rows, reported, payment, outcome, replied, asked>>

\* The row's file is damaged.  Its commitment detects that, and does not
\* authenticate: rows that were forged are not modelled.
DamageRow(k) ==
  /\ rows[k].status = "VALID"
  /\ faults < MaxFaults
  /\ faults' = faults + 1
  /\ rows' = [rows EXCEPT ![k] = Corrupt]
  /\ UNCHANGED <<scenario, evidence, pc, round, final, results, cacheFailed, lastStatus,
                 reported, payment, outcome, replied, asked>>

-----------------------------------------------------------------------------
(* The trace, and what follows *)

\* last_status is read after the evaluation, whether or not that looked anything up.
Report(c) ==
  /\ pc[c] = "report"
  /\ reported' = [reported EXCEPT ![c] =
       IF evidence[c] = {} THEN "NONE" ELSE IF cacheFailed[c] THEN "MISS" ELSE lastStatus]
  /\ Go(c, After(final[c]))
  /\ outcome' = [outcome EXCEPT ![c] = IF final[c] = "ALLOW" THEN @ ELSE "COMPLETE"]
  /\ UNCHANGED <<scenario, evidence, round, final, results, cacheFailed, cache, payment,
                 replied, asked>>

\* create_review_recovery, or the append of its provenance, raises.
ReviewFails(c) ==
  /\ pc[c] = "report"
  /\ final[c] = "REVIEW"
  /\ outcome' = [outcome EXCEPT ![c] = "ERROR"]
  /\ Go(c, "ended")
  /\ UNCHANGED <<scenario, evidence, round, final, results, cacheFailed, cache, reported,
                 payment, replied, asked>>

\* A round of recovery evaluates the mandate again, later and on evidence that
\* contains the first.  Only abstentions have a gap to recover.
Recover(c) ==
  /\ pc[c] = "review"
  /\ Deterministic(scenario[c]) = "ALLOW"
  /\ round[c] < MaxRounds
  /\ round' = [round EXCEPT ![c] = @ + 1]
  /\ \E batch \in EvidenceSets \ {{}} :
       evidence[c] \subseteq batch /\ evidence' = [evidence EXCEPT ![c] = batch]
  /\ \E later \in {scenario[c].now, scenario[c].mandate.expiresAt} :
       scenario' = [scenario EXCEPT ![c].now = later]
  /\ Go(c, "authorize")
  /\ UNCHANGED <<final, results, cacheFailed, cache, reported, payment, outcome, replied,
                 asked>>

Register(c) ==
  /\ pc[c] = "register"
  /\ Go(c, "issue")
  /\ UNCHANGED <<scenario, evidence, round, final, results, cacheFailed, cache, reported,
                 payment, outcome, replied, asked>>

\* Faulty: the exception ends the thread, and nothing says so.
RegisterFailsSilently(c) ==
  /\ pc[c] = "register"
  /\ Go(c, "ended")
  /\ UNCHANGED <<scenario, evidence, round, final, results, cacheFailed, cache, reported,
                 payment, outcome, replied, asked>>

\* Busy, corrupt or refused: the exception ends the run, or the request to recover.
RegisterFails(c) ==
  /\ pc[c] = "register"
  /\ outcome' = [outcome EXCEPT ![c] = IF round[c] = 0 THEN "ERROR" ELSE @]
  /\ Go(c, "ended")
  /\ UNCHANGED <<scenario, evidence, round, final, results, cacheFailed, cache, reported,
                 payment, replied, asked>>

\* issue_execution_authorization evaluates the same scenario from the cache alone
\* (SemanticMode.REPLAY) and compares.
Replays(c) ==
  /\ Deterministic(scenario[c]) = "ALLOW"
  /\ Constraints(c) # {} => rows[Key(c)] = Row("VALID", results[c])

\* What the evaluation from the cache leaves in last_status.
Replayed(c) == IF Constraints(c) = {} THEN lastStatus ELSE "HIT"

Completed(c) == outcome' = [outcome EXCEPT ![c] = "COMPLETE"]

\* Execution is deferred, or follows.
Issue(c) ==
  /\ pc[c] = "issue"
  /\ Replays(c)
  /\ capability' = [capability EXCEPT ![c] = TRUE]
  /\ lastStatus' = Replayed(c)
  /\ \E step \in {"execute", "ended"} :
       Go(c, step) /\ IF step = "ended" THEN Completed(c) ELSE UNCHANGED outcome
  /\ UNCHANGED <<scenario, evidence, round, final, results, cacheFailed, rows, faults,
                 reported, orders, replied, asked>>

\* The row is damaged, or storage fails; or the registry or the configuration
\* refuses the mandate.
IssueRefused(c) ==
  /\ pc[c] = "issue"
  /\ \/ Replays(c) /\ lastStatus' = Replayed(c) /\ UNCHANGED faults
     \/ ~Replays(c) /\ lastStatus' = "MISS" /\ UNCHANGED faults
     \/ /\ Constraints(c) # {} /\ faults < MaxFaults
        /\ faults' = faults + 1 /\ lastStatus' = "MISS"
  /\ Completed(c)
  /\ Go(c, "ended")
  /\ UNCHANGED <<scenario, evidence, round, final, results, cacheFailed, rows, reported,
                 payment, replied, asked>>

\* Faulty: an answer that does not come is asked for again.
ExecuteRetried(c) ==
  /\ pc[c] = "execute"
  /\ orders' = [orders EXCEPT ![c] = @ + 1]
  /\ Completed(c)
  /\ \E step \in {"execute", "ended"} : Go(c, step)
  /\ UNCHANGED <<scenario, evidence, round, final, results, cacheFailed, cache, reported,
                 capability, replied, asked>>

\* A receipt, a refusal or a typed execution error completes the run; what the
\* guard of the registry raises is the run's error, before or after the call.
Execute(c) ==
  /\ pc[c] = "execute"
  /\ \E n \in {0, 1} : orders' = [orders EXCEPT ![c] = @ + n]
  /\ \E o \in {"COMPLETE", "ERROR"} :
       outcome' = [outcome EXCEPT ![c] = IF round[c] = 0 THEN o ELSE @]
  /\ Go(c, "ended")
  /\ UNCHANGED <<scenario, evidence, round, final, results, cacheFailed, cache, reported,
                 capability, replied, asked>>

-----------------------------------------------------------------------------
Init ==
  /\ scenario \in [Checkouts -> Scenarios]
  /\ evidence = [c \in Checkouts |-> {}]
  /\ pc = [c \in Checkouts |-> "buyer"]
  /\ round = [c \in Checkouts |-> 0]
  /\ final = [c \in Checkouts |-> "NONE"]
  /\ results = [c \in Checkouts |-> << >>]
  /\ cacheFailed = [c \in Checkouts |-> FALSE]
  /\ rows = [k \in Keys |-> NoRow]
  /\ lastStatus = "NONE"
  /\ reported = [c \in Checkouts |-> "NONE"]
  /\ capability = [c \in Checkouts |-> FALSE]
  /\ outcome = [c \in Checkouts |-> "RUNNING"]
  /\ replied = [k \in Keys |-> NoAnswer]
  /\ asked = [c \in Checkouts |-> 0]
  /\ orders = [c \in Checkouts |-> 0]
  /\ faults = 0

Proceed(c) ==
  \/ Purchase(c) \/ PurchaseFails(c) \/ Authorize(c)
  \/ LookupHit(c) \/ LookupMiss(c) \/ AskModel(c) \/ Put(c) \/ CacheFails(c)
  \/ Report(c) \/ ReviewFails(c)
  \/ Register(c) \/ RegisterFails(c) \/ Issue(c) \/ IssueRefused(c) \/ Execute(c)

Next ==
  \/ \E c \in Checkouts : Proceed(c) \/ Recover(c)
  \/ \E k \in Keys : DamageRow(k)

Spec == Init /\ [][Next]_vars

\* The thread of a run goes on; the buyer, the models and the provider answer or
\* time out.
FairSpec == Spec /\ \A c \in Checkouts : WF_vars(Proceed(c))

-----------------------------------------------------------------------------
(* Properties *)

\* What the threads keep has its type.
TypeOK ==
  /\ \A c \in Checkouts : evidence[c] \in EvidenceSets
  /\ pc \in [Checkouts -> Pcs]
  /\ round \in [Checkouts -> 0..MaxRounds]
  /\ final \in [Checkouts -> DecisionAction \union {"NONE"}]
  /\ cacheFailed \in [Checkouts -> BOOLEAN]
  /\ \A k \in Keys : rows[k].status \in {"NONE", "VALID", "CORRUPT"}
  /\ lastStatus \in {"NONE", "HIT", "MISS"} /\ reported \in [Checkouts -> {"NONE", "HIT", "MISS"}]
  /\ capability \in [Checkouts -> BOOLEAN]
  /\ outcome \in [Checkouts -> {"RUNNING", "COMPLETE", "ERROR"}]
  /\ asked \in [Checkouts -> Nat] /\ orders \in [Checkouts -> 0..1]
  /\ faults \in 0..MaxFaults

\* An ALLOW was said by the model of this mandate and these entries, on every
\* constraint of the mandate: no failure of model or cache, no missing evidence
\* and no other evaluation makes one.
AllowIsEarned ==
  \A c \in Checkouts :
    final[c] = "ALLOW" /\ Constraints(c) # {} =>
      /\ evidence[c] # {}
      /\ replied[Key(c)] = Row("VALID", [k \in Constraints(c) |-> "PASS"])

\* A capability, and so an order, is for goods the mandate names, at the price of
\* the committed catalogue, in its currency, below its ceiling and in its time,
\* whatever the transaction says of itself.
CapabilityIsWithinMandate ==
  \A c \in Checkouts : capability[c] => WithinMandate(scenario[c])

\* Withholding evidence from the deterministic checks never allows: neither what
\* they blocked nor what they allowed when it was there.
WithholdingNeverAllows ==
  \A c \in Checkouts : \A s \in Withheld(scenario[c]) : Deterministic(s) # "ALLOW"

\* The model is asked at most once in an evaluation, and only about a purchase that
\* passed the deterministic gate at that time.
ModelIsGated ==
  \A c \in Checkouts :
    /\ asked[c] <= round[c] + 1
    /\ pc[c] \in {"lookup", "model", "put"} => Deterministic(scenario[c]) = "ALLOW"

\* Every run ends or waits for its review, and is then no longer RUNNING.
EveryRunEnds ==
  \A c \in Checkouts : <>[](pc[c] \in {"ended", "review"} /\ outcome[c] # "RUNNING")
=============================================================================
