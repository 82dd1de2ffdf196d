---------------------------- MODULE CheckoutProofs ----------------------------
(***************************************************************************)
(* Theorems about decisions and the checkouts that rest on them, for every *)
(* scenario, every set of constraints and entries, and any number of       *)
(* checkouts, rounds and faults.                                           *)
(*                                                                         *)
(* An ALLOW of the deterministic checks implies the promise of             *)
(* WithinMandate: the lemma AllowedIsWithinMandate follows the chain of    *)
(* comparisons from the ceiling to the goods.  What a checkout does with   *)
(* such decisions is the invariant CheckoutInvariant, of one checkout at a *)
(* time.                                                                   *)
(***************************************************************************)
EXTENDS AgenticCheckout, TLAPS

-----------------------------------------------------------------------------
(* The deterministic checks *)

LEMMA TierAPasses ==
  ASSUME NEW s
  PROVE  /\ "FAIL" \notin Range(TierA(s)) /\ "NOT_EVALUABLE" \notin Range(TierA(s)) <=>
              /\ A1(s) = "PASS" /\ A2(s) = "PASS" /\ A3(s) = "PASS" /\ A4(s) = "PASS"
              /\ A5(s) = "PASS" /\ A6(s) = "PASS" /\ A7(s) = "PASS" /\ A8(s) = "PASS"
<1>1. /\ A1(s) \in CheckStatus /\ A2(s) \in CheckStatus /\ A3(s) \in CheckStatus
      /\ A4(s) \in CheckStatus /\ A5(s) \in CheckStatus /\ A6(s) \in CheckStatus
      /\ A7(s) \in CheckStatus /\ A8(s) \in CheckStatus
  BY DEF A1, A2, A3, A4, A5, A6, A7, A8, Checked, CheckStatus
<1>2. \A x : x \in Range(TierA(s)) <=>
         x \in {A1(s), A2(s), A3(s), A4(s), A5(s), A6(s), A7(s), A8(s)}
  <2> DEFINE t == TierA(s)
  <2>1. /\ DOMAIN t = 1..8
        /\ t[1] = A1(s) /\ t[2] = A2(s) /\ t[3] = A3(s) /\ t[4] = A4(s)
        /\ t[5] = A5(s) /\ t[6] = A6(s) /\ t[7] = A7(s) /\ t[8] = A8(s)
    BY DEF TierA
  <2> HIDE DEF t
  <2>2. \A i : i \in 1..8 <=> i \in {1, 2, 3, 4, 5, 6, 7, 8}
    OBVIOUS
  <2>3. Range(t) = {t[i] : i \in {1, 2, 3, 4, 5, 6, 7, 8}}
    BY <2>1, <2>2 DEF Range
  <2> QED BY <2>1, <2>3 DEF t
<1> QED BY <1>1, <1>2 DEF CheckStatus

\* decide_deterministically allows what no check of either tier finds fault with.
LEMMA DeterministicAllow ==
  ASSUME NEW s
  PROVE  Deterministic(s) = "ALLOW" <=>
           /\ ~TierBFinds(s)
           /\ A1(s) = "PASS" /\ A2(s) = "PASS" /\ A3(s) = "PASS" /\ A4(s) = "PASS"
           /\ A5(s) = "PASS" /\ A6(s) = "PASS" /\ A7(s) = "PASS" /\ A8(s) = "PASS"
BY TierAPasses DEF Deterministic

LEMMA CommitmentMatch ==
  ASSUME NEW actual, NEW committed
  PROVE  CommitmentState(actual, committed) = "MATCH" <=>
           actual # None /\ committed # None /\ actual = committed
BY DEF CommitmentState

\* Both commitments are there and match what they commit to.
LEMMA CommitmentsBind ==
  ASSUME NEW s, A6(s) = "PASS"
  PROVE  /\ TransactionState(s) = "MATCH" /\ CatalogState(s) = "MATCH"
         /\ s.catalog # None /\ s.committed # None
         /\ s.committed.catalog = s.catalog /\ s.committed.tx = s.tx
<1>1. /\ TransactionState(s) \in {"ABSENT", "MATCH", "MISMATCH"}
      /\ CatalogState(s) \in {"ABSENT", "MATCH", "MISMATCH"}
  BY DEF TransactionState, CatalogState, CommitmentState
<1>2. TransactionState(s) = "MATCH" /\ CatalogState(s) = "MATCH"
  BY <1>1 DEF A6, Checked
<1> QED BY <1>2, CommitmentMatch DEF TransactionState, CatalogState

\* The catalogue's price of every line, and of their sum, is what is charged.
LEMMA AllowedChargeIsCatalogPrice ==
  ASSUME NEW s, IsScenario(s), Deterministic(s) = "ALLOW"
  PROVE  ChargeIsCatalogPrice(s)
<1>1. /\ A1(s) = "PASS" /\ A2(s) = "PASS" /\ A6(s) = "PASS" /\ A7(s) = "PASS"
  BY DeterministicAllow
<1>2. CatalogState(s) = "MATCH" /\ TransactionState(s) = "MATCH"
  BY <1>1, CommitmentsBind
<1>3. /\ s.catalog.currency = s.tx.orderCurrency
      /\ AllListed(s)
      /\ \A line \in Lines(s) : line.price = Item(s, line).price
  BY <1>1, <1>2 DEF A1, Checked, AllListed
<1>4. \A line \in Lines(s) : Owned(s, line)
  BY <1>1, <1>2 DEF A2, Checked
<1>5. /\ s.catalog.currency = s.mandate.currency
      /\ CatalogTotal(s) = s.tx.total
      /\ ~(CatalogTotal(s) > s.mandate.ceiling)
  BY <1>1, <1>2, <1>3 DEF A7, Checked
<1>6. s.tx.total <= s.mandate.ceiling
  BY <1>5 DEF IsScenario
<1> QED BY <1>3, <1>4, <1>5, <1>6 DEF ChargeIsCatalogPrice

\* No merchant, sku, family, quantity or renewal that the mandate does not name.
LEMMA AllowedGoodsAreMandated ==
  ASSUME NEW s, IsScenario(s), Deterministic(s) = "ALLOW"
  PROVE  GoodsAreMandated(s)
<1>1. /\ A2(s) = "PASS" /\ A6(s) = "PASS" /\ A8(s) = "PASS" /\ ~TierBFinds(s)
  BY DeterministicAllow
<1>2. CatalogState(s) = "MATCH"
  BY <1>1, CommitmentsBind
<1>3. LineQuantity(s) <= s.mandate.maxQuantity
  BY <1>1 DEF TierBFinds, B2, B7, IsScenario
<1>4. s.mandate.merchants # None => s.tx.merchant \in s.mandate.merchants
  BY <1>1 DEF TierBFinds, B9, Outside
<1>5. ASSUME NEW line \in Lines(s)
      PROVE  /\ s.mandate.skus # None => line.sku \in s.mandate.skus
             /\ s.mandate.families # None => Item(s, line).family \in s.mandate.families
             /\ Item(s, line).recurring \/ line.recurring => s.mandate.recurring
  <2>1. s.mandate.skus # None => line.sku \in s.mandate.skus
    BY <1>1 DEF TierBFinds, B10, Outside
  <2>2. s.mandate.families # None => Item(s, line).family \in s.mandate.families
    BY <1>1, <1>2 DEF A2, Checked
  <2>3. Item(s, line).recurring => s.mandate.recurring
    BY <1>1, <1>2 DEF A8, Checked, AllListed
  <2>4. line.recurring => s.mandate.recurring
    BY <1>1 DEF TierBFinds, B8, LineRecurring
  <2> QED BY <2>1, <2>2, <2>3, <2>4
<1> QED BY <1>3, <1>4, <1>5 DEF GoodsAreMandated

\* Neither expired nor consumed, and by a clock and a ledger that were there.
LEMMA AllowedMandateIsLive ==
  ASSUME NEW s, IsScenario(s), Deterministic(s) = "ALLOW"
  PROVE  MandateIsLive(s)
<1>1. A4(s) = "PASS" /\ A5(s) = "PASS"
  BY DeterministicAllow
<1>2. s.now # None /\ s.now < s.mandate.expiresAt
  BY <1>1 DEF A5, Checked, IsScenario
<1>3. s.consumed # None /\ s.mandate.nonce \notin s.consumed
  BY <1>1 DEF A4, Checked
<1> QED BY <1>2, <1>3 DEF MandateIsLive

\* An ALLOW of the deterministic checks is within the mandate, whatever the
\* transaction, its lines and the catalogue are.
THEOREM AllowedIsWithinMandate ==
  ASSUME NEW s, IsScenario(s), Deterministic(s) = "ALLOW"
  PROVE  WithinMandate(s)
<1>1. s.declared = s.tx
  BY DeterministicAllow DEF TierBFinds, B5
<1>2. NothingWasChanged(s)
  BY <1>1, DeterministicAllow, CommitmentsBind DEF NothingWasChanged
<1> QED
  BY <1>2, AllowedChargeIsCatalogPrice, AllowedGoodsAreMandated, AllowedMandateIsLive
  DEF WithinMandate

\* Whatever of its evidence is withheld, a scenario is not allowed.
LEMMA WithheldIsNotAllowed ==
  ASSUME NEW s, IsScenario(s), NEW w \in Withheld(s)
  PROVE  Deterministic(w) # "ALLOW"
<1> SUFFICES ASSUME Deterministic(w) = "ALLOW" PROVE FALSE
  OBVIOUS
<1>1. /\ w.catalog # None /\ w.committed # None
      /\ w.committed.catalog # None /\ w.committed.tx # None
  <2>1. /\ w.catalog # None /\ w.committed # None
        /\ TransactionState(w) = "MATCH" /\ CatalogState(w) = "MATCH"
    BY DeterministicAllow, CommitmentsBind
  <2> QED BY <2>1, CommitmentMatch DEF TransactionState, CatalogState
<1>2. w.now # None /\ w.consumed # None
  BY DeterministicAllow DEF A4, A5, Checked
<1>3. CASE w = [s EXCEPT !.catalog = None]
  BY <1>1, <1>3 DEF IsScenario
<1>4. CASE w = [s EXCEPT !.committed = None]
  BY <1>1, <1>4 DEF IsScenario
<1>5. CASE w = [s EXCEPT !.now = None]
  BY <1>2, <1>5 DEF IsScenario
<1>6. CASE w = [s EXCEPT !.consumed = None]
  BY <1>2, <1>6 DEF IsScenario
<1>7. CASE s.committed # None /\ w = [s EXCEPT !.committed.tx = None]
  BY <1>1, <1>7 DEF IsScenario
<1>8. CASE s.committed # None /\ w = [s EXCEPT !.committed.catalog = None]
  BY <1>1, <1>8 DEF IsScenario
<1> QED BY <1>3, <1>4, <1>5, <1>6, <1>7, <1>8 DEF Withheld

LEMMA DeterministicType ==
  ASSUME NEW s
  PROVE  Deterministic(s) \in DecisionAction
BY DEF Deterministic, DecisionAction

-----------------------------------------------------------------------------
(* The reduction of a semantic result *)

LEMMA SemanticType ==
  ASSUME NEW statuses
  PROVE  SemanticAction(statuses) \in DecisionAction
BY DEF SemanticAction, DecisionAction

\* Only a PASS on every constraint reduces to an ALLOW.
LEMMA SemanticAllow ==
  ASSUME NEW constraints, NEW statuses \in [constraints -> ConstraintStatus],
         SemanticAction(statuses) = "ALLOW"
  PROVE  statuses = [k \in constraints |-> "PASS"]
<1>1. ASSUME NEW k \in constraints PROVE statuses[k] = "PASS"
  BY DEF SemanticAction, ConstraintStatus, Range
<1> QED BY <1>1

\* Nothing that was not there, or was no answer, reduces to an ALLOW.
LEMMA AbstentionIsNoAllow ==
  ASSUME NEW constraints, constraints # {}
  PROVE  SemanticAction(AllAbstain(constraints)) # "ALLOW"
<1> DEFINE f == AllAbstain(constraints)
<1>1. PICK k \in constraints : TRUE
  OBVIOUS
<1>2. "ABSTAIN" \in Range(f)
  BY <1>1 DEF AllAbstain, Range
<1> QED BY <1>2 DEF SemanticAction

LEMMA NormalizedType ==
  ASSUME NEW constraints, NEW answer \in Answers(constraints)
  PROVE  Normalized(answer, constraints) \in [constraints -> ConstraintStatus]
<1>1. CASE answer.kind = "PAYLOAD" /\ DOMAIN answer.results = constraints
  <2>1. answer.results \in UNION {[k -> ConstraintStatus] : k \in SUBSET constraints}
    BY <1>1 DEF Answers
  <2>2. PICK k \in SUBSET constraints : answer.results \in [k -> ConstraintStatus]
    BY <2>1
  <2>3. k = constraints
    BY <1>1, <2>2
  <2> QED BY <1>1, <2>2, <2>3 DEF Normalized
<1>2. CASE ~(answer.kind = "PAYLOAD" /\ DOMAIN answer.results = constraints)
  BY <1>2 DEF Normalized, AllAbstain, ConstraintStatus
<1> QED BY <1>1, <1>2
-----------------------------------------------------------------------------
(* Checkouts *)

\* Where a checkout has not been decided since its evidence or its clock changed.
Undecided == {"buyer", "authorize", "lookup", "model", "put", "review"}

\* The constraints of an allowed purchase are being judged.
Judging == {"lookup", "model", "put"}

\* The scenarios that a checkout may see: only their clock moves.
ScenariosHold ==
  /\ scenario = [c \in Checkouts |-> scenario[c]]
  /\ \A c \in Checkouts : IsScenario(scenario[c])

\* A row that is intact is the model's last answer about its key.
RowsAreReplies ==
  /\ rows = [k \in Keys |-> rows[k]] /\ replied = [k \in Keys |-> replied[k]]
  /\ \A k \in Keys :
       /\ rows[k].status \in {"NONE", "VALID", "CORRUPT"}
       /\ rows[k].status = "VALID" =>
            /\ rows[k] = replied[k]
            /\ rows[k].results \in [Constraints(k[1]) -> ConstraintStatus]
            /\ rows[k] = Row("VALID", rows[k].results)

\* What one checkout carries from step to step.
CheckoutHolds(c) ==
  /\ pc[c] \in Judging =>
       /\ Deterministic(scenario[c]) = "ALLOW" /\ Constraints(c) # {} /\ evidence[c] # {}
  /\ pc[c] \in {"model", "put"} => rows[Key(c)].status # "VALID"
  /\ pc[c] = "put" =>
       /\ results[c] \in [Constraints(c) -> ConstraintStatus]
       /\ replied[Key(c)] = Row("VALID", results[c])
  /\ pc[c] \in Undecided => final[c] # "ALLOW"
  /\ pc[c] \in {"buyer", "authorize", "lookup", "model"} => asked[c] <= round[c]
  /\ asked[c] <= round[c] + 1
  /\ capability[c] => pc[c] \in {"execute", "ended"} /\ WithinMandate(scenario[c])
  /\ pc[c] # "ended" => orders[c] = 0
  /\ final[c] = "ALLOW" /\ Constraints(c) # {} =>
       /\ evidence[c] # {}
       /\ replied[Key(c)] = Row("VALID", [k \in Constraints(c) |-> "PASS"])

CheckoutInvariant ==
  /\ TypeOK /\ results = [c \in Checkouts |-> results[c]]
  /\ evidence = [c \in Checkouts |-> evidence[c]]
  /\ ScenariosHold /\ RowsAreReplies
  /\ \A c \in Checkouts : CheckoutHolds(c)

LEMMA CheckoutInit == Init => CheckoutInvariant
<1> SUFFICES ASSUME Init PROVE CheckoutInvariant
  OBVIOUS
<1>1. ScenariosHold
  BY CheckoutAssumption DEF Init, ScenariosHold
<1>2. TypeOK
  BY CheckoutAssumption DEF Init, TypeOK, Pcs, NoRow, Row
<1>3. RowsAreReplies
  BY DEF Init, RowsAreReplies, NoRow, NoAnswer, Row
<1>4. \A c \in Checkouts : CheckoutHolds(c)
  BY DEF Init, CheckoutHolds, Judging, Undecided
<1> QED BY <1>1, <1>2, <1>3, <1>4 DEF CheckoutInvariant, Init

-----------------------------------------------------------------------------
(* Steps *)

\* A step leaves what one checkout carries alone.
Untouched(d) ==
  /\ pc'[d] = pc[d] /\ scenario'[d] = scenario[d] /\ evidence'[d] = evidence[d]
  /\ round'[d] = round[d] /\ final'[d] = final[d] /\ results'[d] = results[d]
  /\ capability'[d] = capability[d] /\ asked'[d] = asked[d] /\ orders'[d] = orders[d]
  /\ replied'[Key(d)] = replied[Key(d)]
  /\ rows'[Key(d)].status = "VALID" => rows[Key(d)].status = "VALID"

LEMMA UntouchedHolds ==
  ASSUME NEW d \in Checkouts, CheckoutHolds(d), Untouched(d)
  PROVE  CheckoutHolds(d)'
<1>1. Key(d)' = Key(d) /\ Constraints(d)' = Constraints(d)
  BY DEF Untouched, Key, Constraints
<1> QED BY <1>1 DEF Untouched, CheckoutHolds

\* A step that leaves scenarios, rows and answers alone keeps what is said of them.
LEMMA RowsUntouched ==
  ASSUME ScenariosHold, RowsAreReplies, UNCHANGED <<scenario, rows, replied>>
  PROVE  ScenariosHold' /\ RowsAreReplies'
BY DEF ScenariosHold, RowsAreReplies, Constraints

\* The steps of a checkout that leave its evidence, the rows and the answers alone.
Quiet(c) ==
  \/ PurchaseFails(c) \/ Authorize(c) \/ LookupHit(c) \/ LookupMiss(c) \/ CacheFails(c)
  \/ Report(c) \/ ReviewFails(c) \/ Register(c) \/ RegisterFails(c)
  \/ Issue(c) \/ IssueRefused(c) \/ Execute(c)

LEMMA QuietType ==
  ASSUME CheckoutInvariant, NEW c \in Checkouts, Quiet(c)
  PROVE  TypeOK' /\ results' = [d \in Checkouts |-> results'[d]]
<1> USE DEF CheckoutInvariant, TypeOK, Go, cache, payment
<1>1. CASE PurchaseFails(c)
  BY <1>1 DEF PurchaseFails, Pcs
<1>2. CASE Authorize(c)
  BY <1>2, DeterministicType DEF Authorize, Decide, After, Pcs, DecisionAction
<1>3. CASE LookupHit(c)
  BY <1>3, SemanticType DEF LookupHit, Decide, After, Pcs, DecisionAction
<1>4. CASE LookupMiss(c)
  BY <1>4 DEF LookupMiss, Pcs
<1>5. CASE CacheFails(c)
  <2>1. faults' \in 0..MaxFaults
    BY <1>5, CheckoutAssumption DEF CacheFails
  <2>2. /\ pc' \in [Checkouts -> Pcs]
        /\ final' \in [Checkouts -> DecisionAction \union {"NONE"}]
    <3>1. CASE round[c] = 0
      BY <1>5, <3>1, SemanticType DEF CacheFails, Decide, Pcs
    <3>2. CASE round[c] # 0
      BY <1>5, <3>2 DEF CacheFails, Pcs
    <3> QED BY <3>1, <3>2
  <2>3. cacheFailed' \in [Checkouts -> BOOLEAN]
    BY <1>5 DEF CacheFails
  <2>4. results' = [d \in Checkouts |-> results'[d]]
    BY <1>5 DEF CacheFails
  <2> QED BY <1>5, <2>1, <2>2, <2>3, <2>4 DEF CacheFails
<1>6. CASE Report(c)
  BY <1>6 DEF Report, After, Pcs
<1>7. CASE ReviewFails(c)
  BY <1>7 DEF ReviewFails, Pcs
<1>8. CASE Register(c)
  BY <1>8 DEF Register, Pcs
<1>9. CASE RegisterFails(c)
  BY <1>9 DEF RegisterFails, Pcs
<1>10. CASE Issue(c)
  BY <1>10 DEF Issue, Replayed, Completed, Pcs
<1>11. CASE IssueRefused(c)
  <2>1. faults' \in 0..MaxFaults
    BY <1>11, CheckoutAssumption DEF IssueRefused
  <2>2. lastStatus' \in {"NONE", "HIT", "MISS"}
    BY <1>11 DEF IssueRefused, Replayed
  <2>3. pc' \in [Checkouts -> Pcs] /\ outcome' \in [Checkouts -> {"RUNNING", "COMPLETE", "ERROR"}]
    BY <1>11 DEF IssueRefused, Completed, Pcs
  <2> QED BY <1>11, <2>1, <2>2, <2>3 DEF IssueRefused
<1>12. CASE Execute(c)
  <2>1. orders[c] = 0
    BY <1>12 DEF Execute, CheckoutHolds
  <2>2. orders' \in [Checkouts -> 0..1]
    BY <1>12, <2>1 DEF Execute
  <2>3. pc' \in [Checkouts -> Pcs] /\ outcome' \in [Checkouts -> {"RUNNING", "COMPLETE", "ERROR"}]
    BY <1>12 DEF Execute, Pcs
  <2> QED BY <1>12, <2>2, <2>3 DEF Execute
<1> QED
  BY <1>1, <1>2, <1>3, <1>4, <1>5, <1>6, <1>7, <1>8, <1>9, <1>10, <1>11, <1>12 DEF Quiet

LEMMA QuietOthers ==
  ASSUME CheckoutInvariant, NEW c \in Checkouts, Quiet(c), NEW d \in Checkouts, d # c
  PROVE  Untouched(d)
BY DEF CheckoutInvariant, TypeOK, Quiet, PurchaseFails, Authorize, LookupHit, LookupMiss,
       CacheFails, Report, ReviewFails, Register, RegisterFails, Issue, IssueRefused, Execute,
       Decide, Completed, Go, cache, payment, Untouched

LEMMA QuietHolds ==
  ASSUME CheckoutInvariant, NEW c \in Checkouts, Quiet(c)
  PROVE  CheckoutHolds(c)'
<1> USE DEF CheckoutInvariant, TypeOK, Go, cache, payment
<1>0. CheckoutHolds(c)
  OBVIOUS
<1>k. Key(c) \in Keys /\ Key(c)[1] = c
  BY DEF Keys, Key
<1>u. Key(c)' = Key(c) /\ Constraints(c)' = Constraints(c) /\ UNCHANGED <<scenario, evidence, rows, replied>>
  BY DEF Quiet, PurchaseFails, Authorize, LookupHit, LookupMiss, CacheFails, Report, ReviewFails,
         Register, RegisterFails, Issue, IssueRefused, Execute, Key, Constraints
<1>1. CASE PurchaseFails(c)
  BY <1>0, <1>u, <1>1 DEF PurchaseFails, CheckoutHolds, Judging, Undecided
<1>2. CASE Authorize(c)
  BY <1>0, <1>u, <1>2, DeterministicType
  DEF Authorize, CheckoutHolds, Judging, Undecided, Decide, After, DecisionAction
<1>3. CASE LookupHit(c)
  <2> DEFINE answer == rows[Key(c)]
  <2>1. /\ answer = replied[Key(c)] /\ answer = Row("VALID", answer.results)
        /\ answer.results \in [Constraints(c) -> ConstraintStatus]
    BY <1>3, <1>k DEF LookupHit, RowsAreReplies
  <2>2. SemanticAction(answer.results) = "ALLOW" =>
          answer = Row("VALID", [k \in Constraints(c) |-> "PASS"])
    BY <2>1, SemanticAllow
  <2> QED
    BY <1>0, <1>u, <1>3, <2>1, <2>2, SemanticType
    DEF LookupHit, CheckoutHolds, Judging, Undecided, Decide, After, DecisionAction
<1>4. CASE LookupMiss(c)
  BY <1>0, <1>u, <1>4 DEF LookupMiss, CheckoutHolds, Judging, Undecided, NoRow, Row
<1>5. CASE CacheFails(c)
  <2>1. Constraints(c) # {}
    BY <1>0, <1>5 DEF CacheFails, CheckoutHolds, Judging
  <2>2. SemanticAction(AllAbstain(Constraints(c))) \in {"BLOCK", "REVIEW"}
    BY <2>1, AbstentionIsNoAllow, SemanticType DEF DecisionAction
  <2> QED
    BY <1>0, <1>u, <1>5, <2>2
    DEF CacheFails, CheckoutHolds, Judging, Undecided, Decide, After
<1>6. CASE Report(c)
  BY <1>0, <1>u, <1>6 DEF Report, CheckoutHolds, Judging, Undecided, After, DecisionAction
<1>7. CASE ReviewFails(c)
  BY <1>0, <1>u, <1>7 DEF ReviewFails, CheckoutHolds, Judging, Undecided
<1>8. CASE Register(c)
  BY <1>0, <1>u, <1>8 DEF Register, CheckoutHolds, Judging, Undecided
<1>9. CASE RegisterFails(c)
  BY <1>0, <1>u, <1>9 DEF RegisterFails, CheckoutHolds, Judging, Undecided
<1>10. CASE Issue(c)
  <2>1. WithinMandate(scenario[c])
    BY <1>10, AllowedIsWithinMandate DEF Issue, Replays, ScenariosHold
  <2>2. WithinMandate(scenario[c])'
    BY <2>1, <1>u
  <2> QED
    BY <1>0, <1>u, <1>10, <2>2 DEF Issue, CheckoutHolds, Judging, Undecided, Completed
<1>11. CASE IssueRefused(c)
  BY <1>0, <1>u, <1>11 DEF IssueRefused, CheckoutHolds, Judging, Undecided
<1>12. CASE Execute(c)
  BY <1>0, <1>u, <1>12 DEF Execute, CheckoutHolds, Judging, Undecided
<1> QED
  BY <1>1, <1>2, <1>3, <1>4, <1>5, <1>6, <1>7, <1>8, <1>9, <1>10, <1>11, <1>12 DEF Quiet

LEMMA QuietPreserves ==
  ASSUME CheckoutInvariant, NEW c \in Checkouts, Quiet(c)
  PROVE  CheckoutInvariant'
<1>1. UNCHANGED <<scenario, evidence, rows, replied>>
  BY DEF Quiet, PurchaseFails, Authorize, LookupHit, LookupMiss, CacheFails, Report, ReviewFails,
         Register, RegisterFails, Issue, IssueRefused, Execute, cache
<1>2. ScenariosHold' /\ RowsAreReplies'
  BY <1>1, RowsUntouched DEF CheckoutInvariant
<1>3. \A d \in Checkouts : CheckoutHolds(d)'
  BY QuietHolds, QuietOthers, UntouchedHolds DEF CheckoutInvariant
<1> QED BY <1>1, <1>2, <1>3, QuietType DEF CheckoutInvariant

\* Evidence is chosen before anything was asked about it.
LEMMA PurchasePreserves ==
  ASSUME CheckoutInvariant, NEW c \in Checkouts, Purchase(c)
  PROVE  CheckoutInvariant'
<1> USE DEF CheckoutInvariant
<1>1. UNCHANGED <<scenario, rows, replied, results, final, round, asked, orders, capability>>
  BY DEF Purchase, cache, payment
<1>2. ScenariosHold' /\ RowsAreReplies'
  BY <1>1, RowsUntouched
<1>3. TypeOK' /\ evidence' = [d \in Checkouts |-> evidence'[d]]
  BY DEF Purchase, TypeOK, Go, Pcs, cache, payment
<1>4. CheckoutHolds(c)'
  <2>1. pc[c] = "buyer" /\ pc'[c] = "authorize" /\ CheckoutHolds(c)
    BY DEF Purchase, Go, TypeOK
  <2> QED BY <2>1, <1>1 DEF CheckoutHolds, Judging, Undecided
<1>5. ASSUME NEW d \in Checkouts, d # c PROVE CheckoutHolds(d)'
  <2>1. Untouched(d)
    BY <1>1, <1>5 DEF Purchase, Go, TypeOK, Untouched
  <2> QED BY <2>1, UntouchedHolds
<1> QED BY <1>1, <1>2, <1>3, <1>4, <1>5

\* The answer to a key is only in the way of who asked for it.
LEMMA AskModelPreserves ==
  ASSUME CheckoutInvariant, NEW c \in Checkouts, AskModel(c)
  PROVE  CheckoutInvariant'
<1> USE DEF CheckoutInvariant
<1>1. UNCHANGED <<scenario, evidence, rows, final, round, orders, capability>>
  BY DEF AskModel, cache, payment
<1>2. PICK answer \in Answers(Constraints(c)) :
        /\ results' = [results EXCEPT ![c] = Normalized(answer, Constraints(c))]
        /\ replied' = [replied EXCEPT ![Key(c)] =
                          Row("VALID", Normalized(answer, Constraints(c)))]
  BY DEF AskModel
<1>3. pc[c] = "model" /\ pc' = [pc EXCEPT ![c] = "put"] /\ asked' = [asked EXCEPT ![c] = @ + 1]
  BY DEF AskModel, Go
<1>4. Key(c) \in Keys /\ Key(c)' = Key(c) /\ Constraints(c)' = Constraints(c)
  BY <1>1 DEF Keys, Key, Constraints, TypeOK
<1>5. rows[Key(c)].status # "VALID" /\ CheckoutHolds(c)
  BY <1>3 DEF CheckoutHolds
<1>6. TypeOK' /\ results' = [d \in Checkouts |-> results'[d]]
  <2>1. pc' \in [Checkouts -> Pcs] /\ asked' \in [Checkouts -> Nat]
    BY <1>3 DEF TypeOK, Pcs
  <2>2. UNCHANGED <<cache, payment, reported, outcome, cacheFailed>>
    BY DEF AskModel
  <2> QED BY <1>1, <1>2, <2>1, <2>2 DEF TypeOK, cache, payment
<1>7. ScenariosHold'
  BY <1>1 DEF ScenariosHold
<1>8. RowsAreReplies'
  <2>1. \A k \in Keys : rows'[k].status = "VALID" => replied'[k] = replied[k]
    BY <1>1, <1>2, <1>5 DEF RowsAreReplies
  <2>2. replied' = [k \in Keys |-> replied'[k]]
    BY <1>2 DEF RowsAreReplies
  <2> QED BY <1>1, <2>1, <2>2 DEF RowsAreReplies, Constraints
<1>9. CheckoutHolds(c)'
  <2>1. Normalized(answer, Constraints(c)) \in [Constraints(c) -> ConstraintStatus]
    BY NormalizedType
  <2>2. results'[c] = Normalized(answer, Constraints(c))
    BY <1>2
  <2>3. replied'[Key(c)] = Row("VALID", results'[c])
    BY <1>2, <1>4, <2>2 DEF RowsAreReplies
  <2>4. pc'[c] = "put" /\ asked'[c] = asked[c] + 1 /\ asked[c] <= round[c]
    BY <1>3, <1>5 DEF TypeOK, CheckoutHolds
  <2>5. asked'[c] <= round'[c] + 1
    BY <1>1, <2>4 DEF TypeOK
  <2> QED
    BY <1>1, <1>3, <1>4, <1>5, <2>1, <2>2, <2>3, <2>4, <2>5
    DEF CheckoutHolds, Judging, Undecided
<1>10. ASSUME NEW d \in Checkouts, d # c PROVE CheckoutHolds(d)'
  <2>1. Key(d) # Key(c)
    BY <1>10 DEF Key
  <2>2. Untouched(d)
    BY <1>1, <1>2, <1>3, <1>10, <2>1 DEF Untouched, RowsAreReplies, TypeOK
  <2> QED BY <2>2, UntouchedHolds
<1> QED BY <1>1, <1>6, <1>7, <1>8, <1>9, <1>10

\* What is inserted is what the model said.
LEMMA PutPreserves ==
  ASSUME CheckoutInvariant, NEW c \in Checkouts, Put(c)
  PROVE  CheckoutInvariant'
<1> USE DEF CheckoutInvariant
<1>1. UNCHANGED <<scenario, evidence, results, replied, round, asked, orders, capability>>
  BY DEF Put, payment
<1>2. /\ pc[c] = "put" /\ CheckoutHolds(c)
      /\ rows' = [rows EXCEPT ![Key(c)] = Row("VALID", results[c])]
      /\ Decide(c, SemanticAction(results[c]))
  BY DEF Put
<1>3. /\ Constraints(c) # {} /\ evidence[c] # {}
      /\ results[c] \in [Constraints(c) -> ConstraintStatus]
      /\ replied[Key(c)] = Row("VALID", results[c])
  BY <1>2 DEF CheckoutHolds, Judging
<1>4. Key(c) \in Keys /\ Key(c)' = Key(c) /\ Constraints(c)' = Constraints(c) /\ Key(c)[1] = c
  BY <1>1 DEF Keys, Key, Constraints, TypeOK
<1>5. TypeOK'
  <2>1. pc' \in [Checkouts -> Pcs] /\ final' \in [Checkouts -> DecisionAction \union {"NONE"}]
    BY <1>2, SemanticType DEF Decide, Go, After, Pcs, TypeOK
  <2>2. \A k \in Keys : rows'[k].status \in {"NONE", "VALID", "CORRUPT"}
    BY <1>2 DEF RowsAreReplies, Row
  <2>3. UNCHANGED <<cacheFailed, faults, reported, payment, outcome>> /\ lastStatus' = "MISS"
    BY DEF Put
  <2> QED BY <1>1, <2>1, <2>2, <2>3 DEF TypeOK, payment
<1>6. ScenariosHold'
  BY <1>1 DEF ScenariosHold
<1>7. RowsAreReplies'
  <2> SUFFICES ASSUME NEW k \in Keys
               PROVE  /\ rows'[k].status \in {"NONE", "VALID", "CORRUPT"}
                      /\ rows'[k].status = "VALID" =>
                           /\ rows'[k] = replied'[k]
                           /\ rows'[k].results \in [Constraints(k[1])' -> ConstraintStatus]
                           /\ rows'[k] = Row("VALID", rows'[k].results)
    BY <1>1, <1>2 DEF RowsAreReplies
  <2>1. CASE k = Key(c)
    <3>1. rows'[k] = Row("VALID", results[c])
      BY <1>2, <2>1 DEF RowsAreReplies
    <3>2. rows'[k].status = "VALID" /\ rows'[k].results = results[c]
      BY <3>1 DEF Row
    <3> QED BY <1>1, <1>3, <1>4, <2>1, <3>1, <3>2
  <2>2. CASE k # Key(c)
    <3>1. rows'[k] = rows[k] /\ replied'[k] = replied[k] /\ Constraints(k[1])' = Constraints(k[1])
      BY <1>1, <1>2, <2>2 DEF RowsAreReplies, Constraints
    <3> QED BY <3>1 DEF RowsAreReplies
  <2> QED BY <2>1, <2>2
<1>8. CheckoutHolds(c)'
  <2>1. SemanticAction(results[c]) = "ALLOW" => results[c] = [k \in Constraints(c) |-> "PASS"]
    BY <1>3, SemanticAllow
  <2>2. final'[c] = SemanticAction(results[c])
    BY <1>2 DEF Decide, TypeOK
  <2>3. pc'[c] \in {"report", "register", "review", "ended"}
        /\ (pc'[c] = "review" => final'[c] = "REVIEW")
    BY <1>2, <2>2 DEF Decide, Go, After, TypeOK
  <2>4. CheckoutHolds(c) /\ ~capability[c] /\ orders[c] = 0
    BY <1>2 DEF CheckoutHolds, TypeOK
  <2> QED
    BY <1>1, <1>3, <1>4, <2>1, <2>2, <2>3, <2>4 DEF CheckoutHolds, Judging, Undecided
<1>9. ASSUME NEW d \in Checkouts, d # c PROVE CheckoutHolds(d)'
  <2>1. Key(d) # Key(c)
    BY <1>9 DEF Key
  <2>2. Untouched(d)
    BY <1>1, <1>2, <1>9, <2>1 DEF Untouched, Decide, Go, RowsAreReplies, TypeOK
  <2> QED BY <2>2, UntouchedHolds
<1> QED BY <1>1, <1>5, <1>6, <1>7, <1>8, <1>9

\* A round of recovery starts over: what it decides on may be other evidence, and
\* another time.
LEMMA RecoverPreserves ==
  ASSUME CheckoutInvariant, NEW c \in Checkouts, Recover(c)
  PROVE  CheckoutInvariant'
<1> USE DEF CheckoutInvariant
<1>1. UNCHANGED <<rows, replied, results, final, asked, orders, capability>>
  BY DEF Recover, cache, payment
<1>2. PICK later \in {scenario[c].now, scenario[c].mandate.expiresAt} :
        scenario' = [scenario EXCEPT ![c].now = later]
  BY DEF Recover
<1>3. /\ pc[c] = "review" /\ pc' = [pc EXCEPT ![c] = "authorize"]
      /\ round[c] < MaxRounds /\ round' = [round EXCEPT ![c] = @ + 1]
  BY DEF Recover, Go
<1>4. scenario' = [d \in Checkouts |-> IF d = c THEN [scenario[c] EXCEPT !.now = later] ELSE scenario[d]]
  BY <1>2 DEF ScenariosHold
<1>5. IsScenario([scenario[c] EXCEPT !.now = later])
      /\ [scenario[c] EXCEPT !.now = later].mandate = scenario[c].mandate
  BY <1>2 DEF ScenariosHold, IsScenario
<1>6. ScenariosHold' /\ \A d \in Checkouts : Constraints(d)' = Constraints(d)
  BY <1>4, <1>5 DEF ScenariosHold, Constraints
<1>7. TypeOK' /\ evidence' = [d \in Checkouts |-> evidence'[d]]
  <2>1. round' \in [Checkouts -> 0..MaxRounds]
    BY <1>3, CheckoutAssumption DEF TypeOK
  <2>2. \A d \in Checkouts : evidence'[d] \in EvidenceSets
    BY DEF Recover, TypeOK
  <2>3. pc' \in [Checkouts -> Pcs]
    BY <1>3 DEF TypeOK, Pcs
  <2>4. UNCHANGED <<cacheFailed, cache, reported, payment, outcome>>
    BY DEF Recover
  <2>5. evidence' = [d \in Checkouts |-> evidence'[d]]
    BY DEF Recover
  <2> QED BY <1>1, <2>1, <2>2, <2>3, <2>4, <2>5 DEF TypeOK, cache, payment
<1>8. RowsAreReplies'
  <2>1. \A k \in Keys : k[1] \in Checkouts
    BY DEF Keys
  <2> QED BY <1>1, <1>6, <2>1 DEF RowsAreReplies
<1>9. CheckoutHolds(c)'
  <2>1. CheckoutHolds(c) /\ final[c] # "ALLOW" /\ ~capability[c]
    BY <1>3 DEF CheckoutHolds, Undecided
  <2>2. pc'[c] = "authorize" /\ round'[c] = round[c] + 1 /\ asked[c] <= round[c] + 1
    BY <1>3, <2>1 DEF CheckoutHolds, TypeOK
  <2>3. asked'[c] <= round'[c] /\ asked'[c] <= round'[c] + 1
    BY <1>1, <2>2 DEF TypeOK
  <2> QED BY <1>1, <1>3, <2>1, <2>2, <2>3 DEF CheckoutHolds, Judging, Undecided
<1>10. ASSUME NEW d \in Checkouts, d # c PROVE CheckoutHolds(d)'
  <2>1. evidence'[d] = evidence[d]
    BY <1>10 DEF Recover
  <2>2. Untouched(d)
    BY <1>1, <1>3, <1>4, <1>10, <2>1 DEF Untouched, TypeOK
  <2> QED BY <2>2, UntouchedHolds
<1> QED BY <1>1, <1>6, <1>7, <1>8, <1>9, <1>10

\* A damaged row answers nobody.
LEMMA DamageRowPreserves ==
  ASSUME CheckoutInvariant, NEW k \in Keys, DamageRow(k)
  PROVE  CheckoutInvariant'
<1> USE DEF CheckoutInvariant
<1>1. /\ rows' = [rows EXCEPT ![k] = Corrupt]
      /\ UNCHANGED <<scenario, evidence, pc, round, final, results, cacheFailed, lastStatus,
                     reported, payment, outcome, replied, asked>>
  BY DEF DamageRow
<1>2. \A j \in Keys : rows'[j] = IF j = k THEN Row("CORRUPT", << >>) ELSE rows[j]
  BY <1>1 DEF RowsAreReplies, Corrupt
<1>3. \A j \in Keys : rows'[j].status = "VALID" => rows'[j] = rows[j]
  BY <1>2 DEF Row
<1>4. TypeOK'
  <2>1. faults' \in 0..MaxFaults
    BY CheckoutAssumption DEF DamageRow, TypeOK
  <2>2. \A j \in Keys : rows'[j].status \in {"NONE", "VALID", "CORRUPT"}
    BY <1>2 DEF TypeOK, Row
  <2> QED BY <1>1, <2>1, <2>2 DEF TypeOK, payment
<1>5. ScenariosHold'
  BY <1>1 DEF ScenariosHold
<1>6. RowsAreReplies'
  <2>1. rows' = [j \in Keys |-> rows'[j]]
    BY <1>1 DEF RowsAreReplies
  <2>2. \A j \in Keys : rows'[j].status \in {"NONE", "VALID", "CORRUPT"}
    BY <1>2 DEF TypeOK, Row
  <2> QED BY <1>1, <1>3, <2>1, <2>2 DEF RowsAreReplies, Constraints
<1>7. \A d \in Checkouts : CheckoutHolds(d)'
  <2> SUFFICES ASSUME NEW d \in Checkouts PROVE CheckoutHolds(d)'
    OBVIOUS
  <2>1. Key(d) \in Keys
    BY DEF Key, Keys, TypeOK
  <2>2. Untouched(d)
    BY <1>1, <1>3, <2>1 DEF Untouched, payment
  <2> QED BY <2>2, UntouchedHolds
<1> QED BY <1>1, <1>4, <1>5, <1>6, <1>7

LEMMA CheckoutStep == CheckoutInvariant /\ [Next]_vars => CheckoutInvariant'
<1> SUFFICES ASSUME CheckoutInvariant, [Next]_vars PROVE CheckoutInvariant'
  OBVIOUS
<1>1. ASSUME NEW c \in Checkouts, Proceed(c) PROVE CheckoutInvariant'
  BY <1>1, PurchasePreserves, AskModelPreserves, PutPreserves, QuietPreserves DEF Proceed, Quiet
<1>2. ASSUME NEW c \in Checkouts, Recover(c) PROVE CheckoutInvariant'
  BY <1>2, RecoverPreserves
<1>3. ASSUME NEW k \in Keys, DamageRow(k) PROVE CheckoutInvariant'
  BY <1>3, DamageRowPreserves
<1>4. CASE UNCHANGED vars
  <2>1. \A d \in Checkouts : Untouched(d)
    BY <1>4 DEF vars, Untouched
  <2>2. \A d \in Checkouts : CheckoutHolds(d)'
    BY <2>1, UntouchedHolds DEF CheckoutInvariant
  <2>3. ScenariosHold' /\ RowsAreReplies'
    BY <1>4, RowsUntouched DEF CheckoutInvariant, vars
  <2>4. TypeOK'
    BY <1>4 DEF CheckoutInvariant, TypeOK, vars
  <2> QED BY <1>4, <2>2, <2>3, <2>4 DEF CheckoutInvariant, vars
<1> QED BY <1>1, <1>2, <1>3, <1>4 DEF Next

-----------------------------------------------------------------------------
(* Theorems *)

THEOREM CheckoutInvariantHolds == Spec => []CheckoutInvariant
<1> QED BY CheckoutInit, CheckoutStep, PTL DEF Spec

\* Type correctness of the threads, of the cache and of what was issued and paid.
THEOREM CheckoutTypeCorrect == Spec => []TypeOK
<1>1. CheckoutInvariant => TypeOK
  BY DEF CheckoutInvariant
<1> QED BY <1>1, CheckoutInvariantHolds, PTL

\* _safe_authorize and the cache: an ALLOW rests on a PASS that the model gave to every
\* constraint of this mandate for this evidence.
THEOREM CheckoutAllowIsEarned == Spec => []AllowIsEarned
<1>1. CheckoutInvariant => AllowIsEarned
  BY DEF CheckoutInvariant, CheckoutHolds, AllowIsEarned
<1> QED BY <1>1, CheckoutInvariantHolds, PTL

\* issue_execution_authorization: a capability is for a purchase within its mandate.
THEOREM CheckoutCapabilityIsWithinMandate == Spec => []CapabilityIsWithinMandate
<1>1. CheckoutInvariant => CapabilityIsWithinMandate
  BY DEF CheckoutInvariant, CheckoutHolds, CapabilityIsWithinMandate
<1> QED BY <1>1, CheckoutInvariantHolds, PTL

\* evaluate_tier_a: what cannot be evaluated is never allowed.
THEOREM CheckoutWithholdingNeverAllows == Spec => []WithholdingNeverAllows
<1>1. CheckoutInvariant => WithholdingNeverAllows
  BY WithheldIsNotAllowed DEF CheckoutInvariant, ScenariosHold, WithholdingNeverAllows
<1> QED BY <1>1, CheckoutInvariantHolds, PTL

\* authorize_transaction: the model is asked behind the deterministic gate, once.
THEOREM CheckoutModelIsGated == Spec => []ModelIsGated
<1>1. CheckoutInvariant => ModelIsGated
  BY DEF CheckoutInvariant, CheckoutHolds, Judging, ModelIsGated
<1> QED BY <1>1, CheckoutInvariantHolds, PTL
=============================================================================
