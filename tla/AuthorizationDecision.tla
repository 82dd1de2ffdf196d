----------------------- MODULE AuthorizationDecision -----------------------
(***************************************************************************)
(* The decision on one purchase: the deterministic checks of               *)
(* policy/tier_a.py and policy/tier_b.py, their composition in             *)
(* models/decision.py, and the reduction of a semantic result to an action *)
(* in semantic/models.py.                                                  *)
(*                                                                         *)
(* A scenario s is what evaluate_tier_a and evaluate_tier_b are given:     *)
(*   s.mandate    currency, ceiling, maxQuantity, recurring, merchants,    *)
(*                skus and families (sets, or None for no allowlist),      *)
(*                expiresAt, nonce, constraints (the semantic ones)        *)
(*   s.tx         the transaction's payload, its lines a sequence          *)
(*   s.declared   the hash that the transaction declares of itself         *)
(*   s.catalog    a snapshot or None; items is a function of the SKU       *)
(*   s.committed  the PSP's two commitments, each a hash or None; or None  *)
(*   s.now        the server's time, or None                               *)
(*   s.consumed   the nonces of the ledger, or None                        *)
(* A hash is modelled by the value that it is the hash of.                 *)
(***************************************************************************)
EXTENDS Integers, Sequences, FiniteSets, Functions

CONSTANT None   \* what is not there, and a currency, time or hash is not

CheckStatus == {"PASS", "FAIL", "NOT_EVALUABLE"}
ConstraintStatus == {"PASS", "VIOLATION", "ABSTAIN"}
DecisionAction == {"ALLOW", "REVIEW", "BLOCK"}

\* The fields that the models of mandate and transaction validate.
IsScenario(s) ==
  /\ s = [mandate |-> s.mandate, tx |-> s.tx, declared |-> s.declared, catalog |-> s.catalog,
          committed |-> s.committed, now |-> s.now, consumed |-> s.consumed]
  /\ s.mandate.ceiling \in Int /\ s.mandate.maxQuantity \in Int /\ s.mandate.expiresAt \in Int
  /\ s.mandate.recurring \in BOOLEAN
  /\ s.tx.total \in Int /\ s.tx.quantity \in Int
  /\ s.committed # None => s.committed = [tx |-> s.committed.tx, catalog |-> s.committed.catalog]
  /\ s.now # None => s.now \in Int

-----------------------------------------------------------------------------
(* Commitments *)

CommitmentState(actual, committed) ==
  IF actual = None \/ committed = None THEN "ABSENT"
  ELSE IF actual = committed THEN "MATCH" ELSE "MISMATCH"

TransactionState(s) ==
  CommitmentState(s.tx, IF s.committed = None THEN None ELSE s.committed.tx)

CatalogState(s) ==
  CommitmentState(s.catalog, IF s.committed = None THEN None ELSE s.committed.catalog)

-----------------------------------------------------------------------------
(* Tier A *)

Lines(s) == Range(s.tx.lines)
Listed(s, line) == line.sku \in DOMAIN s.catalog.items
Item(s, line) == s.catalog.items[line.sku]
AllListed(s) == \A line \in Lines(s) : Listed(s, line)

\* What fails is reported before what cannot be evaluated.
Checked(fails, unavailable) ==
  IF fails THEN "FAIL" ELSE IF unavailable THEN "NOT_EVALUABLE" ELSE "PASS"

A1(s) ==
  IF CatalogState(s) # "MATCH" \/ s.catalog.currency # s.tx.orderCurrency
  THEN "NOT_EVALUABLE"
  ELSE Checked(\E line \in Lines(s) : Listed(s, line) /\ line.price # Item(s, line).price,
               ~AllListed(s))

Owned(s, line) == Listed(s, line) /\ Item(s, line).merchant = s.tx.merchant

A2(s) ==
  LET families == s.mandate.families
      outside(line) == /\ families # None
                       /\ Item(s, line).family # None
                       /\ Item(s, line).family \notin families
      unnamed(line) == families # None /\ Item(s, line).family = None
  IN IF CatalogState(s) # "MATCH" THEN "NOT_EVALUABLE"
     ELSE Checked(\E line \in Lines(s) : ~Owned(s, line) \/ outside(line),
                  \E line \in Lines(s) : unnamed(line))

A3(s) ==
  IF CatalogState(s) # "MATCH" THEN "NOT_EVALUABLE"
  ELSE Checked(s.tx.merchant # s.catalog.merchant, FALSE)

A4(s) ==
  IF s.consumed = None THEN "NOT_EVALUABLE"
  ELSE Checked(s.mandate.nonce \in s.consumed, FALSE)

\* Faulty: without a clock nothing has expired.
A5Lenient(s) == Checked(s.now # None /\ s.now >= s.mandate.expiresAt, FALSE)

A5(s) ==
  IF s.now = None THEN "NOT_EVALUABLE" ELSE Checked(s.now >= s.mandate.expiresAt, FALSE)

A6(s) ==
  LET states == {TransactionState(s), CatalogState(s)}
  IN Checked("MISMATCH" \in states, "ABSENT" \in states)

CatalogTotal(s) == SumFunction([i \in DOMAIN s.tx.lines |->
                                  Item(s, s.tx.lines[i]).price * s.tx.lines[i].quantity])

A7(s) ==
  IF \/ CatalogState(s) # "MATCH" \/ TransactionState(s) # "MATCH"
     \/ s.catalog.currency # s.mandate.currency \/ ~AllListed(s)
  THEN "NOT_EVALUABLE"
  ELSE Checked(CatalogTotal(s) # s.tx.total \/ CatalogTotal(s) > s.mandate.ceiling, FALSE)

A8(s) ==
  IF CatalogState(s) # "MATCH" THEN "NOT_EVALUABLE"
  ELSE Checked(/\ ~s.mandate.recurring
               /\ \E line \in Lines(s) : Listed(s, line) /\ Item(s, line).recurring,
               ~AllListed(s))

TierA(s) == <<A1(s), A2(s), A3(s), A4(s), A5(s), A6(s), A7(s), A8(s)>>

-----------------------------------------------------------------------------
(* Tier B: what the transaction says of itself, and of the mandate *)

LineSum(s) == SumFunction([i \in DOMAIN s.tx.lines |-> s.tx.lines[i].total])
LineQuantity(s) == SumFunction([i \in DOMAIN s.tx.lines |-> s.tx.lines[i].quantity])
LineRecurring(s) == \E line \in Lines(s) : line.recurring
Outside(x, allowlist) == allowlist # None /\ x \notin allowlist

B1(s) == \/ \E line \in Lines(s) : line.total # line.price * line.quantity
         \/ LineSum(s) # s.tx.total
\* Faulty: only a declared quantity that is too high is found.
B2OneSided(s) == LineQuantity(s) < s.tx.quantity

B2(s) == LineQuantity(s) # s.tx.quantity
B3(s) == Cardinality({s.mandate.currency, s.tx.cartCurrency, s.tx.orderCurrency}) # 1
B4(s) == Cardinality({s.tx.cartRecurring, s.tx.orderRecurring, LineRecurring(s)}) # 1
B5(s) == s.tx # s.declared
B6(s) == s.tx.total > s.mandate.ceiling
B7(s) == s.tx.quantity > s.mandate.maxQuantity
B8(s) == /\ s.tx.cartRecurring \/ s.tx.orderRecurring \/ LineRecurring(s)
         /\ ~s.mandate.recurring
B9(s) == Outside(s.tx.merchant, s.mandate.merchants)
B10(s) == \E line \in Lines(s) : Outside(line.sku, s.mandate.skus)

TierBFinds(s) == \/ B1(s) \/ B2(s) \/ B3(s) \/ B4(s) \/ B5(s)
                 \/ B6(s) \/ B7(s) \/ B8(s) \/ B9(s) \/ B10(s)

\* A finding of either tier blocks; what could not be checked is not allowed.
Deterministic(s) ==
  IF TierBFinds(s) \/ "FAIL" \in Range(TierA(s)) THEN "BLOCK"
  ELSE IF "NOT_EVALUABLE" \in Range(TierA(s)) THEN "REVIEW" ELSE "ALLOW"

-----------------------------------------------------------------------------
(* Tier C *)

AllAbstain(constraints) == [k \in constraints |-> "ABSTAIN"]

\* A model's answer is its payload, a function of constraint ids; or it raised, or
\* the response is a refusal or incomplete.  Whatever does not cover the
\* constraints exactly abstains on all of them.
Normalized(answer, constraints) ==
  IF answer.kind = "PAYLOAD" /\ DOMAIN answer.results = constraints
  THEN answer.results ELSE AllAbstain(constraints)

\* reduce_semantic_verdict and action_for_semantic_verdict
SemanticAction(results) ==
  IF "VIOLATION" \in Range(results) THEN "BLOCK"
  ELSE IF "ABSTAIN" \in Range(results) THEN "REVIEW" ELSE "ALLOW"

-----------------------------------------------------------------------------
(* What an ALLOW promises, said of the data and not of the checks *)

\* The amount that is ordered, and how the goods come to it.
ChargeIsCatalogPrice(s) ==
  /\ \A line \in Lines(s) : Owned(s, line) /\ line.price = Item(s, line).price
  /\ s.tx.total = CatalogTotal(s)
  /\ s.tx.total <= s.mandate.ceiling
  /\ s.mandate.currency = s.tx.orderCurrency /\ s.catalog.currency = s.tx.orderCurrency

GoodsAreMandated(s) ==
  /\ LineQuantity(s) <= s.mandate.maxQuantity
  /\ s.mandate.merchants # None => s.tx.merchant \in s.mandate.merchants
  /\ \A line \in Lines(s) :
       /\ s.mandate.skus # None => line.sku \in s.mandate.skus
       /\ s.mandate.families # None => Item(s, line).family \in s.mandate.families
       /\ Item(s, line).recurring \/ line.recurring => s.mandate.recurring

MandateIsLive(s) ==
  /\ s.now # None /\ s.now < s.mandate.expiresAt
  /\ s.consumed # None /\ s.mandate.nonce \notin s.consumed

NothingWasChanged(s) ==
  /\ s.catalog # None /\ s.committed # None
  /\ s.committed.catalog = s.catalog /\ s.committed.tx = s.tx /\ s.declared = s.tx

WithinMandate(s) ==
  /\ NothingWasChanged(s) /\ MandateIsLive(s) /\ ChargeIsCatalogPrice(s) /\ GoodsAreMandated(s)

\* The scenario with some of its evidence withheld.
Withheld(s) ==
  {[s EXCEPT !.catalog = None], [s EXCEPT !.committed = None],
   [s EXCEPT !.now = None], [s EXCEPT !.consumed = None]}
  \union (IF s.committed = None THEN {}
          ELSE {[s EXCEPT !.committed.tx = None], [s EXCEPT !.committed.catalog = None]})
=============================================================================
