--------------------------- MODULE ReviewRecovery ---------------------------
(***************************************************************************)
(* Recovery of a REVIEW: CommerceLabService.recover over the rounds of     *)
(* recovery/orchestration.py, and the append-only provenance store of      *)
(* recovery/audit_store.py that the reviews of one process share.          *)
(*                                                                         *)
(* recovery_in_flight admits one request per review, so the thread of a    *)
(* request is named by its review: it is in flight unless pc is "idle".    *)
(* Requests that are refused at entry, or by reserve_recovery_round, raise *)
(* and leave everything alone: they are no actions.                        *)
(*                                                                         *)
(* The store's lock covers one append from BEGIN to COMMIT and one         *)
(* ROLLBACK, but is released between a failure and its ROLLBACK.  Until    *)
(* then the connection is inside the failed transaction, and the BEGIN of  *)
(* any other review fails.                                                 *)
(*                                                                         *)
(* An element of Evidence is an entry, with an id and a content: a later   *)
(* round may bring another content for an id.  Manifests, their windows    *)
(* and their supersession are the choice of the set of entries that        *)
(* applies at the time of a round.  The mandate registry, the ledger and   *)
(* the provider behind register, issue and execute are the choice of what  *)
(* comes back.  evidence_provider_calls, which only reports, is left out   *)
(* for the calls themselves.                                               *)
(***************************************************************************)
EXTENDS Integers, Sequences, FiniteSets

CONSTANTS
  Reviews,      \* the runs of one process that ended in REVIEW
  Evidence,     \* evidence entries, records with an id
  InitialSets,  \* the sets of entries that a first evaluation may have had
  MaxRounds,    \* MAX_ACQUISITION_ROUNDS
  MaxItems,     \* MAX_NEW_EVIDENCE_ITEMS
  MaxFaults     \* bound: storage faults of the provenance store

ASSUME RecoveryAssumption ==
  /\ IsFiniteSet(Evidence)
  /\ InitialSets \subseteq SUBSET Evidence
  /\ MaxRounds \in Nat /\ MaxItems \in Nat /\ MaxFaults \in Nat

VARIABLES
  review,       \* context.recovery_state
  initial,      \* initial_evidence_entries of each review
  available,    \* recovery_audit_state is AVAILABLE
  pc,           \* where the request about each review is
  next,         \* its local state, what it appends and then installs; or else the review
  issued,       \* a capability was issued for the recovered ALLOW
  fetched,      \* history: calls of the trusted evidence provider
  paid,         \* history: calls of the payment provider
  stored,       \* recovery_audit_events, by review
  open,         \* the connection is inside a transaction that failed
  faults

store == <<stored, open, faults>>
authority == <<issued, fetched, paid>>
vars == <<review, initial, available, pc, next, authority, store>>

-----------------------------------------------------------------------------
DecisionAction == {"ALLOW", "BLOCK", "REVIEW"}
GapStatus == {"RECOVERABLE", "INCOMPLETE_COVERAGE", "NONE"}

EventType ==
  [event : {"INITIAL_REVIEW", "GAP_IDENTIFIED", "ROUND_RESERVED", "SOURCE_SELECTED",
            "ACQUISITION_RESULT", "REAUTHORIZATION", "REVIEW_RESOLVED",
            "RECOVERY_FAILED", "EXECUTION_LINKED"},
   round : Nat,
   decision : DecisionAction]

\* rounds_used, round_in_flight (0 for None), new_evidence_items, and the ids of
\* current_evidence, beside the decision and the gap analysis.
ReviewType ==
  [action : DecisionAction, gap : GapStatus, rounds : Nat, inFlight : Nat,
   items : Nat, held : SUBSET Evidence, events : Seq(EventType)]

Appending == {"reserved", "completed", "linked"}
Pcs == {"idle", "acquire", "resolved", "issued", "rollback", "gone"} \union Appending

\* _append_event: the events carry the round and the decision of their review.
Append2(s, first, second) ==
  [s EXCEPT !.events =
     @ \o << [event |-> first, round |-> s.rounds, decision |-> s.action],
             [event |-> second, round |-> s.rounds, decision |-> s.action] >>]

Append1(s, name) ==
  [s EXCEPT !.events =
     Append(@, [event |-> name, round |-> s.rounds, decision |-> s.action])]

Go(r, step) == pc' = [pc EXCEPT ![r] = step]

\* The append failed, and an exception goes up.
Fail(r) == next' = [next EXCEPT ![r] = review[r]] /\ Go(r, "rollback")

\* The request goes on to append what s has more than the review so far.
Propose(r, s, step) == next' = [next EXCEPT ![r] = s] /\ Go(r, step)

-----------------------------------------------------------------------------
(* Entry, and reserve_recovery_round: the round is spent before its append  *)

\* Faulty: that the review was resolved is not looked at.
MayReserveAgain(s) ==
  /\ s.inFlight = 0
  /\ s.rounds < MaxRounds
  /\ s.items < MaxItems
  /\ s.gap = "RECOVERABLE"

MayReserve(s) ==
  /\ s.action = "REVIEW"
  /\ s.inFlight = 0
  /\ s.rounds < MaxRounds
  /\ s.items < MaxItems
  /\ s.gap = "RECOVERABLE"

Reserved(s) == [s EXCEPT !.rounds = @ + 1, !.inFlight = s.rounds + 1]

ReserveRound(r) ==
  LET s == review[r]
      reserved == Append2(Reserved(s), "ROUND_RESERVED", "SOURCE_SELECTED")
  IN /\ pc[r] = "idle"
     /\ available[r]
     /\ MayReserve(s)
     /\ review' = [review EXCEPT ![r] = reserved]
     /\ Propose(r, reserved, "reserved")
     /\ UNCHANGED <<initial, available, authority, store>>

-----------------------------------------------------------------------------
(* SQLiteRecoveryAuditStore.append, and what recover does on its success    *)

\* What is appended begins behind the stored head, or else it does not link.
Persist(r) ==
  LET n == Len(stored[r]) IN
  /\ pc[r] \in Appending
  /\ ~open
  /\ stored[r] = SubSeq(next[r].events, 1, n)
  /\ stored' = [stored EXCEPT ![r] = next[r].events]
  /\ review' = [review EXCEPT ![r] = next[r]]
  /\ Go(r, CASE pc[r] = "reserved" -> "acquire"
             [] pc[r] = "completed" /\ next[r].action = "ALLOW" -> "resolved"
             [] OTHER -> "idle")
  /\ UNCHANGED <<initial, available, next, authority, open, faults>>

\* BEGIN IMMEDIATE fails, or a statement or COMMIT inside the transaction.
AppendFaults(r) ==
  /\ pc[r] \in Appending
  /\ ~open
  /\ faults < MaxFaults
  /\ faults' = faults + 1
  /\ open' \in BOOLEAN
  /\ Fail(r)
  /\ UNCHANGED <<review, initial, available, authority, stored>>

\* "cannot start a transaction within a transaction"
AppendBlocked(r) ==
  /\ pc[r] \in Appending
  /\ open
  /\ Fail(r)
  /\ UNCHANGED <<review, initial, available, authority, store>>

\* Faulty: the error is raised without ending the transaction.
LeaveTransaction(r) ==
  /\ pc[r] = "rollback"
  /\ available' = [available EXCEPT ![r] = FALSE]
  /\ Go(r, "idle")
  /\ UNCHANGED <<review, initial, next, authority, store>>

\* Faulty: the failed append leaves the review available.
RollbackUnmarked(r) ==
  /\ pc[r] = "rollback"
  /\ open' = FALSE
  /\ Go(r, "idle")
  /\ UNCHANGED <<review, initial, available, next, authority, stored, faults>>

\* Whose transaction it is does not matter, nor whether there still is one.  Then
\* _append_recovery_audit marks the review and raises.
Rollback(r) ==
  /\ pc[r] = "rollback"
  /\ open' = FALSE
  /\ available' = [available EXCEPT ![r] = FALSE]
  /\ Go(r, "idle")
  /\ UNCHANGED <<review, initial, next, authority, stored, faults>>

-----------------------------------------------------------------------------
(* complete_recovery_round *)

Complete(r, s) == Propose(r, [s EXCEPT !.inFlight = 0], "completed")

Decided(s, a) ==
  IF a = "REVIEW"
  THEN Append1([s EXCEPT !.action = a], "REAUTHORIZATION")
  ELSE Append2([s EXCEPT !.action = a], "REAUTHORIZATION", "REVIEW_RESOLVED")

\* The fresh scenario does not pass Tier A and B: no evidence is asked for.
StopAtPreflight(r) ==
  /\ pc[r] = "acquire"
  /\ \E a \in DecisionAction \ {"ALLOW"} : Complete(r, Decided(review[r], a))
  /\ UNCHANGED <<review, initial, available, authority, store>>

\* registry.acquire raises, with or without having called the provider.
AcquisitionRaises(r) ==
  /\ pc[r] = "acquire"
  /\ \E n \in {0, 1} : fetched' = [fetched EXCEPT ![r] = @ + n]
  /\ Complete(r, Append1(review[r], "RECOVERY_FAILED"))
  /\ UNCHANGED <<review, initial, available, issued, paid, store>>

\* A batch that is not complete: no source applies, authorities conflict or the
\* budget is too small, all before the provider is called; or what it returns is
\* missing, misbound, tampered with, partial or in conflict.
AcquireIncomplete(r) ==
  /\ pc[r] = "acquire"
  /\ \E n \in {0, 1} : fetched' = [fetched EXCEPT ![r] = @ + n]
  /\ Complete(r, Append1(review[r], "ACQUISITION_RESULT"))
  /\ UNCHANGED <<review, initial, available, issued, paid, store>>

\* An entry is new when none with its id is held.
NewIds(batch, held) == {e.id : e \in batch} \ {e.id : e \in held}

\* What a complete batch may hold: all that applies, one entry of each id, when the new
\* ones fit into the budget that is left.
CompleteBatches(s) ==
  {batch \in (SUBSET Evidence) \ {{}} :
     /\ \A d, e \in batch : d.id = e.id => d = e
     /\ Cardinality(NewIds(batch, s.held)) <= MaxItems - s.items}

Covers(r, batch) == initial[r] \subseteq batch

AcquireUncovered(r) ==
  /\ pc[r] = "acquire"
  /\ \E batch \in CompleteBatches(review[r]) : ~Covers(r, batch)
  /\ fetched' = [fetched EXCEPT ![r] = @ + 1]
  /\ Complete(r, Append2(review[r], "ACQUISITION_RESULT", "RECOVERY_FAILED"))
  /\ UNCHANGED <<review, initial, available, issued, paid, store>>

\* Faulty: the items of the rounds before are forgotten.
HoldAnew(s, batch) == [s EXCEPT !.held = batch, !.items = Cardinality(NewIds(batch, s.held))]

Hold(s, batch) ==
  [s EXCEPT !.held = batch, !.items = @ + Cardinality(NewIds(batch, s.held))]

\* authorize_transaction raises: the evidence is kept, the gaps are not looked at.
AuthorizationRaises(r) ==
  /\ pc[r] = "acquire"
  /\ fetched' = [fetched EXCEPT ![r] = @ + 1]
  /\ \E batch \in CompleteBatches(review[r]) :
       /\ Covers(r, batch)
       /\ Complete(r, Append2(Hold(review[r], batch), "ACQUISITION_RESULT", "RECOVERY_FAILED"))
  /\ UNCHANGED <<review, initial, available, issued, paid, store>>

Reauthorize(r) ==
  /\ pc[r] = "acquire"
  /\ fetched' = [fetched EXCEPT ![r] = @ + 1]
  /\ \E batch \in CompleteBatches(review[r]), a \in DecisionAction, g \in GapStatus :
       /\ Covers(r, batch)
       /\ a # "REVIEW" => g = "NONE"
       /\ Complete(r, [Decided(Append1(Hold(review[r], batch), "ACQUISITION_RESULT"), a)
                         EXCEPT !.gap = g])
  /\ UNCHANGED <<review, initial, available, issued, paid, store>>

-----------------------------------------------------------------------------
(* After a recovered ALLOW *)

\* Faulty: the capability is issued before the round's provenance is appended.
IssueEarly(r) ==
  /\ pc[r] \in {"completed", "resolved"}
  /\ next[r].action = "ALLOW"
  /\ ~issued[r]
  /\ issued' = [issued EXCEPT ![r] = TRUE]
  /\ Go(r, IF pc[r] = "resolved" THEN "issued" ELSE pc[r])
  /\ UNCHANGED <<review, initial, available, next, fetched, paid, store>>

\* register_active and issue_execution_authorization
Issue(r) ==
  /\ pc[r] = "resolved"
  /\ issued' = [issued EXCEPT ![r] = TRUE]
  /\ Go(r, "issued")
  /\ UNCHANGED <<review, initial, available, next, fetched, paid, store>>

\* The registry is busy or refuses, or the issuer does.  The review is resolved
\* all the same: no later request gets here again.
IssueFails(r) ==
  /\ pc[r] = "resolved"
  /\ Go(r, "idle")
  /\ UNCHANGED <<review, initial, available, next, authority, store>>

\* execute_razorpay_order returns a receipt or a refusal, or is deferred; then
\* link_execution_outcome.
Execute(r) ==
  /\ pc[r] = "issued"
  /\ \E n \in {0, 1} : paid' = [paid EXCEPT ![r] = @ + n]
  /\ Propose(r, Append1(review[r], "EXECUTION_LINKED"), "linked")
  /\ UNCHANGED <<review, initial, available, issued, fetched, store>>

\* It raises: the guard was busy, or the provider's outcome is none or unknown.
ExecuteRaises(r) ==
  /\ pc[r] = "issued"
  /\ \E n \in {0, 1} : paid' = [paid EXCEPT ![r] = @ + n]
  /\ Go(r, "idle")
  /\ UNCHANGED <<review, initial, available, next, issued, fetched, store>>

\* The process dies.  The reviews were in its memory, their provenance was not.
Crash ==
  /\ \E r \in Reviews : pc[r] # "gone"
  /\ pc' = [r \in Reviews |-> "gone"]
  /\ next' = review
  /\ open' = FALSE
  /\ UNCHANGED <<review, initial, available, authority, stored, faults>>

-----------------------------------------------------------------------------
\* create_review_recovery, its two events appended
NewReview(held, gap) ==
  Append2([action |-> "REVIEW", gap |-> gap, rounds |-> 0, inFlight |-> 0,
           items |-> 0, held |-> held, events |-> << >>],
          "INITIAL_REVIEW", "GAP_IDENTIFIED")

Init ==
  /\ initial \in [Reviews -> InitialSets]
  /\ \E gap \in [Reviews -> GapStatus] :
       review = [r \in Reviews |-> NewReview(initial[r], gap[r])]
  /\ available = [r \in Reviews |-> TRUE]
  /\ pc = [r \in Reviews |-> "idle"]
  /\ next = review
  /\ issued = [r \in Reviews |-> FALSE]
  /\ fetched = [r \in Reviews |-> 0]
  /\ paid = [r \in Reviews |-> 0]
  /\ stored = [r \in Reviews |-> review[r].events]
  /\ open = FALSE
  /\ faults = 0

Proceed(r) ==
  \/ Persist(r) \/ AppendBlocked(r) \/ Rollback(r)
  \/ StopAtPreflight(r) \/ AcquisitionRaises(r) \/ AcquireIncomplete(r)
  \/ AcquireUncovered(r) \/ AuthorizationRaises(r) \/ Reauthorize(r)
  \/ Issue(r) \/ IssueFails(r) \/ Execute(r) \/ ExecuteRaises(r)

Next ==
  \/ \E r \in Reviews : ReserveRound(r) \/ Proceed(r) \/ AppendFaults(r)
  \/ Crash

Spec == Init /\ [][Next]_vars

\* A request's thread keeps running; every call it makes returns or raises.
FairSpec == Spec /\ \A r \in Reviews : WF_vars(Proceed(r))

-----------------------------------------------------------------------------
(* Properties *)

Logged(r, name) == {i \in DOMAIN stored[r] : stored[r][i].event = name}

\* The fields of a review, of a request's local state and of the store keep their
\* types; a reserved round is the last one used.
TypeOK ==
  /\ review \in [Reviews -> ReviewType] /\ next \in [Reviews -> ReviewType]
  /\ \A r \in Reviews : /\ review[r].inFlight \in {0, review[r].rounds}
                        /\ next[r].inFlight \in {0, next[r].rounds}
  /\ initial \in [Reviews -> SUBSET Evidence]
  /\ available \in [Reviews -> BOOLEAN]
  /\ pc \in [Reviews -> Pcs]
  /\ issued \in [Reviews -> BOOLEAN]
  /\ fetched \in [Reviews -> Nat] /\ paid \in [Reviews -> Nat]
  /\ stored \in [Reviews -> Seq(EventType)]
  /\ open \in BOOLEAN
  /\ faults \in 0..MaxFaults

\* Evidence is asked for only in rounds whose reservation is in the store, and a
\* capability exists only if the ALLOW it rests on is, on evidence that contains all
\* that the review was first judged by: also after a crash, and whatever the store
\* fails to do.
ProvenanceComesFirst ==
  \A r \in Reviews :
    /\ fetched[r] <= Cardinality(Logged(r, "ROUND_RESERVED"))
    /\ issued[r] =>
         /\ \E i \in Logged(r, "REVIEW_RESOLVED") : stored[r][i].decision = "ALLOW"
         /\ initial[r] \subseteq review[r].held

\* The budgets are never exceeded over all the rounds of a review, failed ones
\* included, and nothing new is held that was not counted.
BudgetsHold ==
  \A r \in Reviews :
    /\ fetched[r] <= review[r].rounds /\ review[r].rounds <= MaxRounds
    /\ review[r].items <= MaxItems
    /\ Cardinality(review[r].held \ initial[r]) <= review[r].items

\* Between requests, the store of a review that is available tells its whole
\* story: no round or decision is in memory alone, and no round is in flight.
StoreExplainsReview ==
  \A r \in Reviews :
    pc[r] = "idle" /\ available[r] =>
      stored[r] = review[r].events /\ review[r].inFlight = 0

\* A review is resolved once: its decision and the evidence it rests on stand, whatever
\* is tried and fails afterwards, and no second capability is issued on it.
ResolvedOnce ==
  [][\A r \in Reviews :
       /\ review[r].action # "REVIEW" =>
            review'[r].action = review[r].action /\ review'[r].held = review[r].held
       /\ Issue(r) => ~issued[r]]_vars

\* A request about a review comes to its end, and no failure leaves the store's
\* connection inside a transaction for good.
RecoveryEnds ==
  /\ \A r \in Reviews : pc[r] \notin {"idle", "gone"} ~> pc[r] \in {"idle", "gone"}
  /\ open ~> ~open

\* MANDATEGUARD_RESOLVE.md: a reviewer can follow a REVIEW to its capability and
\* execution from persistent stores.  At the end of a request that called the
\* payment provider, the store links the review to the execution.
ExecutionIsLinked ==
  \A r \in Reviews :
    pc[r] = "idle" /\ available[r] /\ paid[r] > 0 => Logged(r, "EXECUTION_LINKED") # {}
=============================================================================
