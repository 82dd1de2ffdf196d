-------------------------- MODULE RecoveryAcquisition --------------------------
(***************************************************************************)
(* Recovery of a REVIEW with the registry of its trusted sources: the      *)
(* rounds of ReviewRecovery, in which a gap leads to sources, and an       *)
(* acquisition is what EvidenceRegistry makes of a provider's bundle.      *)
(* Every step is one of ReviewRecovery, or of the clock: what that module  *)
(* chooses freely is computed here.                                        *)
(*                                                                         *)
(* Sources are chosen when the gaps are analysed, and asked in a later     *)
(* request: in between they expire, take effect or are replaced.  A        *)
(* request reads the clock once, before anything else, and all it does is  *)
(* as of then.                                                             *)
(***************************************************************************)
EXTENDS ReviewRecovery, EvidenceRegistry

CONSTANTS
  Registries,       \* sets of sources
  Deliveries(_),    \* the bundles that the provider may deliver, by registry
  Merchant, Skus,   \* of the purchase under review
  MaxTime           \* bound: the clock

\* The ids of sources are ordered, and so are times; Evidence has every entry that a
\* manifest declares.
ASSUME AcquisitionAssumption ==
  /\ \A registry \in Registries :
       /\ Constructible(registry)
       /\ \A s \in registry : s.id \in Nat /\ {s.from, s.until} \subseteq Int
       /\ \A d \in Declared(registry) : d.record.entry \in Evidence
  /\ MaxTime \in Nat

VARIABLES
  sources,    \* TrustedEvidenceSourceRegistry._sources
  chosen,     \* candidate_evidence_ids of the gaps of each review
  startedAt,  \* recovery_time of the last request about each review
  clock

evidence == <<sources, chosen, startedAt, clock>>

-----------------------------------------------------------------------------
(* detect_evidence_gaps *)

CandidatesFor(gap, time) == Candidates(sources, Merchant, gap[2], gap[1], time)

\* Constraints of these kinds abstained.  Held evidence that is known to be complete
\* closes the gaps whose candidates have nothing more.
Gaps(kinds, held, heldIsComplete, time) ==
  {gap \in kinds \X Skus :
     ~ /\ heldIsComplete
       /\ CandidatesFor(gap, time) # {}
       /\ \A s \in CandidatesFor(gap, time) : RecordIds(s) \subseteq Ids(held)}

Status(gaps, time) ==
  CASE gaps = {} -> "NONE"
    [] \E gap \in gaps : CandidatesFor(gap, time) = {} -> "INCOMPLETE_COVERAGE"
    [] OTHER -> "RECOVERABLE"

\* _selected_sources
Chosen(gaps, time) == UNION {Ids(CandidatesFor(gap, time)) : gap \in gaps}

-----------------------------------------------------------------------------
\* recover: the clock is read, and a round reserved.
BeginRound(r) ==
  /\ ReserveRound(r)
  /\ startedAt' = [startedAt EXCEPT ![r] = clock]
  /\ UNCHANGED <<sources, chosen, clock>>

(* complete_recovery_round, from the acquisition on *)

BatchFor(r, delivery) ==
  Acquire(sources, chosen[r], Merchant, Skus, review[r].held, MaxItems - review[r].items,
          startedAt[r], delivery)

Incomplete(r, b) ==
  /\ ~IsComplete(b)
  /\ AcquireIncomplete(r)
  /\ fetched'[r] = fetched[r] + b.calls
  /\ UNCHANGED chosen

Uncovered(r, b) ==
  /\ IsComplete(b) /\ ~Covers(r, b.entries)
  /\ AcquireUncovered(r)
  /\ UNCHANGED chosen

AuthorizationFails(r, b) ==
  /\ IsComplete(b) /\ Covers(r, b.entries)
  /\ AuthorizationRaises(r)
  /\ next'[r].held = b.entries
  /\ UNCHANGED chosen

\* The gaps of a REVIEW that remains are analysed anew.
Reauthorized(r, b) ==
  /\ IsComplete(b) /\ Covers(r, b.entries)
  /\ Reauthorize(r)
  /\ next'[r].held = b.entries
  /\ \E kinds \in SUBSET Kinds :
       LET time == startedAt[r]
           gaps == IF next'[r].action = "REVIEW" THEN Gaps(kinds, b.entries, TRUE, time) ELSE {}
       IN /\ next'[r].gap = Status(gaps, time)
          /\ chosen' = [chosen EXCEPT ![r] = Chosen(gaps, time)]

Acquisition(r) ==
  /\ pc[r] = "acquire"
  /\ \E delivery \in Deliveries(sources) \union {Raised} :
       LET b == BatchFor(r, delivery) IN
         Incomplete(r, b) \/ Uncovered(r, b) \/ AuthorizationFails(r, b) \/ Reauthorized(r, b)
  /\ UNCHANGED <<sources, startedAt, clock>>

Tick ==
  /\ clock < MaxTime
  /\ clock' = clock + 1
  /\ UNCHANGED <<vars, sources, chosen, startedAt>>

-----------------------------------------------------------------------------
RecoveryInit ==
  /\ Init
  /\ clock = 0
  /\ startedAt = [r \in Reviews |-> clock]
  /\ sources \in Registries
  /\ \E kinds \in [Reviews -> SUBSET Kinds] :
       /\ \A r \in Reviews : review[r].gap = Status(Gaps(kinds[r], initial[r], FALSE, clock), clock)
       /\ chosen = [r \in Reviews |-> Chosen(Gaps(kinds[r], initial[r], FALSE, clock), clock)]

Otherwise(r) ==
  \/ Persist(r) \/ AppendFaults(r) \/ AppendBlocked(r) \/ Rollback(r)
  \/ StopAtPreflight(r) \/ AcquisitionRaises(r)
  \/ Issue(r) \/ IssueFails(r) \/ Execute(r) \/ ExecuteRaises(r)

RecoveryNext ==
  \/ \E r \in Reviews : BeginRound(r) \/ Acquisition(r)
  \/ (\E r \in Reviews : Otherwise(r)) /\ UNCHANGED evidence
  \/ Crash /\ UNCHANGED evidence
  \/ Tick

RecoverySpec == RecoveryInit /\ [][RecoveryNext]_<<vars, evidence>>

-----------------------------------------------------------------------------
(* Properties *)

\* A source of the registry that governs the purchase, is in force and was replaced
\* by no source that ever took effect.
Authority(s, time) ==
  /\ s.merchant = Merchant /\ s.scope \in Skus \union {Global}
  /\ InForce(s, time)
  /\ ~ \E o \in sources : o.supersedes = s.id /\ o.from <= time

Asked(r) == {s \in sources : s.id \in chosen[r] /\ Authority(s, startedAt[r])}

\* Records in force of such sources, of those that review r is about to ask.
Vouching(r) == {d \in Declared(Asked(r)) : InForce(d.record, startedAt[r])}

\* Entries that a record of these sources replaced, at any time until the request.
Replaced(r) ==
  {d.record.supersedes : d \in {x \in Declared(Asked(r)) : x.record.from <= startedAt[r]}}

\* Whatever the provider delivers to a request at any time after the gaps were analysed:
\* what is complete, and will be decided upon, has entries that a source which still was
\* an authority when the request began vouches for word by word; no two of them
\* contradict each other; and nothing that the sources asked for still hold is left out.
AcquiredIsAuthoritative ==
  \A r \in Reviews :
    pc[r] = "acquire" =>
      LET vouching == Vouching(r)
          answers == {BatchFor(r, delivery) : delivery \in Deliveries(sources)}
      IN \A b \in answers : IsComplete(b) =>
           /\ b.entries \subseteq {d.record.entry : d \in vouching}
           /\ \A d, e \in {v \in vouching : v.record.entry \in b.entries} :
                Contradictory(d, e) => Cardinality({d.source.scope, e.source.scope} \ {Global}) = 2
           /\ \A d \in vouching :
                d.record.entry \in b.entries \/ d.record.entry.id \in Replaced(r)

\* The registry keeps what the round relies on, whatever is delivered: one call to the
\* provider at most, and a complete batch was asked for, has one entry of each id, and
\* its new ones fit into the budget that the rounds before have left.
AcquisitionFits ==
  \A r \in Reviews :
    pc[r] = "acquire" =>
      \A b \in {BatchFor(r, delivery) : delivery \in Deliveries(sources) \union {Raised}} :
        /\ b.calls \in {0, 1}
        /\ IsComplete(b) => b.calls = 1 /\ b.entries \in CompleteBatches(review[r])

=============================================================================
