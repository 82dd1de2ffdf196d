---------------------------- MODULE EvidenceRegistry ----------------------------
(***************************************************************************)
(* The trusted evidence sources of recovery/registry.py: what makes a      *)
(* registry constructible, which sources a gap leads to, and what an       *)
(* acquisition makes of the bundle that a provider delivers.               *)
(*                                                                         *)
(* A source and its manifest are one record here, as their ids go together.*)
(* A hash of an entry is the entry: its id, the sku it is bound to, or     *)
(* Global, and its content.  The times of a window are numbers, Forever    *)
(* for None.  Claims are a function from the namespaces that a record      *)
(* declares to values: one claim per namespace.                            *)
(***************************************************************************)
EXTENDS Integers, FiniteSets

CONSTANTS
  Global,         \* MERCHANT_GLOBAL, and the sku of its entries
  Kinds,          \* EvidenceKind
  RequiredKinds,  \* those of REQUIRED_CLAIM_NAMESPACES, each naming its namespace
  Unestablished,  \* CLAIM_VALUE_UNESTABLISHED
  Nothing,        \* supersedes nothing
  Raised          \* the provider fails, or delivers no valid bundle

-----------------------------------------------------------------------------
(* TrustedEvidenceRecord, TrustedEvidenceManifest *)

InForce(window, t) == window.from <= t /\ t < window.until

Ids(entries) == {e.id : e \in entries}
RecordIds(s) == {r.entry.id : r \in s.records}

\* Sources of one identity are aliases.
Identity(s) == <<s.merchant, s.scope, s.kinds, s.records>>

-----------------------------------------------------------------------------
(* The constructor *)

\* TrustedEvidenceRecord and TrustedEvidenceManifest refuse to be anything else.
ValidManifest(s) ==
  /\ s.from < s.until
  /\ s.records # {}
  /\ \A q, r \in s.records : q.entry.id = r.entry.id => q = r
  /\ \A r \in s.records : r.from < r.until /\ r.supersedes # r.entry.id

SameScope(s, o) == s.merchant = o.merchant /\ s.scope = o.scope

Overlapping(s, o) == ~(s.until <= o.from) /\ ~(o.until <= s.from)

\* _validate_manifest_supersession: no set of manifests supersedes itself.
ValidSupersession(registry) ==
  /\ \A s \in registry :
       s.supersedes # Nothing =>
         \E o \in registry : o.id = s.supersedes /\ SameScope(s, o) /\ s.from >= o.from
  /\ \A circle \in (SUBSET registry) \ {{}} :
       \E s \in circle : s.supersedes \notin Ids(circle)

\* _validate_scope_partition
ValidPartition(registry) ==
  \A s, o \in registry :
    \/ s = o \/ ~SameScope(s, o)
    \/ Identity(s) = Identity(o)
    \/ ~Overlapping(s, o)
    \/ s.supersedes = o.id \/ o.supersedes = s.id

Constructible(registry) ==
  /\ \A s \in registry : ValidManifest(s)
  /\ \A s, o \in registry : s.id = o.id => s = o
  /\ ValidSupersession(registry)
  /\ ValidPartition(registry)

-----------------------------------------------------------------------------
(* What applies at a time *)

\* Faulty: a manifest is replaced only as long as its replacement is in force.
RetiredWhileReplaced(registry, t) == {s.supersedes : s \in {x \in registry : InForce(x, t)}}

\* _retired_manifest_ids: from the replacement's effective time, for good.
Retired(registry, t) == {s.supersedes : s \in {x \in registry : x.from <= t}}

\* _active_sources
Active(sources, registry, t) ==
  {s \in sources : InForce(s, t) /\ s.id \notin Retired(registry, t)}

\* Aliases count once.
Distinct(sources) ==
  {s \in sources : \A o \in sources : Identity(o) = Identity(s) => s.id <= o.id}

Declared(sources) == UNION {{[source |-> s, record |-> r] : r \in s.records} : s \in sources}

\* _applicable_records: a record that a record of these sources replaces, even one
\* that has expired since, does not apply.
Applicable(sources, t) ==
  LET replaced == {d.record.supersedes : d \in {x \in Declared(sources) : x.record.from <= t}}
  IN {d \in Declared(sources) : InForce(d.record, t) /\ d.record.entry.id \notin replaced}

\* candidates: every active source that governs this sku and kind.
Candidates(registry, merchant, sku, kind, t) ==
  Distinct(Active({s \in registry : s.merchant = merchant /\ kind \in s.kinds
                                    /\ s.scope \in {Global, sku}}, registry, t))

-----------------------------------------------------------------------------
(* Authority: _claim_metadata_conflicts *)

Governing(s, o) ==
  s.merchant = o.merchant /\ (Global \in {s.scope, o.scope} \/ s.scope = o.scope)

\* Non-conflict cannot be proven of a claim that one of them does not make.
Unproven(d, e) ==
  \E k \in d.source.kinds \intersect e.source.kinds \intersect RequiredKinds :
    k \notin DOMAIN d.record.claims \intersect DOMAIN e.record.claims

Contradictory(d, e) ==
  \E k \in DOMAIN d.record.claims \intersect DOMAIN e.record.claims :
    /\ Unestablished \notin {d.record.claims[k], e.record.claims[k]}
    /\ d.record.claims[k] # e.record.claims[k]

Conflicting(applicable) ==
  \E d, e \in applicable :
    d # e /\ Governing(d.source, e.source) /\ (Unproven(d, e) \/ Contradictory(d, e))

\* CONFLICT_DUPLICATE_ID_HASH
Ambiguous(applicable) ==
  \E d, e \in applicable :
    d.record.entry.id = e.record.entry.id /\ d.record.entry # e.record.entry

-----------------------------------------------------------------------------
(* acquire *)

\* What is wrong with a source, whatever its provider delivers.
Standing(s, registry, merchant, skus, t) ==
  IF s.merchant # merchant \/ s.scope \notin skus \union {Global} THEN "WRONG_BINDING"
  ELSE IF s.id \in Retired(registry, t) THEN "SOURCE_SUPERSEDED"
  ELSE IF t < s.from THEN "SOURCE_NOT_EFFECTIVE"
  ELSE IF t >= s.until THEN "SOURCE_EXPIRED"
  ELSE "VALID"

\* _scope_entries
Scoped(s, delivery) == {e \in delivery : e.sku = s.scope}

\* What a delivery is to a source: all of its records, as its manifest has them, and
\* nothing else in its scope.
Verified(s, delivery) ==
  IF \E e \in delivery \ Scoped(s, delivery) : e.id \in RecordIds(s) THEN "WRONG_BINDING"
  ELSE IF Ids(Scoped(s, delivery)) # RecordIds(s) THEN "SOURCE_INCOMPLETE"
  ELSE IF Scoped(s, delivery) # {r.entry : r \in s.records} THEN "TAMPERED"
  ELSE "ACQUIRED"

Item(id, status) == [id |-> id, status |-> status]

\* AcquisitionBatch: the ids that apply, and the entries that were verified.
Batch(items, expected, entries, conflict, calls) ==
  [items |-> items, expected |-> expected, entries |-> entries, conflict |-> conflict,
   calls |-> calls]

IsComplete(b) ==
  /\ b.items # {} /\ \A i \in b.items : i.status = "ACQUIRED"
  /\ ~b.conflict
  /\ Ids(b.entries) = b.expected

\* Faulty: the last item fits twice.
ExceedsByOne(expected, held, limit) == Cardinality(expected \ Ids(held)) > limit + 1

Exceeds(expected, held, limit) == Cardinality(expected \ Ids(held)) > limit

\* These source ids, for these skus of the merchant, beside the entries held, with at
\* most limit new ones.  When none of their records applies, SOURCE_EXPIRED stands for
\* SOURCE_NOT_EFFECTIVE too.
Acquire(registry, ids, merchant, skus, held, limit, t, delivery) ==
  LET requested == {s \in registry : s.id \in ids}
      standing(s) == Standing(s, registry, merchant, skus, t)
      selected == Distinct({s \in requested : standing(s) = "VALID"})
      applicable == Applicable(selected, t)
      expected == {d.record.entry.id : d \in applicable}
      invalid == {Item(id, "NO_RECORD") : id \in ids \ Ids(requested)}
                 \union {Item(s.id, standing(s)) : s \in {x \in requested : standing(x) # "VALID"}}
      early(status, calls) ==
        Batch(invalid \union {Item(s.id, status) : s \in selected}, expected, {}, FALSE, calls)
      verified == {s \in selected : Verified(s, delivery) = "ACQUIRED"}
      conflict == Conflicting(applicable)
  IN IF selected # {} /\ expected = {} THEN early("SOURCE_EXPIRED", 0)
     ELSE IF Ambiguous(applicable)
     THEN [early("CONFLICT", 0) EXCEPT !.conflict = TRUE,
                                       !.items = {Item(i.id, "CONFLICT") : i \in @}]
     ELSE IF Exceeds(expected, held, limit) THEN early("BUDGET_INSUFFICIENT", 0)
     ELSE IF selected = {} THEN early("NO_RECORD", 0)
     ELSE IF delivery = Raised THEN early("SOURCE_UNAVAILABLE", 1)
     ELSE Batch(invalid \union
                  {Item(s.id, IF conflict /\ s \in verified THEN "CONFLICT"
                              ELSE Verified(s, delivery)) : s \in selected},
                expected,
                IF conflict THEN {}
                ELSE UNION {{e \in Scoped(s, delivery) :
                               \E d \in applicable : d.source = s /\ d.record.entry.id = e.id} :
                              s \in verified},
                conflict, 1)
=============================================================================
