------------------------ MODULE ReviewRecoveryProofs ------------------------
(***************************************************************************)
(* Theorems about the recovery of reviews, for any number of reviews of a  *)
(* process, any evidence, budgets and number of storage faults.            *)
(*                                                                         *)
(* The argument is one invariant per review.  While its request is ahead   *)
(* of the store, by the events of a reservation or of a round's end, it is *)
(* still to pass the append that makes up for it; only behind that append  *)
(* does it call a provider or issue a capability.                          *)
(***************************************************************************)
EXTENDS RecoveryAcquisition, FiniteSetTheorems, WellFoundedInduction, TLAPS

EventNames ==
  {"INITIAL_REVIEW", "GAP_IDENTIFIED", "ROUND_RESERVED", "SOURCE_SELECTED",
   "ACQUISITION_RESULT", "REAUTHORIZATION", "REVIEW_RESOLVED",
   "RECOVERY_FAILED", "EXECUTION_LINKED"}

\* The positions of an event of that name.
At(s, name) == {i \in DOMAIN s : s[i].event = name}

\* Budgets and evidence are those of s.
Keeps(x, s) ==
  /\ x.gap = s.gap /\ x.rounds = s.rounds /\ x.inFlight = s.inFlight
  /\ x.items = s.items /\ x.held = s.held

\* The decision ALLOW is among the events.
TellsAllow(s) == \E i \in At(s, "REVIEW_RESOLVED") : s[i].decision = "ALLOW"

-----------------------------------------------------------------------------
(* What is appended to a review *)

LEMMA Append1Facts ==
  ASSUME NEW s \in ReviewType, NEW name \in EventNames
  PROVE  /\ Append1(s, name) \in ReviewType
         /\ Append1(s, name).events =
              s.events \o << [event |-> name, round |-> s.rounds, decision |-> s.action] >>
         /\ Append1(s, name).action = s.action /\ Keeps(Append1(s, name), s)
<1> DEFINE e == [event |-> name, round |-> s.rounds, decision |-> s.action]
<1>1. e \in EventType /\ s.events \in Seq(EventType)
  BY DEF ReviewType, EventType, EventNames
<1>2. Append1(s, name) = [s EXCEPT !.events = Append(s.events, e)]
  BY DEF Append1, ReviewType
<1> HIDE DEF e
<1>3. Append(s.events, e) \in Seq(EventType) /\ Append(s.events, e) = s.events \o <<e>>
  BY <1>1
<1>4. Append1(s, name) \in ReviewType
  BY <1>2, <1>3 DEF ReviewType
<1>5. Append1(s, name).events = s.events \o <<e>>
  BY <1>2, <1>3 DEF ReviewType
<1>6. Append1(s, name).action = s.action /\ Keeps(Append1(s, name), s)
  BY <1>2 DEF ReviewType, Keeps
<1> QED BY <1>4, <1>5, <1>6 DEF e

LEMMA Append2Facts ==
  ASSUME NEW s \in ReviewType, NEW first \in EventNames, NEW second \in EventNames
  PROVE  /\ Append2(s, first, second) \in ReviewType
         /\ Append2(s, first, second).events =
              s.events \o << [event |-> first, round |-> s.rounds, decision |-> s.action],
                             [event |-> second, round |-> s.rounds, decision |-> s.action] >>
         /\ Append2(s, first, second).action = s.action /\ Keeps(Append2(s, first, second), s)
<1> DEFINE e == [event |-> first, round |-> s.rounds, decision |-> s.action]
           f == [event |-> second, round |-> s.rounds, decision |-> s.action]
<1>1. e \in EventType /\ f \in EventType /\ s.events \in Seq(EventType)
  BY DEF ReviewType, EventType, EventNames
<1>2. Append2(s, first, second) = [s EXCEPT !.events = s.events \o <<e, f>>]
  BY DEF Append2, ReviewType
<1> HIDE DEF e, f
<1>3. s.events \o <<e, f>> \in Seq(EventType)
  BY <1>1
<1>4. Append2(s, first, second) \in ReviewType
  BY <1>2, <1>3 DEF ReviewType
<1>5. Append2(s, first, second).events = s.events \o <<e, f>>
  BY <1>2, <1>3 DEF ReviewType
<1>6. Append2(s, first, second).action = s.action /\ Keeps(Append2(s, first, second), s)
  BY <1>2 DEF ReviewType, Keeps
<1> QED BY <1>4, <1>5, <1>6 DEF e, f

LEMMA DecidedFacts ==
  ASSUME NEW s \in ReviewType, NEW a \in DecisionAction
  PROVE  /\ Decided(s, a) \in ReviewType
         /\ Decided(s, a).action = a
         /\ a = "ALLOW" => TellsAllow(Decided(s, a).events)
         /\ Keeps(Decided(s, a), s)
<1> DEFINE d == [s EXCEPT !.action = a]
<1>1. d \in ReviewType /\ d.action = a
      /\ Keeps(d, s)
  BY DEF ReviewType, Keeps
<1>2. Decided(s, a) = IF a = "REVIEW" THEN Append1(d, "REAUTHORIZATION")
                      ELSE Append2(d, "REAUTHORIZATION", "REVIEW_RESOLVED")
  BY DEF Decided
<1> HIDE DEF d
<1>3. CASE a = "REVIEW"
  <2>1. "REAUTHORIZATION" \in EventNames
    BY DEF EventNames
  <2>2. /\ Append1(d, "REAUTHORIZATION") \in ReviewType
        /\ Append1(d, "REAUTHORIZATION").action = d.action
        /\ Keeps(Append1(d, "REAUTHORIZATION"), d)
    BY <1>1, <2>1, Append1Facts
  <2> QED BY <1>1, <1>2, <1>3, <2>2 DEF Keeps
<1>4. CASE a # "REVIEW"
  <2> DEFINE e == [event |-> "REAUTHORIZATION", round |-> d.rounds, decision |-> d.action]
             f == [event |-> "REVIEW_RESOLVED", round |-> d.rounds, decision |-> d.action]
  <2>1. /\ Decided(s, a) \in ReviewType
        /\ Decided(s, a).events = d.events \o <<e, f>>
        /\ Decided(s, a).action = d.action /\ Keeps(Decided(s, a), d)
    <3>1. "REAUTHORIZATION" \in EventNames /\ "REVIEW_RESOLVED" \in EventNames
      BY DEF EventNames
    <3>2. Decided(s, a) = Append2(d, "REAUTHORIZATION", "REVIEW_RESOLVED")
      BY <1>2, <1>4
    <3>3. d \in ReviewType
      BY <1>1
    <3> HIDE <1>1
    <3> QED BY <3>1, <3>2, <3>3, Append2Facts
  <2>2. f.event = "REVIEW_RESOLVED" /\ f.decision = a
    BY <1>1
  <2> HIDE DEF e, f
  <2>3. d.events \in Seq(EventType)
    BY <1>1 DEF ReviewType
  <2>4. /\ Len(d.events) + 2 \in DOMAIN (d.events \o <<e, f>>)
        /\ (d.events \o <<e, f>>)[Len(d.events) + 2] = f
    BY <2>3
  <2>5. a = "ALLOW" => TellsAllow(Decided(s, a).events)
    BY <2>1, <2>2, <2>4 DEF TellsAllow, At
  <2> QED BY <1>1, <2>1, <2>5 DEF Keeps
<1> QED BY <1>3, <1>4

\* What complete_recovery_round hands to the append: it ends the round, within the
\* budgets, and an ALLOW tells of itself and covers what was judged at first.
Within(s, i) ==
  /\ s.rounds <= MaxRounds /\ s.items <= MaxItems
  /\ Cardinality(s.held \ i) <= s.items

Sound(s, i) == s.action = "ALLOW" => TellsAllow(s.events) /\ i \subseteq s.held

Grows(s, t) == \A i \in DOMAIN s : i \in DOMAIN t /\ t[i] = s[i]

\* The ids of some entries, which are no more than the entries, nor fewer if each entry
\* has an id of its own.
IdsOf(entries) == {e.id : e \in entries}

LEMMA IdsAreCounted ==
  ASSUME NEW entries \in SUBSET Evidence
  PROVE  /\ IsFiniteSet(entries) /\ IsFiniteSet(IdsOf(entries))
         /\ Cardinality(entries) \in Nat /\ Cardinality(IdsOf(entries)) \in Nat
         /\ Cardinality(IdsOf(entries)) <= Cardinality(entries)
         /\ (\A d, e \in entries : d.id = e.id => d = e) =>
              Cardinality(IdsOf(entries)) = Cardinality(entries)
<1> DEFINE f == [e \in entries |-> e.id]
<1>1. IsFiniteSet(entries)
  BY RecoveryAssumption, FS_Subset
<1>2. f \in Surjection(entries, IdsOf(entries))
  BY DEF Surjection, IdsOf
<1>3. ASSUME \A d, e \in entries : d.id = e.id => d = e
      PROVE  f \in Injection(entries, IdsOf(entries))
  BY <1>3 DEF Injection, IsInjective, IdsOf
<1> HIDE DEF f
<1>4. /\ IsFiniteSet(IdsOf(entries)) /\ Cardinality(IdsOf(entries)) <= Cardinality(entries)
      /\ Cardinality(IdsOf(entries)) = Cardinality(entries) <=> f \in Injection(entries, IdsOf(entries))
  BY <1>1, <1>2, FS_Surjection
<1> QED BY <1>1, <1>3, <1>4, FS_CardinalityType

\* Two sets that cover a third one have at least its elements.
LEMMA CoveredByTwo ==
  ASSUME NEW S, NEW T, NEW U, IsFiniteSet(S), IsFiniteSet(T), U \subseteq S \union T
  PROVE  /\ Cardinality(S) \in Nat /\ Cardinality(T) \in Nat /\ Cardinality(U) \in Nat
         /\ Cardinality(U) <= Cardinality(S) + Cardinality(T)
<1>1. /\ IsFiniteSet(S \union T)
      /\ Cardinality(S \union T) = Cardinality(S) + Cardinality(T) - Cardinality(S \intersect T)
  BY FS_Union
<1>2. IsFiniteSet(S \intersect T)
  BY FS_Subset
<1>3. IsFiniteSet(U) /\ Cardinality(U) <= Cardinality(S \union T)
  BY <1>1, FS_Subset
<1>4. /\ Cardinality(S) \in Nat /\ Cardinality(T) \in Nat /\ Cardinality(U) \in Nat
      /\ Cardinality(S \intersect T) \in Nat
  BY <1>2, <1>3, FS_CardinalityType
<1> QED BY <1>1, <1>3, <1>4

\* A batch that covers the initial entries, with one entry of each id, has an id for
\* every entry it adds to them: one that is new now, or that was when it was held first.
LEMMA HoldFacts ==
  ASSUME NEW s \in ReviewType, NEW i \in SUBSET Evidence, Within(s, i),
         NEW batch \in CompleteBatches(s), i \subseteq batch
  PROVE  /\ Hold(s, batch) \in ReviewType
         /\ Within(Hold(s, batch), i)
         /\ Hold(s, batch).held = batch
         /\ Hold(s, batch).action = s.action /\ Hold(s, batch).rounds = s.rounds
         /\ Hold(s, batch).inFlight = s.inFlight /\ Hold(s, batch).events = s.events
<1> DEFINE new == NewIds(batch, s.held)
<1>1. /\ batch \in SUBSET Evidence
      /\ \A d, e \in batch : d.id = e.id => d = e
      /\ Cardinality(new) <= MaxItems - s.items
  BY DEF CompleteBatches
<1>2. s.held \in SUBSET Evidence /\ s.items \in Nat /\ s.rounds \in Nat
  BY DEF ReviewType
<1>3. new \subseteq IdsOf(batch)
  BY DEF NewIds, IdsOf
<1>4. IsFiniteSet(new)
  <2>1. IsFiniteSet(IdsOf(batch))
    BY <1>1, IdsAreCounted
  <2> QED BY <1>3, <2>1, FS_Subset
<1>5. /\ Cardinality(batch \ i) = Cardinality(IdsOf(batch \ i))
      /\ Cardinality(batch \ i) \in Nat
  <2>1. batch \ i \in SUBSET Evidence /\ \A d, e \in batch \ i : d.id = e.id => d = e
    BY <1>1
  <2> HIDE DEF new
  <2> QED BY <2>1, IdsAreCounted
<1>6. IdsOf(batch \ i) \subseteq new \union IdsOf(s.held \ i)
  BY <1>1 DEF IdsOf, NewIds
<1>7. /\ IsFiniteSet(IdsOf(s.held \ i)) /\ Cardinality(s.held \ i) \in Nat
      /\ Cardinality(IdsOf(s.held \ i)) <= Cardinality(s.held \ i)
  <2>1. s.held \ i \in SUBSET Evidence
    BY <1>2
  <2> QED BY <2>1, IdsAreCounted
<1>8. Hold(s, batch) = [s EXCEPT !.held = batch, !.items = s.items + Cardinality(new)]
  BY DEF Hold, ReviewType
<1> HIDE DEF new
<1>9. /\ Cardinality(new) \in Nat /\ Cardinality(IdsOf(s.held \ i)) \in Nat
      /\ Cardinality(IdsOf(batch \ i)) <= Cardinality(new) + Cardinality(IdsOf(s.held \ i))
  BY <1>4, <1>6, <1>7, CoveredByTwo
<1> DEFINE total == s.items + Cardinality(new)
<1>10. total \in Nat /\ total <= MaxItems /\ Cardinality(batch \ i) <= total
  BY <1>1, <1>2, <1>5, <1>7, <1>9, RecoveryAssumption DEF Within
<1>11. Hold(s, batch) = [s EXCEPT !.held = batch, !.items = total]
  BY <1>8
<1> HIDE DEF total
<1> QED BY <1>1, <1>2, <1>10, <1>11 DEF ReviewType, Within

\* Counting the events of a name in a log that grows.
LEMMA CountGrows ==
  ASSUME NEW s \in Seq(EventType), NEW t \in Seq(EventType), Grows(s, t), NEW name
  PROVE  /\ Cardinality(At(s, name)) \in Nat /\ Cardinality(At(t, name)) \in Nat
         /\ Cardinality(At(s, name)) <= Cardinality(At(t, name))
         /\ (\E i \in At(t, name) : i \notin DOMAIN s) =>
              Cardinality(At(s, name)) + 1 <= Cardinality(At(t, name))
<1>1. At(s, name) \subseteq At(t, name) /\ At(s, name) \subseteq DOMAIN s
  BY DEF At, Grows
<1>2. IsFiniteSet(At(t, name)) /\ IsFiniteSet(At(s, name))
  <2>1. DOMAIN t = 1..Len(t) /\ Len(t) \in Nat
    OBVIOUS
  <2>2. IsFiniteSet(DOMAIN t)
    BY <2>1, FS_Interval
  <2>3. IsFiniteSet(At(t, name))
    BY <2>2, FS_Subset DEF At
  <2> QED BY <1>1, <2>3, FS_Subset
<1>3. Cardinality(At(s, name)) \in Nat /\ Cardinality(At(t, name)) \in Nat
  BY <1>2, FS_CardinalityType
<1>4. Cardinality(At(s, name)) <= Cardinality(At(t, name))
  BY <1>1, <1>2, FS_Subset
<1>5. ASSUME NEW i \in At(t, name), i \notin DOMAIN s
      PROVE  Cardinality(At(s, name)) + 1 <= Cardinality(At(t, name))
  <2>1. At(s, name) # At(t, name)
    BY <1>1, <1>5
  <2>2. Cardinality(At(s, name)) # Cardinality(At(t, name))
    BY <1>1, <1>2, <2>1, FS_Subset
  <2> QED BY <1>3, <1>4, <2>2
<1> QED BY <1>3, <1>4, <1>5

LEMMA AllowStays ==
  ASSUME NEW s, NEW t, Grows(s, t), TellsAllow(s)
  PROVE  TellsAllow(t)
BY DEF Grows, TellsAllow, At

LEMMA GrowsByAppending ==
  ASSUME NEW s \in Seq(EventType), NEW t \in Seq(EventType)
  PROVE  s \o t \in Seq(EventType) /\ Grows(s, s \o t)
BY DEF Grows

-----------------------------------------------------------------------------
(* The invariant *)

\* Where a review and the store agree: between requests, as long as the review is
\* available, and inside one, except for what waits to be appended.
InSync(r) ==
  \/ pc[r] \notin {"idle", "reserved", "rollback", "gone"}
  \/ pc[r] = "idle" /\ available[r]

LogOf(r) ==
  /\ InSync(r) => stored[r] = review[r].events
  /\ pc[r] \in Appending => Grows(stored[r], next[r].events)
  /\ pc[r] = "reserved" =>
       /\ next[r] = review[r]
       /\ \E i \in At(next[r].events, "ROUND_RESERVED") : i \notin DOMAIN stored[r]

RoundOf(r) ==
  /\ InSync(r) /\ pc[r] \notin {"acquire", "completed"} => review[r].inFlight = 0
  /\ pc[r] = "completed" => next[r].inFlight = 0 /\ next[r].rounds = review[r].rounds
  /\ pc[r] \in {"reserved", "acquire", "completed"} => review[r].action = "REVIEW"
  /\ pc[r] = "linked" => Keeps(next[r], review[r]) /\ next[r].action = review[r].action
  /\ Within(review[r], initial[r])
  /\ pc[r] \in Appending => Within(next[r], initial[r])

CallsOf(r) ==
  /\ fetched[r] <= review[r].rounds
  /\ fetched[r] <= Cardinality(At(stored[r], "ROUND_RESERVED"))
  /\ pc[r] \in {"reserved", "acquire"} => fetched[r] + 1 <= review[r].rounds
  /\ pc[r] = "acquire" => fetched[r] + 1 <= Cardinality(At(stored[r], "ROUND_RESERVED"))

ConsentOf(r) ==
  /\ pc[r] = "completed" => Sound(next[r], initial[r])
  /\ pc[r] \in {"resolved", "issued"} \/ issued[r] =>
       /\ review[r].action = "ALLOW"
       /\ TellsAllow(stored[r]) /\ initial[r] \subseteq review[r].held
  /\ issued[r] => pc[r] \in {"idle", "issued", "linked", "rollback", "gone"}

ReviewInvariant(r) == LogOf(r) /\ RoundOf(r) /\ CallsOf(r) /\ ConsentOf(r)

RecoveryInvariant == TypeOK /\ \A r \in Reviews : ReviewInvariant(r)

\* What a step about r leaves alone.
Elsewhere(r) ==
  /\ initial' = initial
  /\ \A q \in Reviews \ {r} :
       /\ review'[q] = review[q] /\ next'[q] = next[q] /\ pc'[q] = pc[q]
       /\ available'[q] = available[q] /\ stored'[q] = stored[q]
       /\ issued'[q] = issued[q] /\ fetched'[q] = fetched[q]

LEMMA OthersStay ==
  ASSUME RecoveryInvariant, NEW r \in Reviews, Elsewhere(r), NEW q \in Reviews \ {r}
  PROVE  ReviewInvariant(q)'
<1>1. /\ initial' = initial
      /\ review'[q] = review[q] /\ next'[q] = next[q] /\ pc'[q] = pc[q]
      /\ available'[q] = available[q] /\ stored'[q] = stored[q]
      /\ issued'[q] = issued[q] /\ fetched'[q] = fetched[q]
  BY DEF Elsewhere
<1>2. ReviewInvariant(q)
  BY DEF RecoveryInvariant
<1>3. LogOf(q)'
  BY <1>1, <1>2 DEF ReviewInvariant, LogOf, InSync
<1>4. RoundOf(q)'
  BY <1>1, <1>2 DEF ReviewInvariant, RoundOf, InSync
<1>5. CallsOf(q)'
  BY <1>1, <1>2 DEF ReviewInvariant, CallsOf
<1>6. ConsentOf(q)'
  BY <1>1, <1>2 DEF ReviewInvariant, ConsentOf
<1> QED BY <1>3, <1>4, <1>5, <1>6 DEF ReviewInvariant

LEMMA OneReview ==
  ASSUME RecoveryInvariant, NEW r \in Reviews, Elsewhere(r), TypeOK', ReviewInvariant(r)'
  PROVE  RecoveryInvariant'
BY OthersStay DEF RecoveryInvariant

LEMMA Types ==
  ASSUME RecoveryInvariant, NEW r \in Reviews
  PROVE  /\ review[r] \in ReviewType /\ next[r] \in ReviewType
         /\ review[r].events \in Seq(EventType) /\ next[r].events \in Seq(EventType)
         /\ stored[r] \in Seq(EventType)
         /\ review[r].inFlight \in {0, review[r].rounds} /\ review[r].rounds \in Nat
         /\ review[r].action \in DecisionAction
         /\ initial[r] \in SUBSET Evidence
         /\ fetched[r] \in Nat
         /\ Cardinality(At(stored[r], "ROUND_RESERVED")) \in Nat
         /\ ReviewInvariant(r)
<1>1. /\ review[r] \in ReviewType /\ next[r] \in ReviewType /\ stored[r] \in Seq(EventType)
      /\ review[r].inFlight \in {0, review[r].rounds}
      /\ initial[r] \in SUBSET Evidence /\ fetched[r] \in Nat
  BY DEF RecoveryInvariant, TypeOK
<1>2. /\ review[r].events \in Seq(EventType) /\ next[r].events \in Seq(EventType)
      /\ review[r].rounds \in Nat /\ review[r].action \in DecisionAction
  BY <1>1 DEF ReviewType
<1>3. Cardinality(At(stored[r], "ROUND_RESERVED")) \in Nat
  BY <1>1, CountGrows DEF Grows
<1> QED BY <1>1, <1>2, <1>3 DEF RecoveryInvariant

-----------------------------------------------------------------------------
(* One lemma per step *)

LEMMA ReservedFacts ==
  ASSUME NEW s \in ReviewType
  PROVE  LET d == Reserved(s)
         IN  /\ d \in ReviewType /\ d.rounds = s.rounds + 1 /\ d.inFlight = d.rounds
             /\ d.action = s.action /\ d.items = s.items /\ d.held = s.held
             /\ d.events = s.events
<1> DEFINE n == s.rounds + 1
<1>1. n \in Nat
  BY DEF ReviewType
<1>2. Reserved(s) = [s EXCEPT !.rounds = n, !.inFlight = n]
  BY DEF Reserved, ReviewType
<1> HIDE DEF n
<1>3. /\ Reserved(s) \in ReviewType /\ Reserved(s).rounds = n /\ Reserved(s).inFlight = n
      /\ Reserved(s).action = s.action /\ Reserved(s).items = s.items
      /\ Reserved(s).held = s.held /\ Reserved(s).events = s.events
  BY <1>1, <1>2 DEF ReviewType
<1> QED BY <1>3 DEF n

LEMMA ReserveStep ==
  ASSUME RecoveryInvariant, NEW r \in Reviews, ReserveRound(r)
  PROVE  RecoveryInvariant'
<1> DEFINE s == review[r]
           d == Reserved(s)
           t == Append2(d, "ROUND_RESERVED", "SOURCE_SELECTED")
<1>1. /\ s \in ReviewType /\ s.rounds \in Nat /\ stored[r] = s.events /\ s.inFlight = 0
      /\ s.events \in Seq(EventType) /\ fetched[r] \in Nat /\ ReviewInvariant(r)
      /\ Cardinality(At(stored[r], "ROUND_RESERVED")) \in Nat
  BY Types DEF ReserveRound, MayReserve, ReviewInvariant, LogOf, InSync
<1>2. /\ pc[r] = "idle" /\ s.action = "REVIEW" /\ s.rounds < MaxRounds
      /\ review' = [review EXCEPT ![r] = t] /\ next' = [next EXCEPT ![r] = t]
      /\ pc' = [pc EXCEPT ![r] = "reserved"]
      /\ UNCHANGED <<initial, available, authority, store>>
  BY DEF ReserveRound, MayReserve, Propose, Go
<1>3. /\ d \in ReviewType /\ d.rounds = s.rounds + 1 /\ d.inFlight = d.rounds
      /\ d.action = s.action /\ d.items = s.items /\ d.held = s.held /\ d.events = s.events
  BY <1>1, ReservedFacts
<1> DEFINE e == [event |-> "ROUND_RESERVED", round |-> d.rounds, decision |-> d.action]
           f == [event |-> "SOURCE_SELECTED", round |-> d.rounds, decision |-> d.action]
<1> HIDE DEF d
<1>4. "ROUND_RESERVED" \in EventNames /\ "SOURCE_SELECTED" \in EventNames
  BY DEF EventNames
<1>4a. d \in ReviewType
  BY <1>3
<1>5. /\ t \in ReviewType /\ t.events = d.events \o <<e, f>>
      /\ t.action = d.action /\ Keeps(t, d)
  BY <1>4a, <1>4, Append2Facts
<1>6. e \in EventType /\ f \in EventType /\ e.event = "ROUND_RESERVED"
  <2>1. d.rounds \in Nat /\ d.action \in DecisionAction
    BY <1>4a DEF ReviewType
  <2> QED BY <2>1 DEF EventType
<1> HIDE DEF e, f, t
<1>7. /\ t.events \in Seq(EventType) /\ Grows(s.events, t.events)
      /\ \E i \in At(t.events, "ROUND_RESERVED") : i \notin DOMAIN s.events
  <2>1. t.events = s.events \o <<e, f>> /\ <<e, f>> \in Seq(EventType)
    BY <1>3, <1>5, <1>6
  <2>2. t.events \in Seq(EventType) /\ Grows(s.events, t.events)
    BY <1>1, <2>1, GrowsByAppending
  <2>3. /\ Len(s.events) + 1 \in DOMAIN t.events /\ t.events[Len(s.events) + 1] = e
        /\ Len(s.events) + 1 \notin DOMAIN s.events
    BY <1>1, <2>1
  <2> QED BY <1>6, <2>2, <2>3 DEF At
<1>8. /\ review'[r] = t /\ next'[r] = t /\ pc'[r] = "reserved" /\ Elsewhere(r)
      /\ stored' = stored /\ fetched' = fetched /\ issued' = issued /\ initial' = initial
  BY <1>2 DEF RecoveryInvariant, TypeOK, Elsewhere, authority, store
<1>9. TypeOK'
  BY <1>2, <1>3, <1>5 DEF RecoveryInvariant, TypeOK, authority, store, Keeps, Pcs, Appending
<1>10. LogOf(r)'
  BY <1>1, <1>7, <1>8 DEF LogOf, InSync
<1>11. Within(t, initial[r])
  BY <1>1, <1>2, <1>3, <1>5, RecoveryAssumption DEF ReviewInvariant, RoundOf, InSync, Within, Keeps
<1>12. RoundOf(r)'
  BY <1>2, <1>3, <1>5, <1>8, <1>11 DEF RoundOf, InSync, Appending, Within
<1>13. CallsOf(r)'
  BY <1>1, <1>3, <1>5, <1>8 DEF ReviewInvariant, CallsOf, Keeps
<1>14. ConsentOf(r)'
  BY <1>1, <1>2, <1>8 DEF ReviewInvariant, ConsentOf
<1> QED BY <1>8, <1>9, <1>10, <1>12, <1>13, <1>14, OneReview DEF ReviewInvariant

LEMMA PersistStep ==
  ASSUME RecoveryInvariant, NEW r \in Reviews, Persist(r)
  PROVE  RecoveryInvariant'
<1> DEFINE step == CASE pc[r] = "reserved" -> "acquire"
                     [] pc[r] = "completed" /\ next[r].action = "ALLOW" -> "resolved"
                     [] OTHER -> "idle"
<1>1. /\ pc[r] \in Appending
      /\ stored' = [stored EXCEPT ![r] = next[r].events]
      /\ review' = [review EXCEPT ![r] = next[r]]
      /\ pc' = [pc EXCEPT ![r] = step]
      /\ UNCHANGED <<initial, available, next, authority, open, faults>>
  BY DEF Persist, Go
<1>2. /\ pc[r] = "reserved" => step = "acquire"
      /\ pc[r] = "completed" /\ next[r].action = "ALLOW" => step = "resolved"
      /\ pc[r] = "completed" /\ next[r].action # "ALLOW" => step = "idle"
      /\ pc[r] = "linked" => step = "idle"
  OBVIOUS
<1>3. pc[r] \in {"reserved", "completed", "linked"}
  BY <1>1 DEF Appending
<1> HIDE DEF step
<1>4. /\ next[r] \in ReviewType /\ next[r].events \in Seq(EventType)
      /\ stored[r] \in Seq(EventType) /\ ReviewInvariant(r) /\ fetched[r] \in Nat
      /\ next[r].inFlight \in {0, next[r].rounds}
  BY Types DEF RecoveryInvariant, TypeOK
<1>5. /\ review'[r] = next[r] /\ next'[r] = next[r] /\ pc'[r] = step
      /\ stored'[r] = next[r].events /\ Elsewhere(r)
      /\ fetched' = fetched /\ issued' = issued /\ initial' = initial
      /\ available' = available
  BY <1>1 DEF RecoveryInvariant, TypeOK, Elsewhere, authority
<1>6. TypeOK'
  BY <1>1, <1>2, <1>3, <1>4 DEF RecoveryInvariant, TypeOK, authority, Pcs, Appending
<1>7. Grows(stored[r], next[r].events)
  BY <1>1, <1>4 DEF ReviewInvariant, LogOf
<1>8. LogOf(r)'
  BY <1>2, <1>3, <1>5 DEF LogOf, InSync, Appending
<1>9. RoundOf(r)'
  <2>1. CASE pc[r] = "reserved"
    BY <1>2, <1>4, <1>5, <2>1 DEF ReviewInvariant, RoundOf, InSync, LogOf, Appending
  <2>2. CASE pc[r] = "completed"
    BY <1>2, <1>4, <1>5, <2>2 DEF ReviewInvariant, RoundOf, InSync, Appending
  <2>3. CASE pc[r] = "linked"
    BY <1>2, <1>4, <1>5, <2>3 DEF ReviewInvariant, RoundOf, InSync, Appending, Keeps
  <2> QED BY <1>3, <2>1, <2>2, <2>3
<1>10. CallsOf(r)'
  <2>1. /\ Cardinality(At(stored[r], "ROUND_RESERVED")) \in Nat
        /\ Cardinality(At(next[r].events, "ROUND_RESERVED")) \in Nat
        /\ Cardinality(At(stored[r], "ROUND_RESERVED")) <= Cardinality(At(next[r].events, "ROUND_RESERVED"))
        /\ (\E i \in At(next[r].events, "ROUND_RESERVED") : i \notin DOMAIN stored[r]) =>
              Cardinality(At(stored[r], "ROUND_RESERVED")) + 1
                <= Cardinality(At(next[r].events, "ROUND_RESERVED"))
    BY <1>4, <1>7, CountGrows
  <2>2. pc'[r] = "acquire" => pc[r] = "reserved"
    BY <1>2, <1>3, <1>5
  <2>3. next[r].rounds = review[r].rounds
    BY <1>3, <1>4 DEF ReviewInvariant, RoundOf, InSync, LogOf, Keeps
  <2>4. pc'[r] # "reserved"
    BY <1>2, <1>3, <1>5
  <2>5. /\ fetched[r] <= Cardinality(At(stored[r], "ROUND_RESERVED"))
        /\ fetched[r] <= review[r].rounds
        /\ pc[r] = "reserved" => fetched[r] + 1 <= review[r].rounds
    BY <1>4 DEF ReviewInvariant, CallsOf
  <2>6. pc[r] = "reserved" =>
          \E i \in At(next[r].events, "ROUND_RESERVED") : i \notin DOMAIN stored[r]
    BY <1>4 DEF ReviewInvariant, LogOf
  <2>7. fetched[r] <= Cardinality(At(next[r].events, "ROUND_RESERVED"))
    BY <1>4, <2>1, <2>5
  <2>8. pc[r] = "reserved" =>
          fetched[r] + 1 <= Cardinality(At(next[r].events, "ROUND_RESERVED"))
    BY <1>4, <2>1, <2>5, <2>6
  <2> QED BY <1>5, <2>2, <2>3, <2>4, <2>5, <2>7, <2>8 DEF CallsOf
<1>11. ConsentOf(r)'
  <2>1. CASE pc[r] = "reserved"
    BY <1>2, <1>4, <1>5, <2>1 DEF ReviewInvariant, ConsentOf
  <2>2. CASE pc[r] = "completed"
    BY <1>2, <1>4, <1>5, <2>2 DEF ReviewInvariant, ConsentOf, Sound
  <2>3. CASE pc[r] = "linked"
    <3>1. next[r].action = review[r].action /\ next[r].held = review[r].held
      BY <1>4, <2>3 DEF ReviewInvariant, RoundOf, InSync, Keeps
    <3>2. pc'[r] = "idle"
      BY <1>2, <1>5, <2>3
    <3>3. TellsAllow(stored[r]) => TellsAllow(next[r].events)
      BY <1>7, AllowStays
    <3> QED BY <1>4, <1>5, <3>1, <3>2, <3>3 DEF ReviewInvariant, ConsentOf
  <2> QED BY <1>3, <2>1, <2>2, <2>3
<1> QED BY <1>5, <1>6, <1>8, <1>9, <1>10, <1>11, OneReview DEF ReviewInvariant

\* A failed append, and the end of one: the review stays as it is.
LEMMA FailStep ==
  ASSUME RecoveryInvariant, NEW r \in Reviews, AppendFaults(r) \/ AppendBlocked(r) \/ Rollback(r)
  PROVE  RecoveryInvariant'
<1>1. /\ UNCHANGED <<review, initial, authority, stored>>
      /\ pc[r] \in Appending \union {"rollback"}
      /\ \/ /\ pc' = [pc EXCEPT ![r] = "rollback"]
            /\ next' = [next EXCEPT ![r] = review[r]] /\ UNCHANGED available
         \/ /\ pc' = [pc EXCEPT ![r] = "idle"] /\ UNCHANGED next
            /\ available' = [available EXCEPT ![r] = FALSE]
      /\ open' \in BOOLEAN /\ faults' \in 0..MaxFaults
  <2>1. open \in BOOLEAN /\ faults \in 0..MaxFaults
    BY DEF RecoveryInvariant, TypeOK
  <2>2. CASE AppendFaults(r)
    BY <2>1, <2>2, RecoveryAssumption DEF AppendFaults, Fail, Go
  <2>3. CASE AppendBlocked(r)
    BY <2>1, <2>3 DEF AppendBlocked, Fail, Go, store
  <2>4. CASE Rollback(r)
    BY <2>1, <2>4 DEF Rollback, Go
  <2> QED BY <2>2, <2>3, <2>4
<1>2. TypeOK'
  BY <1>1 DEF RecoveryInvariant, TypeOK, authority, Pcs
<1>3. /\ Elsewhere(r) /\ ReviewInvariant(r)
      /\ review' = review /\ stored' = stored /\ fetched' = fetched /\ issued' = issued
      /\ initial' = initial
      /\ \/ pc'[r] = "rollback"
         \/ pc'[r] = "idle" /\ ~available'[r]
  BY <1>1 DEF RecoveryInvariant, TypeOK, Elsewhere, authority
<1>4. LogOf(r)'
  BY <1>3 DEF LogOf, InSync, Appending
<1>5. RoundOf(r)'
  BY <1>3 DEF ReviewInvariant, RoundOf, InSync, Appending
<1>6. CallsOf(r)'
  BY <1>3 DEF ReviewInvariant, CallsOf
<1>7. ConsentOf(r)'
  BY <1>3 DEF ReviewInvariant, ConsentOf
<1> QED BY <1>2, <1>3, <1>4, <1>5, <1>6, <1>7, OneReview DEF ReviewInvariant

\* What a round ends with, however it ends.
Ends(r, n) ==
  /\ n \in ReviewType /\ n.inFlight = 0 /\ n.rounds = review[r].rounds
  /\ Grows(review[r].events, n.events)
  /\ Within(n, initial[r]) /\ Sound(n, initial[r])

LEMMA CompletionStep ==
  ASSUME RecoveryInvariant, NEW r \in Reviews, pc[r] = "acquire",
         NEW n, Ends(r, n),
         next' = [next EXCEPT ![r] = n], pc' = [pc EXCEPT ![r] = "completed"],
         NEW k \in {0, 1}, fetched' = [fetched EXCEPT ![r] = @ + k],
         UNCHANGED <<review, initial, available, issued, paid, store>>
  PROVE  RecoveryInvariant'
<1>1. /\ ReviewInvariant(r) /\ fetched[r] \in Nat /\ review[r].rounds \in Nat
      /\ Cardinality(At(stored[r], "ROUND_RESERVED")) \in Nat
  BY Types
<1>2. /\ Elsewhere(r) /\ pc'[r] = "completed" /\ next'[r] = n /\ fetched'[r] = fetched[r] + k
      /\ review' = review /\ stored' = stored /\ issued' = issued /\ initial' = initial
  BY DEF RecoveryInvariant, TypeOK, Elsewhere, store
<1>3. TypeOK'
  <2>1. fetched' \in [Reviews -> Nat]
    BY DEF RecoveryInvariant, TypeOK
  <2>2. next' \in [Reviews -> ReviewType]
        /\ \A q \in Reviews : next'[q].inFlight \in {0, next'[q].rounds}
    BY DEF RecoveryInvariant, TypeOK, Ends
  <2> QED BY <2>1, <2>2 DEF RecoveryInvariant, TypeOK, store, Pcs, Appending
<1>4. LogOf(r)'
  BY <1>1, <1>2 DEF ReviewInvariant, LogOf, InSync, Ends, Appending
<1>5. RoundOf(r)'
  BY <1>1, <1>2 DEF ReviewInvariant, RoundOf, InSync, Ends
<1>6. CallsOf(r)'
  BY <1>1, <1>2 DEF ReviewInvariant, CallsOf
<1>7. ConsentOf(r)'
  BY <1>1, <1>2 DEF ReviewInvariant, ConsentOf, Ends
<1> QED BY <1>2, <1>3, <1>4, <1>5, <1>6, <1>7, OneReview DEF ReviewInvariant

\* Every event that a round may end with is appended to the review that it began with.
LEMMA EndWith1 ==
  ASSUME NEW s \in ReviewType, NEW name \in EventNames
  PROVE  Grows(s.events, Append1(s, name).events)
<1> DEFINE e == [event |-> name, round |-> s.rounds, decision |-> s.action]
<1>1. Append1(s, name).events = s.events \o <<e>>
  BY Append1Facts
<1>2. s.events \in Seq(EventType) /\ e \in EventType
  BY DEF ReviewType, EventType, EventNames
<1> HIDE DEF e
<1>3. <<e>> \in Seq(EventType)
  BY <1>2
<1> QED BY <1>1, <1>2, <1>3, GrowsByAppending

LEMMA EndWith2 ==
  ASSUME NEW s \in ReviewType, NEW first \in EventNames, NEW second \in EventNames
  PROVE  Grows(s.events, Append2(s, first, second).events)
<1> DEFINE e == [event |-> first, round |-> s.rounds, decision |-> s.action]
           f == [event |-> second, round |-> s.rounds, decision |-> s.action]
<1>1. Append2(s, first, second).events = s.events \o <<e, f>>
  BY Append2Facts
<1>2. s.events \in Seq(EventType) /\ e \in EventType /\ f \in EventType
  BY DEF ReviewType, EventType, EventNames
<1> HIDE DEF e, f
<1>3. <<e, f>> \in Seq(EventType)
  BY <1>2
<1> QED BY <1>1, <1>2, <1>3, GrowsByAppending

LEMMA EndWithDecision ==
  ASSUME NEW s \in ReviewType, NEW a \in DecisionAction
  PROVE  Grows(s.events, Decided(s, a).events)
<1> DEFINE d == [s EXCEPT !.action = a]
<1>1. d \in ReviewType /\ d.events = s.events
  BY DEF ReviewType
<1>2. Decided(s, a) = IF a = "REVIEW" THEN Append1(d, "REAUTHORIZATION")
                      ELSE Append2(d, "REAUTHORIZATION", "REVIEW_RESOLVED")
  BY DEF Decided
<1>3. "REAUTHORIZATION" \in EventNames /\ "REVIEW_RESOLVED" \in EventNames
  BY DEF EventNames
<1> HIDE DEF d
<1>4. /\ Grows(d.events, Append1(d, "REAUTHORIZATION").events)
      /\ Grows(d.events, Append2(d, "REAUTHORIZATION", "REVIEW_RESOLVED").events)
  BY <1>1, <1>3, EndWith1, EndWith2
<1> QED BY <1>1, <1>2, <1>4

LEMMA EndsBy ==
  ASSUME NEW r, NEW x \in ReviewType, x.rounds = review[r].rounds,
         Grows(review[r].events, x.events), Within(x, initial[r]), Sound(x, initial[r])
  PROVE  Ends(r, [x EXCEPT !.inFlight = 0])
<1> DEFINE n == [x EXCEPT !.inFlight = 0]
<1>1. /\ n \in ReviewType /\ n.inFlight = 0 /\ n.rounds = x.rounds /\ n.events = x.events
      /\ n.items = x.items /\ n.held = x.held /\ n.action = x.action
  BY DEF ReviewType
<1> HIDE DEF n
<1>2. Within(n, initial[r]) /\ Sound(n, initial[r])
  BY <1>1 DEF Within, Sound
<1>3. Ends(r, n)
  BY <1>1, <1>2 DEF Ends
<1> QED BY <1>3 DEF n

\* The six ways in which a round ends.
LEMMA RoundStep ==
  ASSUME RecoveryInvariant, NEW r \in Reviews,
         \/ StopAtPreflight(r) \/ AcquisitionRaises(r) \/ AcquireIncomplete(r)
         \/ AcquireUncovered(r) \/ AuthorizationRaises(r) \/ Reauthorize(r)
  PROVE  RecoveryInvariant'
<1> DEFINE s == review[r]
           i == initial[r]
<1>1. /\ pc[r] = "acquire"
      /\ UNCHANGED <<review, initial, available, issued, paid, store>>
      /\ \E k \in {0, 1} : fetched' = [fetched EXCEPT ![r] = @ + k]
  <2>1. fetched \in [Reviews -> Nat]
    BY DEF RecoveryInvariant, TypeOK
  <2>2. CASE StopAtPreflight(r)
    <3>1. fetched' = [fetched EXCEPT ![r] = @ + 0]
      BY <2>1, <2>2 DEF StopAtPreflight, authority
    <3> QED BY <2>2, <3>1 DEF StopAtPreflight, authority
  <2>3. CASE ~StopAtPreflight(r)
    BY <2>3 DEF AcquisitionRaises, AcquireIncomplete, AcquireUncovered, AuthorizationRaises,
       Reauthorize
  <2> QED BY <2>2, <2>3
<1>2. /\ s \in ReviewType /\ s.action = "REVIEW" /\ Within(s, i) /\ i \in SUBSET Evidence
  BY <1>1, Types DEF ReviewInvariant, RoundOf
<1>3. ASSUME NEW x \in ReviewType, x.rounds = s.rounds, Grows(s.events, x.events),
             Within(x, i), Sound(x, i), Complete(r, x)
      PROVE  RecoveryInvariant'
  <2> DEFINE n == [x EXCEPT !.inFlight = 0]
  <2>1. Ends(r, n)
    BY <1>3, EndsBy
  <2>2. next' = [next EXCEPT ![r] = n] /\ pc' = [pc EXCEPT ![r] = "completed"]
    BY <1>3 DEF Complete, Propose, Go
  <2> HIDE DEF n
  <2> QED BY <1>1, <2>1, <2>2, CompletionStep
<1>4. /\ "ACQUISITION_RESULT" \in EventNames /\ "RECOVERY_FAILED" \in EventNames
  BY DEF EventNames
<1>5. CASE StopAtPreflight(r)
  <2>1. PICK a \in DecisionAction \ {"ALLOW"} : Complete(r, Decided(s, a))
    BY <1>5 DEF StopAtPreflight
  <2>2. /\ Decided(s, a) \in ReviewType /\ Decided(s, a).action = a /\ Keeps(Decided(s, a), s)
        /\ Grows(s.events, Decided(s, a).events)
    BY <1>2, DecidedFacts, EndWithDecision
  <2>3. Within(Decided(s, a), i) /\ Sound(Decided(s, a), i) /\ Decided(s, a).rounds = s.rounds
    BY <1>2, <2>2 DEF Within, Sound, Keeps
  <2> QED BY <1>3, <2>1, <2>2, <2>3
<1>6. ASSUME NEW name \in EventNames, Complete(r, Append1(s, name))
      PROVE  RecoveryInvariant'
  <2>1. /\ Append1(s, name) \in ReviewType /\ Append1(s, name).action = "REVIEW"
        /\ Keeps(Append1(s, name), s) /\ Grows(s.events, Append1(s, name).events)
    BY <1>2, Append1Facts, EndWith1
  <2>2. Within(Append1(s, name), i) /\ Sound(Append1(s, name), i)
        /\ Append1(s, name).rounds = s.rounds
    BY <1>2, <2>1 DEF Within, Sound, Keeps
  <2> QED BY <1>3, <1>6, <2>1, <2>2
<1>7. ASSUME NEW h \in ReviewType, h.action = "REVIEW", h.rounds = s.rounds,
             h.events = s.events, Within(h, i),
             Complete(r, Append2(h, "ACQUISITION_RESULT", "RECOVERY_FAILED"))
      PROVE  RecoveryInvariant'
  <2> DEFINE x == Append2(h, "ACQUISITION_RESULT", "RECOVERY_FAILED")
  <2>1. /\ x \in ReviewType /\ x.action = "REVIEW" /\ Keeps(x, h) /\ Grows(s.events, x.events)
    BY <1>4, <1>7, Append2Facts, EndWith2
  <2>2. Within(x, i) /\ Sound(x, i) /\ x.rounds = s.rounds
    BY <1>7, <2>1 DEF Within, Sound, Keeps
  <2> QED BY <1>3, <1>7, <2>1, <2>2
<1>8. CASE AcquisitionRaises(r) \/ AcquireIncomplete(r)
  BY <1>4, <1>6, <1>8 DEF AcquisitionRaises, AcquireIncomplete
<1>9. CASE AcquireUncovered(r)
  BY <1>2, <1>7, <1>9 DEF AcquireUncovered
<1>10. ASSUME NEW batch \in CompleteBatches(s), i \subseteq batch
       PROVE  /\ Hold(s, batch) \in ReviewType /\ Within(Hold(s, batch), i)
              /\ Hold(s, batch).held = batch
              /\ Hold(s, batch).action = "REVIEW" /\ Hold(s, batch).rounds = s.rounds
              /\ Hold(s, batch).events = s.events
  BY <1>2, <1>10, HoldFacts
<1>11. CASE AuthorizationRaises(r)
  <2>1. PICK batch \in CompleteBatches(s) :
          /\ i \subseteq batch
          /\ Complete(r, Append2(Hold(s, batch), "ACQUISITION_RESULT", "RECOVERY_FAILED"))
    BY <1>11 DEF AuthorizationRaises, Covers
  <2> QED BY <1>7, <1>10, <2>1
<1>12. CASE Reauthorize(r)
  <2>1. PICK batch \in CompleteBatches(s), a \in DecisionAction, g \in GapStatus :
          /\ i \subseteq batch
          /\ Complete(r, [Decided(Append1(Hold(s, batch), "ACQUISITION_RESULT"), a)
                            EXCEPT !.gap = g])
    BY <1>12 DEF Reauthorize, Covers
  <2> DEFINE h == Hold(s, batch)
             b == Append1(h, "ACQUISITION_RESULT")
             d == Decided(b, a)
             x == [d EXCEPT !.gap = g]
  <2>2. /\ h \in ReviewType /\ Within(h, i) /\ h.held = batch /\ h.rounds = s.rounds
        /\ h.events = s.events
    BY <1>10, <2>1
  <2> HIDE DEF h
  <2>3. b \in ReviewType /\ Keeps(b, h) /\ Grows(h.events, b.events)
    BY <1>4, <2>2, Append1Facts, EndWith1
  <2> HIDE DEF b
  <2>4. /\ d \in ReviewType /\ d.action = a /\ Keeps(d, b) /\ Grows(b.events, d.events)
        /\ a = "ALLOW" => TellsAllow(d.events)
    BY <2>3, DecidedFacts, EndWithDecision
  <2> HIDE DEF d
  <2>5. /\ x \in ReviewType /\ x.events = d.events /\ x.action = d.action /\ x.held = d.held
        /\ x.items = d.items /\ x.rounds = d.rounds
    BY <2>4 DEF ReviewType
  <2> HIDE DEF x
  <2>6. Grows(s.events, x.events)
    BY <2>2, <2>3, <2>4, <2>5 DEF Grows
  <2>7. x.held = batch /\ x.items = h.items /\ x.rounds = h.rounds
    BY <2>2, <2>3, <2>4, <2>5 DEF Keeps
  <2>8. Within(x, i) /\ Sound(x, i) /\ x.rounds = s.rounds
    BY <2>1, <2>2, <2>4, <2>5, <2>7 DEF Within, Sound
  <2>9. Complete(r, x)
    BY <2>1 DEF x, d, b, h
  <2> QED BY <1>3, <2>5, <2>6, <2>8, <2>9
<1> QED BY <1>5, <1>8, <1>9, <1>11, <1>12

LEMMA IssueStep ==
  ASSUME RecoveryInvariant, NEW r \in Reviews, Issue(r) \/ IssueFails(r) \/ ExecuteRaises(r)
  PROVE  RecoveryInvariant'
<1>1. /\ UNCHANGED <<review, initial, available, next, fetched, store>>
      /\ pc[r] \in {"resolved", "issued"}
      /\ \/ pc' = [pc EXCEPT ![r] = "issued"] /\ issued' = [issued EXCEPT ![r] = TRUE]
         \/ pc' = [pc EXCEPT ![r] = "idle"] /\ UNCHANGED issued
      /\ paid' \in [Reviews -> Nat]
  <2>1. paid \in [Reviews -> Nat]
    BY DEF RecoveryInvariant, TypeOK
  <2>2. CASE Issue(r) \/ IssueFails(r)
    BY <2>1, <2>2 DEF Issue, IssueFails, Go, authority
  <2>3. CASE ExecuteRaises(r)
    BY <2>1, <2>3 DEF ExecuteRaises, Go
  <2> QED BY <2>2, <2>3
<1>2. /\ Elsewhere(r) /\ ReviewInvariant(r)
      /\ review' = review /\ stored' = stored /\ fetched' = fetched /\ initial' = initial
      /\ pc'[r] \in {"idle", "issued"}
  BY <1>1 DEF RecoveryInvariant, TypeOK, Elsewhere, store
<1>3. TypeOK'
  BY <1>1 DEF RecoveryInvariant, TypeOK, store, Pcs
<1>4. LogOf(r)'
  BY <1>1, <1>2 DEF ReviewInvariant, LogOf, InSync, Appending
<1>5. RoundOf(r)'
  BY <1>1, <1>2 DEF ReviewInvariant, RoundOf, InSync, Appending
<1>6. CallsOf(r)'
  BY <1>2 DEF ReviewInvariant, CallsOf
<1>7. ConsentOf(r)'
  BY <1>1, <1>2 DEF ReviewInvariant, ConsentOf
<1> QED BY <1>2, <1>3, <1>4, <1>5, <1>6, <1>7, OneReview DEF ReviewInvariant

LEMMA ExecuteStep ==
  ASSUME RecoveryInvariant, NEW r \in Reviews, Execute(r)
  PROVE  RecoveryInvariant'
<1> DEFINE s == review[r]
           n == Append1(s, "EXECUTION_LINKED")
<1>1. /\ pc[r] = "issued"
      /\ next' = [next EXCEPT ![r] = n] /\ pc' = [pc EXCEPT ![r] = "linked"]
      /\ UNCHANGED <<review, initial, available, issued, fetched, store>>
      /\ paid' \in [Reviews -> Nat]
  <2>1. paid \in [Reviews -> Nat]
    BY DEF RecoveryInvariant, TypeOK
  <2> HIDE DEF n
  <2> QED BY <2>1 DEF Execute, Propose, Go, n
<1>2. s \in ReviewType /\ "EXECUTION_LINKED" \in EventNames
  BY Types DEF EventNames
<1>3. n \in ReviewType /\ n.action = s.action /\ Keeps(n, s) /\ Grows(s.events, n.events)
  BY <1>2, Append1Facts, EndWith1
<1> HIDE DEF n
<1>4. /\ Elsewhere(r) /\ ReviewInvariant(r) /\ pc'[r] = "linked" /\ next'[r] = n
      /\ review' = review /\ stored' = stored /\ fetched' = fetched /\ initial' = initial
      /\ issued' = issued
  BY <1>1 DEF RecoveryInvariant, TypeOK, Elsewhere, store
<1>5. TypeOK'
  BY <1>1, <1>3 DEF RecoveryInvariant, TypeOK, store, Pcs, Appending, Keeps
<1>6. LogOf(r)'
  BY <1>1, <1>3, <1>4 DEF ReviewInvariant, LogOf, InSync, Appending
<1>7. RoundOf(r)'
  BY <1>1, <1>3, <1>4 DEF ReviewInvariant, RoundOf, InSync, Appending, Keeps, Within
<1>8. CallsOf(r)'
  BY <1>4 DEF ReviewInvariant, CallsOf
<1>9. ConsentOf(r)'
  BY <1>1, <1>4 DEF ReviewInvariant, ConsentOf
<1> QED BY <1>4, <1>5, <1>6, <1>7, <1>8, <1>9, OneReview DEF ReviewInvariant

LEMMA CrashStep ==
  ASSUME RecoveryInvariant, Crash
  PROVE  RecoveryInvariant'
<1>1. TypeOK'
  BY DEF RecoveryInvariant, TypeOK, Crash, authority, Pcs
<1>2. ASSUME NEW r \in Reviews
      PROVE  ReviewInvariant(r)'
  <2>1. /\ ReviewInvariant(r) /\ pc'[r] = "gone"
        /\ review' = review /\ stored' = stored /\ fetched' = fetched /\ initial' = initial
        /\ issued' = issued
    BY <1>2 DEF RecoveryInvariant, Crash, authority
  <2>2. LogOf(r)'
    BY <2>1 DEF LogOf, InSync, Appending
  <2>3. RoundOf(r)'
    BY <2>1 DEF ReviewInvariant, RoundOf, InSync, Appending
  <2>4. CallsOf(r)' /\ ConsentOf(r)'
    BY <2>1 DEF ReviewInvariant, CallsOf, ConsentOf
  <2> QED BY <2>2, <2>3, <2>4 DEF ReviewInvariant
<1> QED BY <1>1, <1>2 DEF RecoveryInvariant

LEMMA RecoveryStart == Init => RecoveryInvariant
<1> SUFFICES ASSUME Init PROVE RecoveryInvariant
  OBVIOUS
<1> DEFINE New(i, gap) == [action |-> "REVIEW", gap |-> gap, rounds |-> 0, inFlight |-> 0,
                           items |-> 0, held |-> i, events |-> << >>]
<1>1. initial \in [Reviews -> SUBSET Evidence]
  BY RecoveryAssumption DEF Init
<1>2. ASSUME NEW i \in SUBSET Evidence, NEW gap \in GapStatus
      PROVE  /\ NewReview(i, gap) \in ReviewType /\ NewReview(i, gap).rounds = 0
             /\ NewReview(i, gap).inFlight = 0 /\ NewReview(i, gap).items = 0
             /\ NewReview(i, gap).held = i
  <2>1. New(i, gap) \in ReviewType
    <3>1. << >> \in Seq(EventType)
      OBVIOUS
    <3> QED BY <1>2, <3>1 DEF ReviewType, DecisionAction
  <2>2. "INITIAL_REVIEW" \in EventNames /\ "GAP_IDENTIFIED" \in EventNames
    BY DEF EventNames
  <2> HIDE DEF New
  <2>3. /\ Append2(New(i, gap), "INITIAL_REVIEW", "GAP_IDENTIFIED") \in ReviewType
        /\ Keeps(Append2(New(i, gap), "INITIAL_REVIEW", "GAP_IDENTIFIED"), New(i, gap))
    BY <2>1, <2>2, Append2Facts
  <2> QED BY <2>3 DEF NewReview, New, Keeps
<1>3. PICK gap \in [Reviews -> GapStatus] :
        review = [r \in Reviews |-> NewReview(initial[r], gap[r])]
  BY DEF Init
<1> HIDE DEF New
<1>4. ASSUME NEW r \in Reviews
      PROVE  /\ review[r] \in ReviewType /\ review[r].rounds = 0 /\ review[r].inFlight = 0
             /\ review[r].items = 0 /\ review[r].held = initial[r]
  BY <1>1, <1>2, <1>3
<1>5. review \in [Reviews -> ReviewType]
  BY <1>3, <1>4
<1>6. next = review /\ stored = [r \in Reviews |-> review[r].events]
      /\ pc = [r \in Reviews |-> "idle"] /\ issued = [r \in Reviews |-> FALSE]
      /\ fetched = [r \in Reviews |-> 0] /\ available = [r \in Reviews |-> TRUE]
  BY DEF Init
<1>7. TypeOK
  <2>1. stored \in [Reviews -> Seq(EventType)]
    <3>1. \A r \in Reviews : review[r].events \in Seq(EventType)
      BY <1>4 DEF ReviewType
    <3> QED BY <1>6, <3>1
  <2>2. open \in BOOLEAN /\ faults \in 0..MaxFaults /\ paid \in [Reviews -> Nat]
    <3>1. open = FALSE /\ faults = 0 /\ paid = [r \in Reviews |-> 0]
      BY DEF Init
    <3>2. MaxFaults \in Nat
      BY RecoveryAssumption
    <3>3. open \in BOOLEAN
      BY <3>1
    <3>4. faults \in 0..MaxFaults /\ paid \in [Reviews -> Nat]
      BY <3>1, <3>2
    <3> QED BY <3>3, <3>4
  <2> QED BY <1>1, <1>4, <1>5, <1>6, <2>1, <2>2 DEF TypeOK, Pcs
<1>8. ASSUME NEW r \in Reviews
      PROVE  ReviewInvariant(r)
  <2>1. Cardinality(initial[r] \ initial[r]) = 0
    BY FS_EmptySet
  <2>2. Within(review[r], initial[r])
    <3>1. MaxRounds \in Nat /\ MaxItems \in Nat
      BY RecoveryAssumption
    <3>2. /\ review[r].rounds = 0 /\ review[r].items = 0 /\ review[r].held = initial[r]
      BY <1>4
    <3> QED BY <2>1, <3>1, <3>2 DEF Within
  <2>3. Cardinality(At(stored[r], "ROUND_RESERVED")) \in Nat
    <3>1. stored[r] \in Seq(EventType)
      BY <1>7 DEF TypeOK
    <3> QED BY <3>1, CountGrows DEF Grows
  <2>4. LogOf(r)
    BY <1>6 DEF LogOf, InSync, Appending
  <2>5. RoundOf(r)
    BY <1>4, <1>6, <2>2 DEF RoundOf, InSync, Appending
  <2>6. CallsOf(r) /\ ConsentOf(r)
    BY <1>4, <1>6, <2>3 DEF CallsOf, ConsentOf
  <2> QED BY <2>4, <2>5, <2>6 DEF ReviewInvariant
<1> QED BY <1>7, <1>8 DEF RecoveryInvariant

LEMMA RecoveryStep == RecoveryInvariant /\ [Next]_vars => RecoveryInvariant'
<1> SUFFICES ASSUME RecoveryInvariant, [Next]_vars PROVE RecoveryInvariant'
  OBVIOUS
<1>1. ASSUME NEW r \in Reviews, ReserveRound(r) \/ Proceed(r) \/ AppendFaults(r)
      PROVE  RecoveryInvariant'
  BY <1>1, ReserveStep, PersistStep, FailStep, RoundStep, IssueStep, ExecuteStep DEF Proceed
<1>2. CASE Crash
  BY <1>2, CrashStep
<1>3. CASE UNCHANGED vars
  BY <1>3 DEF vars, store, authority, RecoveryInvariant, TypeOK, ReviewInvariant, LogOf, RoundOf,
     InSync, CallsOf, ConsentOf
<1> QED BY <1>1, <1>2, <1>3 DEF Next

-----------------------------------------------------------------------------
(* Theorems *)

\* Reviews, the local states of requests and the store keep their types, and a
\* reserved round is the last one used.
THEOREM RecoveryTypeCorrect == Spec => []TypeOK
<1>1. RecoveryInvariant => TypeOK
  BY DEF RecoveryInvariant
<1> QED BY <1>1, RecoveryStart, RecoveryStep, PTL DEF Spec

\* For any number of reviews that share the store, whatever it fails to do and
\* whenever the process dies: no evidence is asked for and no capability issued
\* unless the store has the reservation and the ALLOW they rest on.
THEOREM RecoveryProvenanceComesFirst == Spec => []ProvenanceComesFirst
<1>1. RecoveryInvariant => ProvenanceComesFirst
  <2> SUFFICES ASSUME RecoveryInvariant, NEW r \in Reviews
               PROVE  /\ fetched[r] <= Cardinality(Logged(r, "ROUND_RESERVED"))
                      /\ issued[r] =>
                           /\ \E i \in Logged(r, "REVIEW_RESOLVED") : stored[r][i].decision = "ALLOW"
                           /\ initial[r] \subseteq review[r].held
    BY DEF ProvenanceComesFirst
  <2>1. CallsOf(r) /\ ConsentOf(r)
    BY DEF RecoveryInvariant, ReviewInvariant
  <2>2. \A name : Logged(r, name) = At(stored[r], name)
    BY DEF Logged, At
  <2> QED BY <2>1, <2>2 DEF CallsOf, ConsentOf, TellsAllow
<1> QED BY <1>1, RecoveryStart, RecoveryStep, PTL DEF Spec

\* The budgets of rounds and of new evidence hold over all rounds of a review.
THEOREM RecoveryBudgetsHold == Spec => []BudgetsHold
<1>1. RecoveryInvariant => BudgetsHold
  BY DEF RecoveryInvariant, ReviewInvariant, RoundOf, CallsOf, Within, BudgetsHold
<1> QED BY <1>1, RecoveryStart, RecoveryStep, PTL DEF Spec

\* As long as a review is available, what it is between requests is in the store.
THEOREM RecoveryStoreExplainsReview == Spec => []StoreExplainsReview
<1>1. RecoveryInvariant => StoreExplainsReview
  BY DEF RecoveryInvariant, ReviewInvariant, LogOf, RoundOf, InSync, StoreExplainsReview
<1> QED BY <1>1, RecoveryStart, RecoveryStep, PTL DEF Spec

\* A resolved review waits for nothing but the link of its execution, which leaves
\* decision and evidence alone; and a capability is issued behind the append of a round,
\* which a resolved review does not get any more.
LEMMA ResolvedStays ==
  ASSUME RecoveryInvariant, NEW r \in Reviews, review[r].action # "REVIEW", Next
  PROVE  review'[r].action = review[r].action /\ review'[r].held = review[r].held
<1>1. ReviewInvariant(r) /\ review \in [Reviews -> ReviewType]
  BY DEF RecoveryInvariant, TypeOK
<1>2. CASE UNCHANGED review
  BY <1>2
<1>3. ASSUME NEW q \in Reviews, ReserveRound(q)
      PROVE  review'[r] = review[r]
  <2>1. q # r
    BY <1>3 DEF ReserveRound, MayReserve
  <2> DEFINE reserved == Append2(Reserved(review[q]), "ROUND_RESERVED", "SOURCE_SELECTED")
  <2>2. review' = [review EXCEPT ![q] = reserved]
    BY <1>3 DEF ReserveRound
  <2> HIDE DEF reserved
  <2> QED BY <1>1, <2>1, <2>2
<1>4. ASSUME NEW q \in Reviews, Persist(q)
      PROVE  review'[r].action = review[r].action /\ review'[r].held = review[r].held
  <2>1. review' = [review EXCEPT ![q] = next[q]] /\ pc[q] \in {"reserved", "completed", "linked"}
    BY <1>4 DEF Persist, Appending
  <2>2. CASE q # r
    BY <1>1, <2>1, <2>2
  <2>3. CASE q = r
    <3>1. pc[r] = "linked"
      BY <1>1, <2>1, <2>3 DEF ReviewInvariant, RoundOf
    <3>2. next[r].action = review[r].action /\ next[r].held = review[r].held
      BY <1>1, <3>1 DEF ReviewInvariant, RoundOf, Keeps
    <3> QED BY <1>1, <2>1, <2>3, <3>2
  <2> QED BY <2>2, <2>3
<1>5. ASSUME review' # review
      PROVE  \E q \in Reviews : ReserveRound(q) \/ Persist(q)
  <2>1. ASSUME NEW q \in Reviews, AppendFaults(q) \/ AppendBlocked(q) \/ Rollback(q)
        PROVE  UNCHANGED review
    BY <2>1 DEF AppendFaults, AppendBlocked, Rollback
  <2>2. ASSUME NEW q \in Reviews,
               \/ StopAtPreflight(q) \/ AcquisitionRaises(q) \/ AcquireIncomplete(q)
               \/ AcquireUncovered(q) \/ AuthorizationRaises(q) \/ Reauthorize(q)
        PROVE  UNCHANGED review
    BY <2>2 DEF StopAtPreflight, AcquisitionRaises, AcquireIncomplete, AcquireUncovered,
       AuthorizationRaises, Reauthorize
  <2>3. ASSUME NEW q \in Reviews, Issue(q) \/ IssueFails(q) \/ Execute(q) \/ ExecuteRaises(q)
        PROVE  UNCHANGED review
    BY <2>3 DEF Issue, IssueFails, Execute, ExecuteRaises
  <2>4. ASSUME Crash
        PROVE  UNCHANGED review
    BY <2>4 DEF Crash
  <2> QED BY <1>5, <2>1, <2>2, <2>3, <2>4 DEF Next, Proceed
<1> QED BY <1>2, <1>3, <1>4, <1>5

\* Once a review is resolved, no later request changes its decision or its evidence, and
\* at most one capability is issued on it, for any number of reviews, faults and crashes.
THEOREM RecoveryResolvedOnce == Spec => ResolvedOnce
<1>1. RecoveryInvariant /\ [Next]_vars =>
        [\A r \in Reviews :
           /\ review[r].action # "REVIEW" =>
                review'[r].action = review[r].action /\ review'[r].held = review[r].held
           /\ Issue(r) => ~issued[r]]_vars
  <2> SUFFICES ASSUME RecoveryInvariant, Next, NEW r \in Reviews
               PROVE  /\ review[r].action # "REVIEW" =>
                           review'[r].action = review[r].action /\ review'[r].held = review[r].held
                      /\ Issue(r) => ~issued[r]
    OBVIOUS
  <2>1. Issue(r) => ~issued[r]
    BY DEF RecoveryInvariant, ReviewInvariant, ConsentOf, Issue
  <2> QED BY <2>1, ResolvedStays
<1> QED BY <1>1, RecoveryStart, RecoveryStep, PTL DEF Spec, ResolvedOnce

-----------------------------------------------------------------------------
(* What an acquisition makes of a delivery *)

\* The sources asked for that nothing is wrong with, and of them one of each identity.
ValidOf(registry, ids, merchant, skus, t) ==
  {s \in {x \in registry : x.id \in ids} : Standing(s, registry, merchant, skus, t) = "VALID"}

SelectedOf(registry, ids, merchant, skus, t) ==
  Distinct(ValidOf(registry, ids, merchant, skus, t))

\* What verified sources deliver of the records that apply.
EntriesOf(selected, applicable, delivery) ==
  UNION {{e \in Scoped(s, delivery) :
            \E d \in applicable : d.source = s /\ d.record.entry.id = e.id} : s \in selected}

\* What a complete batch b rests on.
Settled(b, selected, applicable, held, limit, delivery) ==
  /\ b.calls = 1 /\ applicable # {}
  /\ ~Conflicting(applicable) /\ ~Ambiguous(applicable)
  /\ ~Exceeds({d.record.entry.id : d \in applicable}, held, limit)
  /\ \A s \in selected : Verified(s, delivery) = "ACQUIRED"
  /\ Ids(b.entries) = {d.record.entry.id : d \in applicable}
  /\ b.entries = EntriesOf(selected, applicable, delivery)

\* A complete batch comes from the last case of an acquisition: every other case has an
\* item that is not acquired, or a conflict.
LEMMA CompleteAcquisition ==
  ASSUME NEW registry, NEW ids, NEW merchant, NEW skus, NEW held, NEW limit, NEW t,
         NEW delivery
  PROVE  LET b == Acquire(registry, ids, merchant, skus, held, limit, t, delivery)
             selected == SelectedOf(registry, ids, merchant, skus, t)
         IN  /\ b.calls \in {0, 1}
             /\ IsComplete(b) =>
                  Settled(b, selected, Applicable(selected, t), held, limit, delivery)
<1> DEFINE requested == {s \in registry : s.id \in ids}
           standing(s) == Standing(s, registry, merchant, skus, t)
           selected == Distinct({s \in requested : standing(s) = "VALID"})
           applicable == Applicable(selected, t)
           expected == {d.record.entry.id : d \in applicable}
           invalid == {Item(id, "NO_RECORD") : id \in ids \ Ids(requested)}
                      \union {Item(s.id, standing(s)) : s \in {x \in requested : standing(x) # "VALID"}}
           early(status, calls) ==
             Batch(invalid \union {Item(s.id, status) : s \in selected}, expected, {}, FALSE, calls)
           verified == {s \in selected : Verified(s, delivery) = "ACQUIRED"}
           conflict == Conflicting(applicable)
           ambiguous == Ambiguous(applicable)
           exceeds == Exceeds(expected, held, limit)
           answers == {Item(s.id, IF conflict /\ s \in verified THEN "CONFLICT"
                                  ELSE Verified(s, delivery)) : s \in selected}
           From(s) == {e \in Scoped(s, delivery) :
                         \E d \in applicable : d.source = s /\ d.record.entry.id = e.id}
           b == Acquire(registry, ids, merchant, skus, held, limit, t, delivery)
<1>1. selected = SelectedOf(registry, ids, merchant, skus, t)
  BY DEF SelectedOf, ValidOf
<1>2. b = IF selected # {} /\ expected = {} THEN early("SOURCE_EXPIRED", 0)
          ELSE IF ambiguous
          THEN [early("CONFLICT", 0) EXCEPT !.conflict = TRUE,
                                            !.items = {Item(i.id, "CONFLICT") : i \in @}]
          ELSE IF exceeds THEN early("BUDGET_INSUFFICIENT", 0)
          ELSE IF selected = {} THEN early("NO_RECORD", 0)
          ELSE IF delivery = Raised THEN early("SOURCE_UNAVAILABLE", 1)
          ELSE Batch(invalid \union answers, expected,
                     IF conflict THEN {} ELSE UNION {From(s) : s \in verified}, conflict, 1)
  BY Zenon DEF Acquire
<1>3. ASSUME NEW i \in invalid
      PROVE  i.status # "ACQUIRED"
  <2>1. \A s : standing(s) \in {"WRONG_BINDING", "SOURCE_SUPERSEDED", "SOURCE_NOT_EFFECTIVE",
                                "SOURCE_EXPIRED", "VALID"}
    BY DEF Standing
  <2>2. \A id, status : Item(id, status).status = status
    BY DEF Item
  <2>3. \/ \E id : i = Item(id, "NO_RECORD")
        \/ \E s : standing(s) # "VALID" /\ i = Item(s.id, standing(s))
    BY <1>3
  <2> HIDE DEF standing
  <2> QED BY <2>1, <2>2, <2>3
<1>4. ambiguous \in BOOLEAN /\ exceeds \in BOOLEAN /\ conflict \in BOOLEAN
  BY DEF Ambiguous, Exceeds, Conflicting
<1> HIDE DEF b, invalid, selected, ambiguous, exceeds, conflict, expected
<1>5. ASSUME NEW status, status # "ACQUIRED", NEW calls \in {0, 1}, b = early(status, calls)
      PROVE  b.calls = calls /\ ~IsComplete(b)
  <2>1. b.calls = calls /\ b.items = invalid \union {Item(s.id, status) : s \in selected}
    BY <1>5 DEF Batch
  <2> QED BY <1>3, <1>5, <2>1 DEF IsComplete, Item
<1>6. ASSUME b = [early("CONFLICT", 0) EXCEPT !.conflict = TRUE,
                                              !.items = {Item(i.id, "CONFLICT") : i \in @}]
      PROVE  b.calls = 0 /\ ~IsComplete(b)
  <2>1. b.calls = 0 /\ b.conflict = TRUE
    BY <1>6 DEF Batch
  <2> QED BY <2>1 DEF IsComplete
<1>7. ASSUME expected # {}, ~ambiguous, ~exceeds, selected # {},
             b = Batch(invalid \union answers, expected,
                       IF conflict THEN {} ELSE UNION {From(s) : s \in verified}, conflict, 1)
      PROVE  /\ b.calls = 1
             /\ IsComplete(b) =>
                  /\ ~conflict /\ \A s \in selected : Verified(s, delivery) = "ACQUIRED"
                  /\ Ids(b.entries) = expected
                  /\ b.entries = UNION {From(s) : s \in selected}
  <2> HIDE DEF From
  <2>1. /\ b.calls = 1 /\ b.items = invalid \union answers /\ b.expected = expected
        /\ b.conflict = conflict
        /\ b.entries = IF conflict THEN {} ELSE UNION {From(s) : s \in verified}
    BY <1>7 DEF Batch
  <2>2. ASSUME IsComplete(b)
        PROVE  /\ ~conflict /\ \A s \in selected : Verified(s, delivery) = "ACQUIRED"
               /\ Ids(b.entries) = expected
               /\ b.entries = UNION {From(s) : s \in selected}
    <3>1. ~conflict /\ Ids(b.entries) = expected
      BY <2>1, <2>2 DEF IsComplete
    <3>2. ASSUME NEW s \in selected
          PROVE  Verified(s, delivery) = "ACQUIRED"
      <4>1. Item(s.id, Verified(s, delivery)) \in b.items
        BY <2>1, <3>1
      <4> QED BY <2>2, <4>1 DEF IsComplete, Item
    <3>3. verified = selected
      BY <3>2
    <3> HIDE DEF verified
    <3> QED BY <2>1, <3>1, <3>2, <3>3
  <2> QED BY <2>1, <2>2
<1>8. /\ b.calls \in {0, 1}
      /\ IsComplete(b) =>
           /\ b.calls = 1 /\ expected # {} /\ ~conflict /\ ~ambiguous /\ ~exceeds
           /\ \A s \in selected : Verified(s, delivery) = "ACQUIRED"
           /\ Ids(b.entries) = expected
           /\ b.entries = UNION {From(s) : s \in selected}
  <2> HIDE DEF early, From, answers, verified
  <2>1. CASE selected # {} /\ expected = {}
    BY <1>2, <1>5, <2>1
  <2>2. CASE ~(selected # {} /\ expected = {}) /\ ambiguous
    BY <1>2, <1>6, <2>2
  <2>3. CASE ~(selected # {} /\ expected = {}) /\ ~ambiguous /\ exceeds
    BY <1>2, <1>5, <2>3
  <2>4. CASE ~ambiguous /\ ~exceeds /\ selected = {}
    BY <1>2, <1>5, <2>4
  <2>5. CASE expected # {} /\ ~ambiguous /\ ~exceeds /\ selected # {} /\ delivery = Raised
    BY <1>2, <1>5, <2>5
  <2>6. CASE expected # {} /\ ~ambiguous /\ ~exceeds /\ selected # {} /\ delivery # Raised
    BY <1>2, <1>7, <2>6
  <2> QED BY <2>1, <2>2, <2>3, <2>4, <2>5, <2>6
<1>9. applicable # {} <=> expected # {}
  BY DEF expected
<1>10. UNION {From(s) : s \in selected} = EntriesOf(selected, applicable, delivery)
  BY DEF EntriesOf
<1> HIDE DEF From, applicable
<1> QED BY <1>1, <1>8, <1>9, <1>10 DEF Settled, applicable, b, expected, conflict, ambiguous, exceeds

\* What is complete is, word by word, what the sources' manifests declare to apply.
LEMMA CompleteEntries ==
  ASSUME NEW registry, \A s \in registry : ValidManifest(s),
         NEW selected \in SUBSET registry, NEW applicable \in SUBSET Declared(selected),
         NEW b, NEW held, NEW limit, NEW delivery,
         Settled(b, selected, applicable, held, limit, delivery)
  PROVE  b.entries = {d.record.entry : d \in applicable}
<1> DEFINE entries == b.entries
<1>1. /\ \A s \in selected : Verified(s, delivery) = "ACQUIRED"
      /\ entries = EntriesOf(selected, applicable, delivery)
  BY DEF Settled
<1> HIDE DEF entries
<1>3. ASSUME NEW s \in selected
      PROVE  /\ Scoped(s, delivery) = {r.entry : r \in s.records}
             /\ \A q, r \in s.records : q.entry.id = r.entry.id => q = r
  BY <1>1 DEF Verified, ValidManifest
<1>4. ASSUME NEW d \in applicable
      PROVE  d.source \in selected /\ d.record \in d.source.records
  BY DEF Declared
<1>5. ASSUME NEW d \in applicable
      PROVE  d.record.entry \in entries
  BY <1>1, <1>3, <1>4 DEF EntriesOf
<1>6. ASSUME NEW e \in entries
      PROVE  \E d \in applicable : e = d.record.entry
  <2>1. PICK s \in selected, d \in applicable :
          e \in Scoped(s, delivery) /\ d.source = s /\ d.record.entry.id = e.id
    BY <1>1 DEF EntriesOf
  <2>2. PICK r \in s.records : e = r.entry
    BY <1>3, <2>1
  <2>3. r = d.record
    BY <1>3, <1>4, <2>1, <2>2
  <2> QED BY <2>2, <2>3
<1>7. entries = {d.record.entry : d \in applicable}
  BY <1>5, <1>6
<1> QED BY <1>7 DEF entries

-----------------------------------------------------------------------------
(* The sources of a review *)

\* The constructor of a registry refuses what could leave two authorities for one scope:
\* at no time does an acquisition select two sources of a scope, so that an entry of a
\* delivery is verified by at most one manifest, and contradictions of one scope cannot
\* be between manifests.  It is what _validate_scope_partition and
\* _validate_manifest_supersession are for.
THEOREM OneSourcePerScope ==
  ASSUME NEW registry \in Registries, NEW ids, NEW merchant, NEW skus, NEW t \in Int,
         NEW s \in SelectedOf(registry, ids, merchant, skus, t),
         NEW o \in SelectedOf(registry, ids, merchant, skus, t),
         s.scope = o.scope
  PROVE  s = o
<1> DEFINE valid == ValidOf(registry, ids, merchant, skus, t)
<1>1. /\ s \in valid /\ o \in valid
      /\ Identity(o) = Identity(s) => s.id <= o.id /\ o.id <= s.id
  BY DEF SelectedOf, Distinct
<1>2. ASSUME NEW x \in valid
      PROVE  /\ x \in registry /\ x.merchant = merchant /\ x.id \notin Retired(registry, t)
             /\ x.id \in Int /\ x.from \in Int /\ x.until \in Int
             /\ x.from <= t /\ t < x.until
  <2>1. x \in registry /\ Standing(x, registry, merchant, skus, t) = "VALID"
    BY DEF ValidOf
  <2>2. x.id \in Int /\ x.from \in Int /\ x.until \in Int
    BY <2>1, AcquisitionAssumption
  <2> QED BY <2>1, <2>2 DEF Standing
<1> HIDE DEF valid
<1>3. SameScope(s, o) /\ Overlapping(s, o)
  BY <1>1, <1>2 DEF SameScope, Overlapping
<1>4. s.supersedes # o.id /\ o.supersedes # s.id
  BY <1>1, <1>2 DEF Retired
<1>5. ValidPartition(registry) /\ \A p, q \in registry : p.id = q.id => p = q
  BY AcquisitionAssumption DEF Constructible
<1>6. s = o \/ Identity(s) = Identity(o)
  BY <1>1, <1>2, <1>3, <1>4, <1>5 DEF ValidPartition
<1> QED BY <1>1, <1>2, <1>5, <1>6


\* Sources only change by what the clock makes of them.
RegistryInvariant ==
  sources \in Registries /\ clock \in Nat /\ startedAt \in [Reviews -> Nat]

LEMMA RegistryStart == RecoveryInit => RegistryInvariant
BY DEF RecoveryInit, RegistryInvariant

LEMMA RegistryStep ==
  RegistryInvariant /\ [RecoveryNext]_<<vars, evidence>> => RegistryInvariant'
BY DEF RegistryInvariant, RecoveryNext, BeginRound, Acquisition, Tick, evidence

LEMMA LeastNumber ==
  ASSUME NEW T \in SUBSET Nat, T # {}
  PROVE  \E m \in T : \A k \in T : m <= k
<1> DEFINE R == OpToRel(<, Nat)
<1>1. \A p : p \in R <=> p \in Nat \X Nat /\ p[1] < p[2]
  BY DEF OpToRel
<1>2. IsWellFoundedOn(R, Nat)
  BY NatLessThanWellFounded
<1> HIDE DEF R
<1>3. PICK m \in T : \A k \in T : <<k, m>> \notin R
  BY <1>2, WFMin
<1>4. \A k \in T : ~(k < m)
  <2>1. \A k \in T : <<k, m>> \in Nat \X Nat /\ <<k, m>>[1] = k /\ <<k, m>>[2] = m
    OBVIOUS
  <2> QED BY <1>1, <1>3, <2>1
<1> QED BY <1>4

\* Aliases count once, but at least once.
LEMMA EverySourceCounts ==
  ASSUME NEW S, \A s \in S : s.id \in Nat, NEW s \in S
  PROVE  \E o \in Distinct(S) : o \in S /\ Identity(o) = Identity(s)
<1> DEFINE aliases == {o \in S : Identity(o) = Identity(s)}
           numbers == {o.id : o \in aliases}
<1>1. numbers \in SUBSET Nat /\ numbers # {}
  OBVIOUS
<1>2. PICK m \in numbers : \A k \in numbers : m <= k
  BY <1>1, LeastNumber
<1>3. PICK o \in aliases : o.id = m
  OBVIOUS
<1>4. o \in Distinct(S)
  <2> SUFFICES ASSUME NEW q \in S, Identity(q) = Identity(o) PROVE o.id <= q.id
    BY DEF Distinct
  <2>1. q.id \in numbers
    OBVIOUS
  <2> QED BY <1>2, <1>3, <2>1
<1> QED BY <1>4

\* The sources that a review asks and that are authorities are the valid ones, and for
\* each of them a source like it is selected.
LEMMA AskedSources ==
  ASSUME RegistryInvariant, NEW r \in Reviews
  PROVE  LET selected == SelectedOf(sources, chosen[r], Merchant, Skus, startedAt[r])
         IN  /\ selected \subseteq Asked(r)
             /\ \A s \in Asked(r) : \E o \in selected : Identity(o) = Identity(s)
<1> DEFINE valid == ValidOf(sources, chosen[r], Merchant, Skus, startedAt[r])
<1>1. \A s \in sources : s.id \in Nat /\ s.from \in Int /\ s.until \in Int
  BY AcquisitionAssumption DEF RegistryInvariant
<1>2. ASSUME NEW s \in sources
      PROVE  Authority(s, startedAt[r]) <=> Standing(s, sources, Merchant, Skus, startedAt[r]) = "VALID"
  <2>1. s.id \in Retired(sources, startedAt[r]) <=> \E o \in sources : o.supersedes = s.id /\ o.from <= startedAt[r]
    BY DEF Retired
  <2>2. InForce(s, startedAt[r]) <=> ~(startedAt[r] < s.from) /\ ~(startedAt[r] >= s.until)
    BY <1>1 DEF InForce, RegistryInvariant
  <2> QED BY <2>1, <2>2 DEF Authority, Standing
<1>3. valid = Asked(r)
  BY <1>2 DEF ValidOf, Asked
<1>4. Distinct(valid) \subseteq valid
  BY DEF Distinct
<1>5. \A s \in valid : s.id \in Nat
  BY <1>1 DEF ValidOf
<1> HIDE DEF valid
<1>6. \A s \in valid : \E o \in Distinct(valid) : Identity(o) = Identity(s)
  BY <1>5, EverySourceCounts
<1>7. SelectedOf(sources, chosen[r], Merchant, Skus, startedAt[r]) = Distinct(valid)
  BY DEF SelectedOf, valid
<1> QED BY <1>3, <1>4, <1>6, <1>7

\* Records do not tell aliases apart.
LEMMA AliasDeclares ==
  ASSUME NEW S, NEW d \in Declared(S), NEW T, NEW o \in T, Identity(o) = Identity(d.source)
  PROVE  \E x \in Declared(T) : x.source = o /\ x.record = d.record
<1> DEFINE x == [source |-> o, record |-> d.record]
<1>1. d.record \in d.source.records
  BY DEF Declared
<1>2. o.records = d.source.records
  BY DEF Identity
<1>3. x \in Declared(T)
  BY <1>1, <1>2 DEF Declared
<1> QED BY <1>3

LEMMA AcquiredAuthority == RegistryInvariant => AcquiredIsAuthoritative
<1> SUFFICES ASSUME RegistryInvariant, NEW r \in Reviews, NEW delivery \in Deliveries(sources),
                    IsComplete(BatchFor(r, delivery))
             PROVE  LET vouching == Vouching(r)
                        b == BatchFor(r, delivery)
                    IN  /\ b.entries \subseteq {d.record.entry : d \in vouching}
                        /\ \A d, e \in {v \in vouching : v.record.entry \in b.entries} :
                             Contradictory(d, e) =>
                               Cardinality({d.source.scope, e.source.scope} \ {Global}) = 2
                        /\ \A d \in vouching :
                             d.record.entry \in b.entries \/ d.record.entry.id \in Replaced(r)
  BY DEF AcquiredIsAuthoritative
<1> DEFINE b == BatchFor(r, delivery)
           selected == SelectedOf(sources, chosen[r], Merchant, Skus, startedAt[r])
           applicable == Applicable(selected, startedAt[r])
           replaced == {d.record.supersedes : d \in {x \in Declared(selected) : x.record.from <= startedAt[r]}}
<1>1. \A s \in sources : ValidManifest(s)
  BY AcquisitionAssumption DEF RegistryInvariant, Constructible
<1>2. Settled(b, selected, applicable, review[r].held, MaxItems - review[r].items, delivery)
  BY CompleteAcquisition DEF BatchFor
<1>3. ~Conflicting(applicable) /\ b.entries = {d.record.entry : d \in applicable}
  <2>1. selected \subseteq sources /\ applicable \subseteq Declared(selected)
    BY DEF SelectedOf, ValidOf, Distinct, Applicable
  <2> HIDE DEF b, selected, applicable
  <2>2. b.entries = {d.record.entry : d \in applicable}
    BY <1>1, <1>2, <2>1, CompleteEntries
  <2> QED BY <1>2, <2>2 DEF Settled
<1>4. /\ selected \subseteq Asked(r)
      /\ \A s \in Asked(r) : \E o \in selected : Identity(o) = Identity(s)
  BY AskedSources
<1>5. applicable = {d \in Declared(selected) :
                      InForce(d.record, startedAt[r]) /\ d.record.entry.id \notin replaced}
  BY DEF Applicable
<1> HIDE DEF b, selected, applicable, replaced
<1>6. Declared(selected) \subseteq Declared(Asked(r))
  BY <1>4 DEF Declared
<1>7. replaced \subseteq Replaced(r)
  BY <1>6 DEF replaced, Replaced
<1>8. b.entries \subseteq {d.record.entry : d \in Vouching(r)}
  BY <1>3, <1>5, <1>6 DEF Vouching
\* For what a source vouches for, a selected source like it vouches as well.
<1>9. ASSUME NEW d \in Vouching(r)
      PROVE  \E x \in Declared(selected) :
               /\ x.record = d.record /\ InForce(x.record, startedAt[r])
               /\ x.source.scope = d.source.scope /\ x.source.merchant = Merchant
  <2>1. d \in Declared(Asked(r)) /\ InForce(d.record, startedAt[r])
    BY DEF Vouching
  <2>2. d.source \in Asked(r)
    BY <2>1 DEF Declared
  <2>3. PICK o \in selected : Identity(o) = Identity(d.source)
    BY <1>4, <2>2
  <2>4. o.scope = d.source.scope /\ o.merchant = d.source.merchant
    BY <2>3 DEF Identity
  <2>5. d.source.merchant = Merchant
    BY <2>2 DEF Asked, Authority
  <2> QED BY <2>1, <2>3, <2>4, <2>5, AliasDeclares
<1>10. ASSUME NEW d \in Vouching(r)
       PROVE  d.record.entry \in b.entries \/ d.record.entry.id \in Replaced(r)
  BY <1>3, <1>5, <1>7, <1>9
<1>11. ASSUME NEW d \in Vouching(r), NEW e \in Vouching(r),
              d.record.entry \in b.entries, e.record.entry \in b.entries, Contradictory(d, e)
       PROVE  Cardinality({d.source.scope, e.source.scope} \ {Global}) = 2
  <2>1. PICK x \in Declared(selected) :
          /\ x.record = d.record /\ InForce(x.record, startedAt[r])
          /\ x.source.scope = d.source.scope /\ x.source.merchant = Merchant
    BY <1>9
  <2>2. PICK y \in Declared(selected) :
          /\ y.record = e.record /\ InForce(y.record, startedAt[r])
          /\ y.source.scope = e.source.scope /\ y.source.merchant = Merchant
    BY <1>9
  <2>3. x \in applicable /\ y \in applicable
    BY <1>3, <1>5, <1>11, <2>1, <2>2
  <2>4. Contradictory(x, y)
    BY <1>11, <2>1, <2>2 DEF Contradictory
  <2>5. x # y
    BY <2>4 DEF Contradictory
  <2>6. ~Governing(x.source, y.source)
    BY <1>3, <2>3, <2>4, <2>5 DEF Conflicting
  <2>7. /\ d.source.scope # Global /\ e.source.scope # Global
        /\ d.source.scope # e.source.scope
    BY <2>1, <2>2, <2>6 DEF Governing
  <2>8. {d.source.scope, e.source.scope} \ {Global} = {d.source.scope} \union {e.source.scope}
    BY <2>7
  <2>9. IsFiniteSet({d.source.scope}) /\ Cardinality({d.source.scope}) = 1
    BY FS_Singleton
  <2>10. Cardinality({d.source.scope} \union {e.source.scope}) = 2
    <3> DEFINE S == {d.source.scope}
               other == e.source.scope
    <3>1. other \notin S
      BY <2>7
    <3> HIDE DEF S, other
    <3>2. Cardinality(S \union {other}) = Cardinality(S) + 1
      BY <2>9, <3>1, FS_AddElement DEF S
    <3> QED BY <2>9, <3>2 DEF S, other
  <2> QED BY <2>8, <2>10
<1> QED BY <1>8, <1>10, <1>11 DEF b

LEMMA AcquisitionsFit == RegistryInvariant /\ TypeOK => AcquisitionFits
<1> SUFFICES ASSUME RegistryInvariant, TypeOK, NEW r \in Reviews, NEW delivery
             PROVE  LET b == BatchFor(r, delivery)
                    IN  /\ b.calls \in {0, 1}
                        /\ IsComplete(b) =>
                             b.calls = 1 /\ b.entries \in CompleteBatches(review[r])
  BY DEF AcquisitionFits
<1> DEFINE b == BatchFor(r, delivery)
           held == review[r].held
           limit == MaxItems - review[r].items
           selected == SelectedOf(sources, chosen[r], Merchant, Skus, startedAt[r])
           applicable == Applicable(selected, startedAt[r])
           expected == {d.record.entry.id : d \in applicable}
<1>1. /\ b.calls \in {0, 1}
      /\ IsComplete(b) => Settled(b, selected, applicable, held, limit, delivery)
  BY CompleteAcquisition DEF BatchFor
<1>2. ASSUME IsComplete(b)
      PROVE  b.calls = 1 /\ b.entries \in CompleteBatches(review[r])
  <2>1. \A s \in sources : ValidManifest(s)
    BY AcquisitionAssumption DEF RegistryInvariant, Constructible
  <2>2. b.entries = {d.record.entry : d \in applicable}
    <3>1. selected \subseteq sources /\ applicable \subseteq Declared(selected)
      BY DEF SelectedOf, ValidOf, Distinct, Applicable
    <3>2. Settled(b, selected, applicable, held, limit, delivery)
      BY <1>1, <1>2
    <3> HIDE DEF b, selected, applicable, held, limit
    <3> QED BY <2>1, <3>1, <3>2, CompleteEntries
  <2>3. limit \in Int /\ MaxItems \in Int
    BY RecoveryAssumption DEF TypeOK, ReviewType
  <2>4. applicable \subseteq Declared(sources)
    BY DEF Applicable, Declared, SelectedOf, ValidOf, Distinct
  <2>5. \A d \in Declared(sources) : d.record.entry \in Evidence
    BY AcquisitionAssumption DEF RegistryInvariant
  <2> HIDE DEF b, applicable, selected, limit
  <2>6. /\ b.calls = 1 /\ applicable # {} /\ ~Ambiguous(applicable)
        /\ ~Exceeds(expected, held, limit) /\ Ids(b.entries) = expected
    <3>1. Settled(b, selected, applicable, held, limit, delivery)
      BY <1>1, <1>2
    <3>2. b.calls = 1 /\ applicable # {} /\ ~Ambiguous(applicable)
      BY <3>1 DEF Settled
    <3>3. ~Exceeds(expected, held, limit)
      BY <3>1 DEF Settled
    <3>4. Ids(b.entries) = expected
      BY <3>1 DEF Settled
    <3> QED BY <3>2, <3>3, <3>4
  <2>7. b.entries \in (SUBSET Evidence) \ {{}}
    <3>1. b.entries \subseteq Evidence
      BY <2>2, <2>4, <2>5
    <3>2. b.entries # {}
      BY <2>2, <2>6
    <3> QED BY <3>1, <3>2
  <2>8. \A d, e \in b.entries : d.id = e.id => d = e
    BY <2>2, <2>6 DEF Ambiguous
  <2>9. Cardinality(NewIds(b.entries, held)) <= limit
    <3>1. NewIds(b.entries, held) = expected \ Ids(held)
      BY <2>6 DEF NewIds, Ids
    <3>2. IsFiniteSet(IdsOf(b.entries))
      BY <2>7, IdsAreCounted
    <3>3. IsFiniteSet(NewIds(b.entries, held))
      <4>1. NewIds(b.entries, held) \subseteq IdsOf(b.entries)
        BY DEF NewIds, IdsOf
      <4> QED BY <3>2, <4>1, FS_Subset
    <3>4. Cardinality(expected \ Ids(held)) \in Nat
      BY <3>1, <3>3, FS_CardinalityType
    <3> HIDE DEF expected
    <3> QED BY <2>3, <2>6, <3>1, <3>4 DEF Exceeds
  <2>10. CompleteBatches(review[r]) =
           {batch \in (SUBSET Evidence) \ {{}} :
              /\ \A d, e \in batch : d.id = e.id => d = e
              /\ Cardinality(NewIds(batch, held)) <= limit}
    BY DEF CompleteBatches, limit
  <2> QED BY <2>6, <2>7, <2>8, <2>9, <2>10
<1> QED BY <1>1, <1>2 DEF b

-----------------------------------------------------------------------------
(* The rounds of ReviewRecovery, with a registry *)

LEMMA RecoveryNextIsNext ==
  ASSUME [RecoveryNext]_<<vars, evidence>>
  PROVE  [Next]_vars
<1>1. ASSUME NEW r \in Reviews, Acquisition(r)
      PROVE  Next
  <2>1. AcquireIncomplete(r) \/ AcquireUncovered(r) \/ AuthorizationRaises(r) \/ Reauthorize(r)
    BY <1>1 DEF Acquisition, Incomplete, Uncovered, AuthorizationFails, Reauthorized
  <2> QED BY <2>1 DEF Next, Proceed
<1>2. ASSUME NEW r \in Reviews, Otherwise(r)
      PROVE  Next
  BY <1>2 DEF Otherwise, Next, Proceed
<1>3. CASE Tick
  BY <1>3 DEF Tick
<1>6. ASSUME NEW r \in Reviews, BeginRound(r)
      PROVE  Next
  BY <1>6 DEF BeginRound, Next
<1>4. CASE Crash
  BY <1>4 DEF Next
<1>5. CASE UNCHANGED <<vars, evidence>>
  BY <1>5
<1> QED BY <1>1, <1>2, <1>3, <1>4, <1>5, <1>6 DEF RecoveryNext

\* Recovery with a registry of sources that expire, take effect and replace each other,
\* and with whatever is delivered, is a recovery as ReviewRecovery describes it: no step
\* of the registry does what that module's choices leave out.
THEOREM AcquisitionImplementsRecovery == RecoverySpec => Spec
<1>1. RecoveryInit => Init
  BY DEF RecoveryInit
<1>2. [RecoveryNext]_<<vars, evidence>> => [Next]_vars
  BY RecoveryNextIsNext
<1> QED BY <1>1, <1>2, PTL DEF RecoverySpec, Spec

\* What is proved of the rounds holds of them with a registry, too: no evidence is asked
\* for and no capability issued unless the store has what they rest on, and the budgets
\* hold over all rounds of a review, which is resolved once.
THEOREM AcquisitionKeepsRecoverySafe ==
  RecoverySpec => [](ProvenanceComesFirst /\ BudgetsHold) /\ ResolvedOnce
BY AcquisitionImplementsRecovery, RecoveryProvenanceComesFirst, RecoveryBudgetsHold,
   RecoveryResolvedOnce, PTL

\* For any registries, purchases and times, and whatever the provider delivers: a batch
\* that completes has only entries that a source in force vouches for, without a
\* contradiction between two of one scope, and leaves nothing out.
THEOREM RecoveryAcquiredIsAuthoritative == RecoverySpec => []AcquiredIsAuthoritative
BY RegistryStart, RegistryStep, AcquiredAuthority, PTL DEF RecoverySpec

\* A complete batch is one that ReviewRecovery admits: asked for once, with one entry of
\* each id, and with no more new ones than the budget has left.
THEOREM RecoveryAcquisitionFits == RecoverySpec => []AcquisitionFits
BY RegistryStart, RegistryStep, AcquisitionsFit, AcquisitionImplementsRecovery,
   RecoveryTypeCorrect, PTL DEF RecoverySpec
=============================================================================
