------------------------- MODULE MandateStateProofs -------------------------
(***************************************************************************)
(* Theorems about the consent registry, for every set of mandates,         *)
(* versions, times and nonces.                                             *)
(*                                                                         *)
(* Consistent is not inductive by itself: of a mandate without a pointer it *)
(* says nothing, and the first registration would make a pointer appear    *)
(* beside rows nobody has looked at.  NoOrphans closes that gap.            *)
(***************************************************************************)
EXTENDS MandateState, TLAPS

\* A mandate without a pointer has no row of any version.
NoOrphans == \A m \in Mandates : ~Registered(m) => \A v \in Versions : ~Present(m, v)

RegistryInvariant == RegistryTypeOK /\ Consistent /\ NoOrphans

-----------------------------------------------------------------------------
(* Lemmas: what the operators return *)

\* _store_state_unlocked writes rows of the table's shape.
LEMMA StoredRowType ==
  ASSUME NEW status \in MandateStatus, NEW t \in Times, NEW w \in Versions \union {0}
  PROVE  MandateState(status, t, w) \in RowType
BY RegistryAssumption DEF MandateState, RowType

\* _current_status_unlocked reports a status of an existing row, or None.
LEMMA ObservedStatusType ==
  ASSUME RegistryTypeOK, NEW m \in Mandates
  PROVE  ObservedStatus(m) \in MandateStatus \union {"NONE"}
<1>1. CASE Registered(m) /\ ConsistentRows(m)
  <2>1. current[m] \in Versions
    BY <1>1 DEF RegistryTypeOK, Registered
  <2>2. states[m][current[m]] \in RowType /\ states[m][current[m]].status # "ABSENT"
    BY <1>1, <2>1 DEF RegistryTypeOK, ConsistentRows, Present
  <2> QED
    BY <1>1, <2>2 DEF ObservedStatus, CurrentRow, RowType
<1>2. CASE ~(Registered(m) /\ ConsistentRows(m))
  BY <1>2 DEF ObservedStatus
<1> QED BY <1>1, <1>2

\* A transition's event has the shape of a log entry.
LEMMA StateEventType ==
  ASSUME NEW event \in Lifecycle, NEW v \in Versions, NEW t \in Times,
         NEW before \in MandateStatus \union {"NONE"},
         NEW after \in MandateStatus \union {"NONE"}
  PROVE  StateEvent(event, v, before, after, t) \in EventType
BY DEF StateEvent, EventType

\* _append_unlocked keeps the logs well-formed.
LEMMA AppendEventsType ==
  ASSUME RegistryTypeOK, NEW m \in Mandates, NEW events \in Seq(EventType),
         AppendEvents(m, events)
  PROVE  audit' \in [Mandates -> Seq(EventType)]
<1>1. audit[m] \o events \in Seq(EventType)
  BY DEF RegistryTypeOK
<1> QED BY <1>1 DEF AppendEvents, RegistryTypeOK

-----------------------------------------------------------------------------
(* Each operation preserves the invariant *)

LEMMA RegisterActivePreserves ==
  ASSUME RegistryInvariant, NEW m \in Mandates, NEW v \in Versions, NEW t \in Times,
         RegisterActive(m, v, t)
  PROVE  RegistryInvariant'
<1> USE DEF RegistryInvariant
<1>1. states' \in [Mandates -> [Versions -> RowType]]
  BY StoredRowType DEF RegisterActive, RegistryTypeOK, MandateStatus, Live
<1>2. current' \in [Mandates -> Versions \union {0}]
  BY DEF RegisterActive, RegistryTypeOK
<1>3. audit' \in [Mandates -> Seq(EventType)]
  <2>1. StateEvent("MANDATE_REGISTERED_ACTIVE", v, ObservedStatus(m), "ACTIVE", t) \in EventType
    BY ObservedStatusType, StateEventType DEF Lifecycle, MandateStatus, Live
  <2>2. << StateEvent("MANDATE_REGISTERED_ACTIVE", v, ObservedStatus(m), "ACTIVE", t) >>
          \in Seq(EventType)
    BY <2>1
  <2> QED BY <2>2, AppendEventsType DEF RegisterActive
<1>4. Consistent'
  <2> SUFFICES ASSUME NEW k \in Mandates PROVE ConsistentRows(k)'
    BY DEF Consistent
  <2>1. CASE k # m
    BY <2>1 DEF Consistent, ConsistentRows, Registered, Present, RegisterActive, RegistryTypeOK
  <2>2. CASE k = m
    <3>1. /\ states'[m] = [states[m] EXCEPT ![v] = MandateState("ACTIVE", t, 0)]
          /\ current'[m] = v
      BY DEF RegisterActive, RegistryTypeOK
    <3>2. \A w \in Versions : Present(m, w) => w < v
      <4>1. CASE Registered(m)
        <5>1. current[m] \in Nat /\ v \in Nat /\ Versions \subseteq Nat
          <6>1. current[m] \in Versions
            BY <4>1 DEF RegistryTypeOK, Registered
          <6> QED BY <6>1, RegistryAssumption
        <5>2. v > current[m] /\ \A w \in Versions : Present(m, w) => w <= current[m]
          BY <4>1 DEF RegisterActive, CanRegister, ConsistentRows
        <5> QED BY <5>1, <5>2
      <4>2. CASE ~Registered(m)
        BY <4>2 DEF NoOrphans
      <4> QED BY <4>1, <4>2
    <3>3. \A w \in Versions : states[m][w].status # "ACTIVE"
      BY DEF RegisterActive, CanRegister, Consistent, ConsistentRows, NoOrphans,
         CurrentRow, Present, Registered
    <3>4. \A w \in Versions :
            /\ w # v => states'[m][w] = states[m][w]
            /\ w = v => states'[m][w].status = "ACTIVE"
      BY <3>1 DEF MandateState, RegistryTypeOK
    <3> QED
      BY <2>2, <3>1, <3>2, <3>3, <3>4, RegistryAssumption DEF ConsistentRows, Registered, Present
  <2> QED BY <2>1, <2>2
<1>5. NoOrphans'
  BY RegistryAssumption DEF NoOrphans, Registered, Present, RegisterActive, RegistryTypeOK
<1> QED BY <1>1, <1>2, <1>3, <1>4, <1>5 DEF RegistryTypeOK

LEMMA RevokePreserves ==
  ASSUME RegistryInvariant, NEW m \in Mandates, NEW v \in Versions, NEW t \in Times,
         Revoke(m, v, t)
  PROVE  RegistryInvariant'
<1> USE DEF RegistryInvariant
<1>1. states' \in [Mandates -> [Versions -> RowType]]
  BY StoredRowType DEF Revoke, RegistryTypeOK, MandateStatus, Terminal
<1>2. current' = current
  BY DEF Revoke
<1>3. audit' \in [Mandates -> Seq(EventType)]
  <2>1. StateEvent("MANDATE_REVOKED", v, "ACTIVE", "REVOKED", t) \in EventType
    BY StateEventType DEF Lifecycle, MandateStatus, Live, Terminal
  <2>2. << StateEvent("MANDATE_REVOKED", v, "ACTIVE", "REVOKED", t) >> \in Seq(EventType)
    BY <2>1
  <2> QED BY <2>2, AppendEventsType DEF Revoke
<1>4. \A k \in Mandates, w \in Versions :
        /\ <<k, w>> # <<m, v>> => states'[k][w] = states[k][w]
        /\ states'[m][v].status = "REVOKED"
  BY DEF Revoke, RegistryTypeOK, MandateState
<1>5. v = current[m] /\ Registered(m)
  BY DEF Revoke, CanEnd
<1>6. Consistent'
  <2> SUFFICES ASSUME NEW k \in Mandates PROVE ConsistentRows(k)'
    BY DEF Consistent
  <2>1. ConsistentRows(k)
    BY DEF Consistent
  <2>2. \A u \in Versions :
          /\ states'[k][u].status = "ACTIVE" => states[k][u].status = "ACTIVE"
          /\ Present(k, u)' <=> Present(k, u)
    BY <1>4, <1>5 DEF Present, ConsistentRows, Revoke, CanEnd, CurrentRow
  <2>3. current[k] # 0 => current[k] \in Versions
    BY DEF RegistryTypeOK
  <2> QED BY <1>2, <2>1, <2>2, <2>3 DEF ConsistentRows, Registered
<1>7. NoOrphans'
  BY <1>2, <1>4, <1>5 DEF NoOrphans, Registered, Present
<1> QED BY <1>1, <1>2, <1>3, <1>6, <1>7 DEF RegistryTypeOK

LEMMA SupersedePreserves ==
  ASSUME RegistryInvariant, NEW m \in Mandates, NEW v \in Versions, NEW w \in Versions,
         NEW t \in Times, Supersede(m, v, w, t)
  PROVE  RegistryInvariant'
<1> USE DEF RegistryInvariant
<1>1. states' \in [Mandates -> [Versions -> RowType]]
  BY StoredRowType DEF Supersede, RegistryTypeOK, MandateStatus, Live, Terminal
<1>2. current' \in [Mandates -> Versions \union {0}]
  BY DEF Supersede, RegistryTypeOK
<1>3. audit' \in [Mandates -> Seq(EventType)]
  <2>1. /\ StateEvent("MANDATE_SUPERSEDED", v, "ACTIVE", "SUPERSEDED", t) \in EventType
        /\ StateEvent("MANDATE_REGISTERED_ACTIVE", w, "SUPERSEDED", "ACTIVE", t) \in EventType
    BY StateEventType DEF Lifecycle, MandateStatus, Live, Terminal
  <2>2. << StateEvent("MANDATE_SUPERSEDED", v, "ACTIVE", "SUPERSEDED", t),
           StateEvent("MANDATE_REGISTERED_ACTIVE", w, "SUPERSEDED", "ACTIVE", t) >>
          \in Seq(EventType)
    BY <2>1
  <2> QED BY <2>2, AppendEventsType DEF Supersede
<1>4. /\ w > v /\ v = current[m] /\ Registered(m) /\ ConsistentRows(m)
      /\ current'[m] = w
      /\ \A k \in Mandates : k # m => current'[k] = current[k]
  BY DEF Supersede, CanEnd, RegistryTypeOK
<1>5. /\ states'[m][v].status = "SUPERSEDED"
      /\ states'[m][w].status = "ACTIVE"
      /\ \A u \in Versions : u # v /\ u # w => states'[m][u] = states[m][u]
      /\ \A k \in Mandates : k # m => states'[k] = states[k]
  BY <1>4, RegistryAssumption DEF Supersede, RegistryTypeOK, MandateState
<1>6. Consistent'
  <2> SUFFICES ASSUME NEW k \in Mandates PROVE ConsistentRows(k)'
    BY DEF Consistent
  <2>1. CASE k # m
    BY <1>4, <1>5, <2>1 DEF Consistent, ConsistentRows, Registered, Present
  <2>2. CASE k = m
    <3>1. \A u \in Versions :
            /\ Present(m, u) => u <= v
            /\ states[m][u].status = "ACTIVE" => u = v
      BY <1>4 DEF ConsistentRows
    <3>2. \A u \in Versions : states'[m][u].status = "ACTIVE" => u = w
      BY <1>5, <3>1
    <3>3. \A u \in Versions : Present(m, u)' => u <= w
      <4> SUFFICES ASSUME NEW u \in Versions, Present(m, u)' PROVE u <= w
        OBVIOUS
      <4>1. u \in Nat /\ v \in Nat /\ w \in Nat
        BY RegistryAssumption
      <4>2. u = v \/ u = w \/ Present(m, u)
        BY <1>5 DEF Present
      <4> QED BY <1>4, <3>1, <4>1, <4>2
    <3> QED BY <1>4, <1>5, <2>2, <3>2, <3>3 DEF ConsistentRows, Registered, Present
  <2> QED BY <2>1, <2>2
<1>7. NoOrphans'
  BY <1>4, <1>5, RegistryAssumption DEF NoOrphans, Registered, Present
<1> QED BY <1>1, <1>2, <1>3, <1>6, <1>7 DEF RegistryTypeOK

LEMMA RecordExecutionRefusalPreserves ==
  ASSUME RegistryInvariant, NEW m \in Mandates, NEW v \in Versions, NEW t \in Times,
         NEW n \in Nonces, RecordExecutionRefusal(m, v, n, t)
  PROVE  RegistryInvariant'
<1> USE DEF RegistryInvariant
<1>1. [StateEvent("EXECUTION_REFUSED_MANDATE_STATE", v, ObservedStatus(m), ObservedStatus(m), t)
        EXCEPT !.nonce = n] \in EventType
  BY ObservedStatusType DEF StateEvent, EventType
<1>2. audit' \in [Mandates -> Seq(EventType)]
  <2>1. << [StateEvent("EXECUTION_REFUSED_MANDATE_STATE", v, ObservedStatus(m),
                       ObservedStatus(m), t) EXCEPT !.nonce = n] >> \in Seq(EventType)
    BY <1>1
  <2> QED BY <2>1, AppendEventsType DEF RecordExecutionRefusal
<1>3. UNCHANGED <<states, current>>
  BY DEF RecordExecutionRefusal
<1> QED
  BY <1>2, <1>3 DEF RegistryTypeOK, Consistent, ConsistentRows, NoOrphans, Registered, Present

-----------------------------------------------------------------------------
(* Theorems *)

LEMMA RegistryStart == RegistryInit => RegistryInvariant
<1> SUFFICES ASSUME RegistryInit PROVE RegistryInvariant
  OBVIOUS
<1>1. RegistryTypeOK
  BY DEF RegistryInit, RegistryTypeOK, NoRow, RowType
<1>2. Consistent /\ NoOrphans
  BY DEF RegistryInit, Consistent, ConsistentRows, NoOrphans, Registered, Present, NoRow
<1> QED BY <1>1, <1>2 DEF RegistryInvariant

LEMMA RegistryStep == RegistryInvariant /\ [RegistryNext]_registryVars => RegistryInvariant'
<1> SUFFICES ASSUME RegistryInvariant, [RegistryNext]_registryVars
             PROVE  RegistryInvariant'
  OBVIOUS
<1>1. CASE UNCHANGED registryVars
  BY <1>1 DEF registryVars, RegistryInvariant, RegistryTypeOK, Consistent, ConsistentRows,
     NoOrphans, Registered, Present
<1>2. CASE RegistryNext
  <2> SUFFICES ASSUME NEW m \in Mandates, NEW v \in Versions, NEW t \in Times,
                      \/ RegisterActive(m, v, t)
                      \/ Revoke(m, v, t)
                      \/ \E w \in Versions : Supersede(m, v, w, t)
                      \/ \E n \in Nonces : RecordExecutionRefusal(m, v, n, t)
               PROVE  RegistryInvariant'
    BY <1>2 DEF RegistryNext
  <2> QED
    BY RegisterActivePreserves, RevokePreserves, SupersedePreserves,
       RecordExecutionRefusalPreserves
<1> QED BY <1>1, <1>2

\* The tables and the log keep their shape through every sequence of calls.
THEOREM RegistryTypeCorrect == RegistrySpec => []RegistryTypeOK
<1>1. RegistryInvariant => RegistryTypeOK
  BY DEF RegistryInvariant
<1> QED BY RegistryStart, RegistryStep, <1>1, PTL DEF RegistrySpec

\* No sequence of calls leads to storage that get_current takes for corrupt.
THEOREM RegistryConsistent == RegistrySpec => []Consistent
<1>1. RegistryInvariant => Consistent
  BY DEF RegistryInvariant
<1> QED BY RegistryStart, RegistryStep, <1>1, PTL DEF RegistrySpec

-----------------------------------------------------------------------------
(* No way back *)

LEMMA PointerIsNatural ==
  ASSUME RegistryTypeOK, NEW m \in Mandates
  PROVE  current[m] \in Nat
<1>1. current[m] \in Versions \union {0}
  BY DEF RegistryTypeOK
<1>2. \A v \in Versions : v \in Nat
  BY RegistryAssumption
<1>3. 0 \in Nat
  OBVIOUS
<1> QED BY <1>1, <1>2, <1>3

LEMMA RegisterActiveForward ==
  ASSUME RegistryInvariant, NEW m \in Mandates, NEW v \in Versions, NEW t \in Times,
         RegisterActive(m, v, t)
  PROVE  OnlyForward
<1>1. /\ states \in [Mandates -> [Versions -> RowType]]
      /\ current \in [Mandates -> Versions \union {0}]
      /\ RegistryTypeOK
  BY DEF RegistryInvariant, RegistryTypeOK
<1>2. v > current[m]
  <2>1. v \in Nat \ {0}
    BY RegistryAssumption
  <2> QED BY <2>1 DEF RegisterActive, CanRegister, Registered
<1>3. states[m][v].status = "ABSENT"
  <2>1. Present(m, v) => Registered(m) /\ v <= current[m]
    BY DEF RegistryInvariant, Consistent, ConsistentRows, NoOrphans
  <2>2. current[m] \in Nat /\ v \in Nat
    BY <1>1, PointerIsNatural, RegistryAssumption
  <2> QED BY <1>2, <2>1, <2>2 DEF Present
<1>4. /\ states'[m][v].status = "ACTIVE"
      /\ current'[m] = v
      /\ \A w \in Versions : w # v => states'[m][w] = states[m][w]
      /\ \A k \in Mandates : k # m => states'[k] = states[k] /\ current'[k] = current[k]
  BY <1>1 DEF RegisterActive, MandateState
<1>5. \A k \in Mandates : current[k] \in Nat /\ current'[k] >= current[k]
  BY <1>1, <1>2, <1>4, PointerIsNatural, RegistryAssumption
<1> QED BY <1>2, <1>3, <1>4, <1>5 DEF OnlyForward, Terminal

LEMMA RevokeForward ==
  ASSUME RegistryInvariant, NEW m \in Mandates, NEW v \in Versions, NEW t \in Times,
         Revoke(m, v, t)
  PROVE  OnlyForward
<1>1. /\ states \in [Mandates -> [Versions -> RowType]]
      /\ \A k \in Mandates : current[k] \in Nat
  BY PointerIsNatural DEF RegistryInvariant, RegistryTypeOK
<1>2. /\ states[m][v].status = "ACTIVE"
      /\ current' = current
      /\ \A k \in Mandates, w \in Versions : <<k, w>> # <<m, v>> => states'[k][w] = states[k][w]
  BY <1>1 DEF Revoke, CanEnd, CurrentRow
<1> QED BY <1>1, <1>2 DEF OnlyForward, Terminal

LEMMA SupersedeForward ==
  ASSUME RegistryInvariant, NEW m \in Mandates, NEW v \in Versions, NEW w \in Versions,
         NEW t \in Times, Supersede(m, v, w, t)
  PROVE  OnlyForward
<1>1. /\ states \in [Mandates -> [Versions -> RowType]]
      /\ current \in [Mandates -> Versions \union {0}]
      /\ \A k \in Mandates : current[k] \in Nat
  BY PointerIsNatural DEF RegistryInvariant, RegistryTypeOK
<1>2. w > v /\ v = current[m] /\ states[m][v].status = "ACTIVE" /\ w \in Nat /\ v \in Nat
  BY RegistryAssumption DEF Supersede, CanEnd, CurrentRow
<1>3. states[m][w].status = "ABSENT"
  <2>1. Present(m, w) => w <= current[m]
    BY DEF Supersede, CanEnd, ConsistentRows
  <2> QED BY <1>2, <2>1 DEF Present
<1>4. /\ states'[m][w].status = "ACTIVE"
      /\ current'[m] = w
      /\ \A u \in Versions : u # v /\ u # w => states'[m][u] = states[m][u]
      /\ \A k \in Mandates : k # m => states'[k] = states[k] /\ current'[k] = current[k]
  BY <1>1, <1>2 DEF Supersede, MandateState
<1> QED BY <1>1, <1>2, <1>3, <1>4 DEF OnlyForward, Terminal

\* Nothing brings a version back that was revoked, superseded or left behind.
THEOREM RegistryNoReactivation == RegistrySpec => NoReactivation
<1>1. RegistryInvariant /\ [RegistryNext]_registryVars => [OnlyForward]_registryVars
  <2> SUFFICES ASSUME RegistryInvariant, RegistryNext
               PROVE  OnlyForward
    OBVIOUS
  <2> SUFFICES ASSUME NEW m \in Mandates, NEW v \in Versions, NEW t \in Times,
                      \/ RegisterActive(m, v, t)
                      \/ Revoke(m, v, t)
                      \/ \E w \in Versions : Supersede(m, v, w, t)
                      \/ \E n \in Nonces : RecordExecutionRefusal(m, v, n, t)
               PROVE  OnlyForward
    BY DEF RegistryNext
  <2>1. CASE \E n \in Nonces : RecordExecutionRefusal(m, v, n, t)
    <3>1. /\ states' = states /\ current' = current
          /\ \A k \in Mandates : current[k] \in Nat
      BY <2>1, PointerIsNatural DEF RecordExecutionRefusal, RegistryInvariant
    <3> QED BY <3>1 DEF OnlyForward
  <2> QED BY <2>1, RegisterActiveForward, RevokeForward, SupersedeForward
<1> QED BY RegistryStart, RegistryStep, <1>1, PTL DEF RegistrySpec, NoReactivation

-----------------------------------------------------------------------------
(***************************************************************************)
(* The audit trail.  Its three properties are proved together: that an     *)
(* event starts from the status which the log shows needs that the log     *)
(* explains the rows, and that times do not decrease needs that the last   *)
(* event has the time of the current row.  Trail says so of one log and    *)
(* the rows and the pointer beside it, without CHOOSE; the lemmas about it *)
(* append one event, and a supersession is two of them.                    *)
(***************************************************************************)
Transitions(s) == {i \in DOMAIN s : s[i].event \in Lifecycle}
TransitionsOf(s, v) == {i \in Transitions(s) : s[i].version = v}
Registrations(s) == {i \in DOMAIN s : s[i].event = "MANDATE_REGISTERED_ACTIVE"}

IsLast(i, positions) == i \in positions /\ \A j \in positions : j <= i

\* The status that event k starts from is that of the last transition before it.
Continues(s, k) ==
  LET before == {i \in Transitions(s) : i < k} IN
    \/ before = {} /\ s[k].previous = "NONE"
    \/ \E i \in before : IsLast(i, before) /\ s[k].previous = s[i].current

InOrder(s) == \A i, j \in Transitions(s) : i < j => s[i].at <= s[j].at

\* The last transition is one of the version that the pointer is on.
Points(s, pointer) ==
  \/ pointer = 0 /\ Transitions(s) = {}
  \/ pointer # 0 /\ \E i \in Transitions(s) : IsLast(i, Transitions(s)) /\ s[i].version = pointer

Explains(s, v, row) ==
  \/ TransitionsOf(s, v) = {} /\ row = NoRow
  \/ \E i \in TransitionsOf(s, v) :
       /\ IsLast(i, TransitionsOf(s, v))
       /\ row.status = s[i].current /\ row.updated_at = s[i].at

Names(s, pointer) ==
  \/ Registrations(s) = {} /\ pointer = 0
  \/ \E i \in Registrations(s) : IsLast(i, Registrations(s)) /\ pointer = s[i].version

Trail(s, rows, pointer) ==
  /\ \A k \in DOMAIN s : Continues(s, k)
  /\ InOrder(s)
  /\ Points(s, pointer)
  /\ \A v \in Versions : Explains(s, v, rows[v])
  /\ Names(s, pointer)

Shown(rows, pointer) == IF pointer = 0 THEN "NONE" ELSE rows[pointer].status

TrailInvariant == \A m \in Mandates : Trail(audit[m], states[m], current[m])

-----------------------------------------------------------------------------
(* One log *)

\* What the last transition of a log shows.
LEMMA LastTransitionShows ==
  ASSUME NEW s \in Seq(EventType), NEW rows \in [Versions -> RowType],
         NEW pointer \in Versions, Trail(s, rows, pointer)
  PROVE  \E i \in Transitions(s) :
           /\ IsLast(i, Transitions(s)) /\ s[i].version = pointer
           /\ rows[pointer].status = s[i].current /\ rows[pointer].updated_at = s[i].at
<1>1. pointer # 0
  BY RegistryAssumption
<1>2. PICK i \in Transitions(s) : IsLast(i, Transitions(s)) /\ s[i].version = pointer
  BY <1>1 DEF Trail, Points
<1>3. i \in TransitionsOf(s, pointer) /\ IsLast(i, TransitionsOf(s, pointer))
  BY <1>2 DEF TransitionsOf, IsLast
<1>4. PICK j \in TransitionsOf(s, pointer) :
        /\ IsLast(j, TransitionsOf(s, pointer))
        /\ rows[pointer].status = s[j].current /\ rows[pointer].updated_at = s[j].at
  BY <1>3 DEF Trail, Explains
<1>5. i = j
  BY <1>3, <1>4 DEF IsLast, TransitionsOf, Transitions
<1> QED BY <1>2, <1>4, <1>5

\* An event that starts from the status shown continues the log.
LEMMA AppendContinues ==
  ASSUME NEW s \in Seq(EventType), NEW rows \in [Versions -> RowType],
         NEW pointer \in Versions \union {0}, Trail(s, rows, pointer),
         NEW e \in EventType, e.previous = Shown(rows, pointer)
  PROVE  \A k \in DOMAIN Append(s, e) : Continues(Append(s, e), k)
<1> DEFINE t == Append(s, e)
<1>1. /\ DOMAIN t = 1..(Len(s) + 1) /\ DOMAIN s = 1..Len(s) /\ Len(s) \in Nat
      /\ \A i \in DOMAIN s : t[i] = s[i]
      /\ t[Len(s) + 1] = e
  OBVIOUS
<1>2. ASSUME NEW k \in DOMAIN s PROVE Continues(t, k)
  <2>1. {i \in Transitions(t) : i < k} = {i \in Transitions(s) : i < k}
    BY <1>1 DEF Transitions
  <2>2. Continues(s, k)
    BY DEF Trail
  <2> QED BY <1>1, <2>1, <2>2 DEF Continues, IsLast, Transitions
<1>3. Continues(t, Len(s) + 1)
  <2>1. {i \in Transitions(t) : i < Len(s) + 1} = Transitions(s)
    BY <1>1 DEF Transitions
  <2>2. CASE pointer = 0
    <3>1. Transitions(s) = {} /\ e.previous = "NONE"
      BY <2>2 DEF Trail, Points, Shown
    <3> QED BY <1>1, <2>1, <3>1 DEF Continues
  <2>3. CASE pointer # 0
    <3>1. PICK i \in Transitions(s) :
            IsLast(i, Transitions(s)) /\ rows[pointer].status = s[i].current
      BY <2>3, LastTransitionShows
    <3>2. e.previous = t[i].current
      BY <1>1, <2>3, <3>1 DEF Shown, Transitions
    <3> QED BY <1>1, <2>1, <3>1, <3>2 DEF Continues
  <2> QED BY <2>2, <2>3
<1> QED BY <1>1, <1>2, <1>3

\* A transition of the version that the pointer then is on, not before the last one.
LEMMA AppendTransition ==
  ASSUME NEW s \in Seq(EventType), NEW rows \in [Versions -> RowType],
         NEW pointer \in Versions \union {0}, Trail(s, rows, pointer),
         NEW e \in EventType, e.event \in Lifecycle, e.previous = Shown(rows, pointer),
         pointer # 0 => e.at >= rows[pointer].updated_at,
         e.event # "MANDATE_REGISTERED_ACTIVE" => e.version = pointer,
         NEW row \in RowType, row.status = e.current, row.updated_at = e.at
  PROVE  Trail(Append(s, e), [rows EXCEPT ![e.version] = row], e.version)
<1> DEFINE t == Append(s, e)
           n == Len(s) + 1
<1>1. /\ DOMAIN t = 1..n /\ DOMAIN s = 1..Len(s) /\ Len(s) \in Nat
      /\ \A i \in DOMAIN s : t[i] = s[i] /\ i < n
      /\ t[n] = e /\ n \in DOMAIN t
  OBVIOUS
<1>2. e.version \in Versions /\ e.version # 0 /\ e.at \in Nat
  BY RegistryAssumption DEF EventType
<1>3. Transitions(t) = Transitions(s) \union {n} /\ IsLast(n, Transitions(t))
  BY <1>1 DEF Transitions, IsLast
<1>4. \A k \in DOMAIN t : Continues(t, k)
  BY AppendContinues
<1>5. InOrder(t)
  <2> SUFFICES ASSUME NEW i \in Transitions(t), NEW j \in Transitions(t), i < j
               PROVE  t[i].at <= t[j].at
    BY DEF InOrder
  <2>1. i \in Transitions(s) /\ t[i] = s[i] /\ s[i].at \in Nat
    <3>1. i \in Transitions(s)
      BY <1>1, <1>3 DEF Transitions
    <3>2. s[i] \in EventType
      BY <3>1 DEF Transitions
    <3> QED BY <1>1, <3>1, <3>2, RegistryAssumption DEF Transitions, EventType
  <2>2. CASE j \in Transitions(s)
    BY <1>1, <2>1, <2>2 DEF Trail, InOrder, Transitions
  <2>3. CASE j = n
    <3>1. pointer \in Versions
      BY <2>1 DEF Trail, Points
    <3>2. PICK l \in Transitions(s) :
            IsLast(l, Transitions(s)) /\ rows[pointer].updated_at = s[l].at
      BY <3>1, LastTransitionShows
    <3>3. s[l].at <= e.at /\ s[l].at \in Nat
      BY <3>1, <3>2, RegistryAssumption DEF RowType
    <3>4. s[i].at <= s[l].at
      <4>1. i <= l /\ i \in Nat /\ l \in Nat
        BY <1>1, <2>1, <3>2 DEF IsLast, Transitions
      <4>2. CASE i = l
        BY <2>1, <4>2
      <4>3. CASE i < l
        BY <2>1, <3>2, <4>3 DEF Trail, InOrder
      <4> QED BY <4>1, <4>2, <4>3
    <3> QED BY <1>1, <1>2, <2>1, <2>3, <3>3, <3>4
  <2> QED BY <1>3, <2>2, <2>3
<1>6. Points(t, e.version)
  BY <1>1, <1>2, <1>3 DEF Points
<1>7. ASSUME NEW v \in Versions PROVE Explains(t, v, [rows EXCEPT ![e.version] = row][v])
  <2>1. CASE v = e.version
    <3>1. n \in TransitionsOf(t, v) /\ IsLast(n, TransitionsOf(t, v))
      BY <1>1, <1>3, <2>1 DEF TransitionsOf, IsLast
    <3>2. [rows EXCEPT ![e.version] = row][v] = row
      BY <2>1
    <3> QED BY <1>1, <3>1, <3>2 DEF Explains
  <2>2. CASE v # e.version
    <3>1. TransitionsOf(t, v) = TransitionsOf(s, v)
      BY <1>1, <1>3, <2>2 DEF TransitionsOf, Transitions
    <3>2. [rows EXCEPT ![e.version] = row][v] = rows[v]
      BY <2>2
    <3>3. Explains(s, v, rows[v])
      BY DEF Trail
    <3> QED BY <1>1, <3>1, <3>2, <3>3 DEF Explains, TransitionsOf, Transitions
  <2> QED BY <2>1, <2>2
<1>8. Names(t, e.version)
  <2>1. CASE e.event = "MANDATE_REGISTERED_ACTIVE"
    BY <1>1, <2>1 DEF Names, Registrations, IsLast
  <2>2. CASE e.event # "MANDATE_REGISTERED_ACTIVE"
    <3>1. Registrations(t) = Registrations(s) /\ e.version = pointer
      BY <1>1, <2>2 DEF Registrations
    <3>2. Names(s, pointer)
      BY DEF Trail
    <3> QED BY <1>1, <1>2, <3>1, <3>2 DEF Names, Registrations
  <2> QED BY <2>1, <2>2
<1> QED BY <1>4, <1>5, <1>6, <1>7, <1>8 DEF Trail

\* A refusal that starts from the status shown, and leaves it.
LEMMA AppendRefusal ==
  ASSUME NEW s \in Seq(EventType), NEW rows \in [Versions -> RowType],
         NEW pointer \in Versions \union {0}, Trail(s, rows, pointer),
         NEW e \in EventType, e.event = "EXECUTION_REFUSED_MANDATE_STATE",
         e.previous = Shown(rows, pointer)
  PROVE  Trail(Append(s, e), rows, pointer)
<1> DEFINE t == Append(s, e)
<1>1. /\ DOMAIN t = 1..(Len(s) + 1) /\ DOMAIN s = 1..Len(s) /\ Len(s) \in Nat
      /\ \A i \in DOMAIN s : t[i] = s[i]
      /\ t[Len(s) + 1] = e
  OBVIOUS
<1>2. Transitions(t) = Transitions(s) /\ Registrations(t) = Registrations(s)
  BY <1>1 DEF Transitions, Registrations, Lifecycle
<1>3. \A v \in Versions : TransitionsOf(t, v) = TransitionsOf(s, v)
  BY <1>1, <1>2 DEF TransitionsOf, Transitions
<1>4. \A k \in DOMAIN t : Continues(t, k)
  BY AppendContinues
<1>5. InOrder(t)
  BY <1>1, <1>2 DEF Trail, InOrder, Transitions
<1>6. Points(t, pointer)
  BY <1>1, <1>2 DEF Trail, Points, Transitions
<1>7. ASSUME NEW v \in Versions PROVE Explains(t, v, rows[v])
  <2>1. TransitionsOf(t, v) = TransitionsOf(s, v) /\ Explains(s, v, rows[v])
    BY <1>3 DEF Trail
  <2>2. \A i \in TransitionsOf(s, v) : t[i] = s[i]
    BY <1>1 DEF TransitionsOf, Transitions
  <2> QED BY <2>1, <2>2 DEF Explains
<1>8. Names(t, pointer)
  BY <1>1, <1>2 DEF Trail, Names, Registrations
<1> QED BY <1>4, <1>5, <1>6, <1>7, <1>8 DEF Trail

-----------------------------------------------------------------------------
(* The registry's operations *)

\* What a refusal event records as observed is what the rows show.
LEMMA ObservedIsShown ==
  ASSUME RegistryInvariant, NEW m \in Mandates
  PROVE  ObservedStatus(m) = Shown(states[m], current[m])
BY DEF RegistryInvariant, Consistent, ObservedStatus, Shown, Registered, CurrentRow

\* An operation that gives one mandate a log that explains its rows.
LEMMA OthersKeepTheirTrail ==
  ASSUME RegistryInvariant, TrailInvariant, NEW m \in Mandates,
         NEW events \in Seq(EventType), AppendEvents(m, events),
         \A k \in Mandates : k # m => states'[k] = states[k] /\ current'[k] = current[k],
         Trail(audit[m] \o events, states'[m], current'[m])
  PROVE  TrailInvariant'
<1>1. /\ audit'[m] = audit[m] \o events
      /\ \A k \in Mandates : k # m => audit'[k] = audit[k]
  BY DEF AppendEvents, RegistryInvariant, RegistryTypeOK
<1> QED BY <1>1 DEF TrailInvariant

LEMMA RegisterActiveTrail ==
  ASSUME RegistryInvariant, TrailInvariant, NEW m \in Mandates, NEW v \in Versions,
         NEW t \in Times, RegisterActive(m, v, t)
  PROVE  TrailInvariant'
<1> DEFINE e == StateEvent("MANDATE_REGISTERED_ACTIVE", v, ObservedStatus(m), "ACTIVE", t)
           row == MandateState("ACTIVE", t, 0)
<1>1. /\ states[m] \in [Versions -> RowType] /\ current[m] \in Versions \union {0}
      /\ audit[m] \in Seq(EventType) /\ Trail(audit[m], states[m], current[m])
  BY DEF RegistryInvariant, RegistryTypeOK, TrailInvariant
<1>2. e \in EventType /\ row \in RowType
  BY ObservedStatusType, StateEventType, StoredRowType
     DEF RegistryInvariant, Lifecycle, MandateStatus, Live
<1>3. /\ e.event = "MANDATE_REGISTERED_ACTIVE" /\ e.event \in Lifecycle
      /\ e.previous = Shown(states[m], current[m])
      /\ e.version = v /\ row.status = e.current /\ row.updated_at = e.at /\ e.at = t
  BY ObservedIsShown DEF StateEvent, MandateState, Lifecycle
<1>4. current[m] # 0 => t >= states[m][current[m]].updated_at
  BY DEF RegisterActive, CanRegister, Registered, CurrentRow
<1>5. Trail(Append(audit[m], e), [states[m] EXCEPT ![v] = row], v)
  <2> HIDE DEF e, row
  <2> QED BY <1>1, <1>2, <1>3, <1>4, AppendTransition
<1>6. /\ states'[m] = [states[m] EXCEPT ![v] = row] /\ current'[m] = v
      /\ \A k \in Mandates : k # m => states'[k] = states[k] /\ current'[k] = current[k]
      /\ AppendEvents(m, << e >>)
  BY DEF RegisterActive, RegistryInvariant, RegistryTypeOK
<1>7. audit[m] \o << e >> = Append(audit[m], e)
  <2> HIDE DEF e
  <2> QED BY <1>1, <1>2
<1>8. << e >> \in Seq(EventType)
  BY <1>2
<1> QED BY <1>5, <1>6, <1>7, <1>8, OthersKeepTheirTrail

LEMMA RevokeTrail ==
  ASSUME RegistryInvariant, TrailInvariant, NEW m \in Mandates, NEW v \in Versions,
         NEW t \in Times, Revoke(m, v, t)
  PROVE  TrailInvariant'
<1> DEFINE e == StateEvent("MANDATE_REVOKED", v, "ACTIVE", "REVOKED", t)
           row == MandateState("REVOKED", t, 0)
<1>1. /\ states[m] \in [Versions -> RowType] /\ current[m] \in Versions \union {0}
      /\ audit[m] \in Seq(EventType) /\ Trail(audit[m], states[m], current[m])
  BY DEF RegistryInvariant, RegistryTypeOK, TrailInvariant
<1>2. e \in EventType /\ row \in RowType
  BY StateEventType, StoredRowType DEF Lifecycle, MandateStatus, Live, Terminal
<1>3. v = current[m] /\ current[m] # 0 /\ states[m][current[m]].status = "ACTIVE"
      /\ t >= states[m][current[m]].updated_at
  BY DEF Revoke, CanEnd, Registered, CurrentRow
<1>4. /\ e.event # "MANDATE_REGISTERED_ACTIVE" /\ e.event \in Lifecycle
      /\ e.previous = Shown(states[m], current[m])
      /\ e.version = v /\ row.status = e.current /\ row.updated_at = e.at /\ e.at = t
  BY <1>3 DEF StateEvent, MandateState, Lifecycle, Shown
<1>5. Trail(Append(audit[m], e), [states[m] EXCEPT ![v] = row], v)
  <2> HIDE DEF e, row
  <2> QED BY <1>1, <1>2, <1>3, <1>4, AppendTransition
<1>6. /\ states'[m] = [states[m] EXCEPT ![v] = row] /\ current'[m] = v
      /\ \A k \in Mandates : k # m => states'[k] = states[k] /\ current'[k] = current[k]
      /\ AppendEvents(m, << e >>)
  BY <1>3 DEF Revoke, RegistryInvariant, RegistryTypeOK
<1>7. audit[m] \o << e >> = Append(audit[m], e)
  <2> HIDE DEF e
  <2> QED BY <1>1, <1>2
<1>8. << e >> \in Seq(EventType)
  BY <1>2
<1> QED BY <1>5, <1>6, <1>7, <1>8, OthersKeepTheirTrail

LEMMA SupersedeTrail ==
  ASSUME RegistryInvariant, TrailInvariant, NEW m \in Mandates, NEW v \in Versions,
         NEW w \in Versions, NEW t \in Times, Supersede(m, v, w, t)
  PROVE  TrailInvariant'
<1> DEFINE d == StateEvent("MANDATE_SUPERSEDED", v, "ACTIVE", "SUPERSEDED", t)
           e == StateEvent("MANDATE_REGISTERED_ACTIVE", w, "SUPERSEDED", "ACTIVE", t)
           old == MandateState("SUPERSEDED", t, w)
           new == MandateState("ACTIVE", t, 0)
           between == [states[m] EXCEPT ![v] = old]
<1>1. /\ states[m] \in [Versions -> RowType] /\ current[m] \in Versions \union {0}
      /\ audit[m] \in Seq(EventType) /\ Trail(audit[m], states[m], current[m])
  BY DEF RegistryInvariant, RegistryTypeOK, TrailInvariant
<1>2. d \in EventType /\ e \in EventType /\ old \in RowType /\ new \in RowType
  BY StateEventType, StoredRowType DEF Lifecycle, MandateStatus, Live, Terminal
<1>3. v = current[m] /\ current[m] # 0 /\ states[m][current[m]].status = "ACTIVE"
      /\ t >= states[m][current[m]].updated_at
  BY DEF Supersede, CanEnd, Registered, CurrentRow
<1>4. /\ d.event # "MANDATE_REGISTERED_ACTIVE" /\ d.event \in Lifecycle
      /\ d.previous = Shown(states[m], current[m])
      /\ d.version = v /\ old.status = d.current /\ old.updated_at = d.at /\ d.at = t
  BY <1>3 DEF StateEvent, MandateState, Lifecycle, Shown
<1>5. Trail(Append(audit[m], d), between, v)
  <2> HIDE DEF d, old
  <2> QED BY <1>1, <1>2, <1>3, <1>4, AppendTransition
<1>6. between[v] = old /\ between \in [Versions -> RowType]
  <2> HIDE DEF old
  <2> QED BY <1>1, <1>2
<1>7. /\ e.event = "MANDATE_REGISTERED_ACTIVE" /\ e.event \in Lifecycle
      /\ e.previous = Shown(between, v)
      /\ e.version = w /\ new.status = e.current /\ new.updated_at = e.at
      /\ e.at >= between[v].updated_at
  <2>1. /\ e.previous = "SUPERSEDED" /\ old.status = "SUPERSEDED"
        /\ e.at = t /\ old.updated_at = t /\ t >= t
    BY RegistryAssumption DEF StateEvent, MandateState
  <2>2. v # 0
    BY <1>3
  <2>3. e.event = "MANDATE_REGISTERED_ACTIVE" /\ e.event \in Lifecycle
        /\ e.version = w /\ new.status = e.current /\ new.updated_at = e.at
    BY DEF StateEvent, MandateState, Lifecycle
  <2> HIDE DEF e, old, new, between
  <2> QED BY <1>6, <2>1, <2>2, <2>3 DEF Shown
<1>8. Trail(Append(Append(audit[m], d), e), [between EXCEPT ![w] = new], w)
  <2>1. Append(audit[m], d) \in Seq(EventType)
    <3> HIDE DEF d
    <3> QED BY <1>1, <1>2
  <2> HIDE DEF d, e, new, between
  <2> QED BY <1>2, <1>5, <1>6, <1>7, <2>1, AppendTransition
<1>9. /\ states'[m] = [between EXCEPT ![w] = new] /\ current'[m] = w
      /\ \A k \in Mandates : k # m => states'[k] = states[k] /\ current'[k] = current[k]
      /\ AppendEvents(m, << d, e >>)
  BY DEF Supersede, RegistryInvariant, RegistryTypeOK
<1>10. audit[m] \o << d, e >> = Append(Append(audit[m], d), e)
  <2> HIDE DEF d, e
  <2> QED BY <1>1, <1>2
<1>11. << d, e >> \in Seq(EventType)
  BY <1>2
<1> QED BY <1>8, <1>9, <1>10, <1>11, OthersKeepTheirTrail

LEMMA RecordExecutionRefusalTrail ==
  ASSUME RegistryInvariant, TrailInvariant, NEW m \in Mandates, NEW v \in Versions,
         NEW t \in Times, NEW n \in Nonces, RecordExecutionRefusal(m, v, n, t)
  PROVE  TrailInvariant'
<1> DEFINE e == [StateEvent("EXECUTION_REFUSED_MANDATE_STATE", v, ObservedStatus(m),
                            ObservedStatus(m), t) EXCEPT !.nonce = n]
<1>1. /\ states[m] \in [Versions -> RowType] /\ current[m] \in Versions \union {0}
      /\ audit[m] \in Seq(EventType) /\ Trail(audit[m], states[m], current[m])
  BY DEF RegistryInvariant, RegistryTypeOK, TrailInvariant
<1>2. e \in EventType
  BY ObservedStatusType DEF RegistryInvariant, StateEvent, EventType
<1>3. /\ e.event = "EXECUTION_REFUSED_MANDATE_STATE"
      /\ e.previous = Shown(states[m], current[m])
  BY ObservedIsShown DEF StateEvent
<1>4. Trail(Append(audit[m], e), states[m], current[m])
  <2> HIDE DEF e
  <2> QED BY <1>1, <1>2, <1>3, AppendRefusal
<1>5. UNCHANGED <<states, current>> /\ AppendEvents(m, << e >>)
  BY DEF RecordExecutionRefusal
<1>6. audit[m] \o << e >> = Append(audit[m], e)
  <2> HIDE DEF e
  <2> QED BY <1>1, <1>2
<1>7. << e >> \in Seq(EventType)
  BY <1>2
<1> QED BY <1>4, <1>5, <1>6, <1>7, OthersKeepTheirTrail

-----------------------------------------------------------------------------
(* Theorems *)

LEMMA TrailStart == RegistryInit => TrailInvariant
<1> SUFFICES ASSUME RegistryInit, NEW m \in Mandates
             PROVE  Trail(audit[m], states[m], current[m])
  BY DEF TrailInvariant
<1>1. audit[m] = << >> /\ current[m] = 0 /\ \A v \in Versions : states[m][v] = NoRow
  BY DEF RegistryInit
<1> QED
  BY <1>1 DEF Trail, InOrder, Points, Explains, Names, Transitions, TransitionsOf, Registrations

LEMMA TrailStep ==
  RegistryInvariant /\ TrailInvariant /\ [RegistryNext]_registryVars => TrailInvariant'
<1> SUFFICES ASSUME RegistryInvariant, TrailInvariant, [RegistryNext]_registryVars
             PROVE  TrailInvariant'
  OBVIOUS
<1>1. CASE UNCHANGED registryVars
  BY <1>1 DEF registryVars, TrailInvariant
<1>2. CASE RegistryNext
  <2> SUFFICES ASSUME NEW m \in Mandates, NEW v \in Versions, NEW t \in Times,
                      \/ RegisterActive(m, v, t)
                      \/ Revoke(m, v, t)
                      \/ \E w \in Versions : Supersede(m, v, w, t)
                      \/ \E n \in Nonces : RecordExecutionRefusal(m, v, n, t)
               PROVE  TrailInvariant'
    BY <1>2 DEF RegistryNext
  <2> QED
    BY RegisterActiveTrail, RevokeTrail, SupersedeTrail, RecordExecutionRefusalTrail
<1> QED BY <1>1, <1>2

\* What CHOOSE finds in AuditIsContinuous is what Continues speaks of.
LEMMA ContinuousLog ==
  ASSUME NEW s \in Seq(EventType), NEW k \in DOMAIN s, Continues(s, k)
  PROVE  s[k].previous = LoggedStatus(s, k)
<1> DEFINE before == {i \in DOMAIN s : i < k /\ s[i].event \in Lifecycle}
<1>1. before = {i \in Transitions(s) : i < k} /\ 0 \notin before /\ before \subseteq Nat
  BY DEF Transitions
<1>2. CASE before = {}
  BY <1>1, <1>2 DEF Continues, LoggedStatus, LastLifecycle
<1>3. CASE before # {}
  <2>1. PICK i \in before : (\A j \in before : j <= i) /\ s[k].previous = s[i].current
    BY <1>1, <1>3 DEF Continues, IsLast
  <2>2. \A j \in before : (\A l \in before : l <= j) => j = i
    BY <1>1, <2>1
  <2>3. (CHOOSE j \in before : \A l \in before : l <= j) = i
    BY <2>1, <2>2
  <2>4. LastLifecycle(s, k) = i
    BY <1>3, <2>3 DEF LastLifecycle
  <2> QED BY <1>1, <2>1, <2>4 DEF LoggedStatus
<1> QED BY <1>2, <1>3

LEMMA TrailExplains ==
  ASSUME RegistryInvariant, TrailInvariant
  PROVE  AuditIsContinuous /\ AuditExplainsState /\ LifecycleTimesMonotone
<1>1. ASSUME NEW m \in Mandates
      PROVE  /\ Trail(audit[m], states[m], current[m])
             /\ audit[m] \in Seq(EventType)
  BY DEF TrailInvariant, RegistryInvariant, RegistryTypeOK
<1>2. AuditIsContinuous
  BY <1>1, ContinuousLog DEF AuditIsContinuous, Trail
<1>3. AuditExplainsState
  <2> SUFFICES ASSUME NEW m \in Mandates
               PROVE  LET s == audit[m]
                          Of(v) == {i \in DOMAIN s : s[i].version = v /\ s[i].event \in Lifecycle}
                      IN /\ \A v \in Versions :
                              IF Of(v) = {} THEN states[m][v] = NoRow
                              ELSE \E i \in Of(v) :
                                     /\ \A j \in Of(v) : j <= i
                                     /\ states[m][v].status = s[i].current
                                     /\ states[m][v].updated_at = s[i].at
                         /\ IF Registrations(s) = {} THEN ~Registered(m)
                            ELSE \E i \in Registrations(s) :
                                   (\A j \in Registrations(s) : j <= i)
                                   /\ current[m] = s[i].version
    BY DEF AuditExplainsState, Registrations
  <2>1. \A v : TransitionsOf(audit[m], v) =
                 {i \in DOMAIN audit[m] : audit[m][i].version = v
                                          /\ audit[m][i].event \in Lifecycle}
    BY DEF TransitionsOf, Transitions
  <2>2. /\ \A v \in Versions : Explains(audit[m], v, states[m][v])
        /\ Names(audit[m], current[m])
    BY <1>1 DEF Trail
  <2> QED BY <2>1, <2>2 DEF Explains, Names, IsLast, Registered
<1>4. LifecycleTimesMonotone
  BY <1>1 DEF LifecycleTimesMonotone, Trail, InOrder, Transitions
<1> QED BY <1>2, <1>3, <1>4

\* Every event of a log, a refusal included, starts where the events before it lead.
THEOREM RegistryAuditIsContinuous == RegistrySpec => []AuditIsContinuous
<1> QED BY RegistryStart, RegistryStep, TrailStart, TrailStep, TrailExplains, PTL DEF RegistrySpec

\* The append-only log alone determines rows and pointers.
THEOREM RegistryAuditExplainsState == RegistrySpec => []AuditExplainsState
<1> QED BY RegistryStart, RegistryStep, TrailStart, TrailStep, TrailExplains, PTL DEF RegistrySpec

\* However the callers' clocks differ, a mandate's transitions are in order of time.
THEOREM RegistryTimesMonotone == RegistrySpec => []LifecycleTimesMonotone
<1> QED BY RegistryStart, RegistryStep, TrailStart, TrailStep, TrailExplains, PTL DEF RegistrySpec
=============================================================================
