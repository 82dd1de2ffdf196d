---------------------------- MODULE MandateState ----------------------------
(***************************************************************************)
(* The trusted consent registry of execution/mandate_state.py: per mandate *)
(* the rows of mandate_states, the pointer of mandate_current and the      *)
(* append-only log of mandate_state_audit.                                 *)
(*                                                                         *)
(* One action per call that commits a write.  SQLite makes each of them    *)
(* one transaction, so the action is the whole body of the method.  A call *)
(* that raises, or that finds its work already done, leaves the storage    *)
(* alone: it is a stuttering step here.  GuardedExecution adds the locks,  *)
(* the threads that wait for them and the crashes.                         *)
(*                                                                         *)
(* Left out: revoked_at, which the dataclass forces to equal updated_at on *)
(* a REVOKED row; the free-text reason of an event; its hash and sequence  *)
(* number, which are its position in the log.                              *)
(***************************************************************************)
EXTENDS Integers, Sequences

CONSTANTS
  Mandates,     \* mandate_id values
  Versions,     \* consent versions in use, positive integers
  Times,        \* the instants the server's clock shows
  Nonces,       \* decision nonces of capabilities
  NoNonce       \* the null decision_nonce of a lifecycle event

ASSUME RegistryAssumption ==
  /\ Versions \subseteq Nat \ {0}
  /\ Times \subseteq Nat
  /\ NoNonce \notin Nonces

VARIABLES
  states,       \* mandate_states: a row per mandate and version
  current,      \* mandate_current: the pointer, 0 when there is no row
  audit         \* mandate_state_audit: a sequence of events per mandate

registryVars == <<states, current, audit>>

-----------------------------------------------------------------------------
(* MandateStatus, and the values that stand for a missing row and for None *)

Live     == {"ACTIVE"}
Terminal == {"REVOKED", "SUPERSEDED"}
MandateStatus == Live \union Terminal

RowType ==
  [status : MandateStatus \union {"ABSENT"},
   updated_at : Nat,
   superseded_by : Nat]

NoRow == [status |-> "ABSENT", updated_at |-> 0, superseded_by |-> 0]

MandateState(status, t, successor) ==
  [status |-> status, updated_at |-> t, superseded_by |-> successor]

Lifecycle == {"MANDATE_REGISTERED_ACTIVE", "MANDATE_REVOKED", "MANDATE_SUPERSEDED"}

EventType ==
  [event : Lifecycle \union {"EXECUTION_REFUSED_MANDATE_STATE"},
   version : Versions,
   previous : MandateStatus \union {"NONE"},
   current : MandateStatus \union {"NONE"},
   at : Times,
   nonce : Nonces \union {NoNonce}]

StateEvent(event, v, before, after, t) ==
  [event |-> event, version |-> v, previous |-> before, current |-> after,
   at |-> t, nonce |-> NoNonce]

-----------------------------------------------------------------------------
(* Reads *)

Registered(m) == current[m] # 0

CurrentRow(m) == states[m][current[m]]

Present(m, v) == states[m][v].status # "ABSENT"

\* _assert_consistent_unlocked: every conjunct is one of its raises.
ConsistentRows(m) ==
  Registered(m) =>
    /\ Present(m, current[m])
    /\ \A v, w \in Versions :
         states[m][v].status = "ACTIVE" /\ states[m][w].status = "ACTIVE" => v = w
    /\ \A v \in Versions : states[m][v].status = "ACTIVE" => v = current[m]
    /\ \A v \in Versions : Present(m, v) => v <= current[m]

\* Faulty: the marker of a missing row gets into the log.
ObservedStatusRaw(m) ==
  IF Registered(m) /\ ConsistentRows(m) THEN CurrentRow(m).status ELSE NoRow.status

\* _current_status_unlocked: what a refusal event records as observed.
ObservedStatus(m) ==
  IF Registered(m) /\ ConsistentRows(m) THEN CurrentRow(m).status ELSE "NONE"

-----------------------------------------------------------------------------
(* Writes *)

AppendEvents(m, events) == audit' = [audit EXCEPT ![m] = @ \o events]

\* Faulty: the same version may be registered again after it ended.
CanRegisterAgain(m, v, t) ==
  Registered(m) =>
    /\ v >= current[m]
    /\ CurrentRow(m).status # "ACTIVE"
    /\ t >= CurrentRow(m).updated_at

\* Every path of register_active that neither raises nor returns the row it found.
CanRegister(m, v, t) ==
  Registered(m) =>
    /\ v > current[m]
    /\ CurrentRow(m).status # "ACTIVE"
    /\ t >= CurrentRow(m).updated_at

\* Faulty: a renewed registration is logged as if the mandate were new.
RegisterActiveAsNew(m, v, t) ==
  /\ CanRegister(m, v, t)
  /\ ConsistentRows(m)
  /\ states' = [states EXCEPT ![m][v] = MandateState("ACTIVE", t, 0)]
  /\ current' = [current EXCEPT ![m] = v]
  /\ AppendEvents(m, << StateEvent("MANDATE_REGISTERED_ACTIVE", v, "NONE", "ACTIVE", t) >>)

RegisterActive(m, v, t) ==
  /\ CanRegister(m, v, t)
  /\ ConsistentRows(m)
  /\ states' = [states EXCEPT ![m][v] = MandateState("ACTIVE", t, 0)]
  /\ current' = [current EXCEPT ![m] = v]
  /\ AppendEvents(m, << StateEvent("MANDATE_REGISTERED_ACTIVE", v, ObservedStatus(m), "ACTIVE", t) >>)

\* Faulty: the caller's clock reading is taken as it comes.
CanEndAnyTime(m, v, t) ==
  /\ Registered(m)
  /\ v = current[m]
  /\ CurrentRow(m).status = "ACTIVE"

\* What revoke and supersede ask of the version they are to end at time t.
CanEnd(m, v, t) ==
  /\ Registered(m)
  /\ v = current[m]
  /\ CurrentRow(m).status = "ACTIVE"
  /\ t >= CurrentRow(m).updated_at

\* Faulty: the transition is stored and not logged.
RevokeUnlogged(m, v, t) ==
  /\ CanEnd(m, v, t)
  /\ ConsistentRows(m)
  /\ states' = [states EXCEPT ![m][v] = MandateState("REVOKED", t, 0)]
  /\ UNCHANGED <<current, audit>>

Revoke(m, v, t) ==
  /\ CanEnd(m, v, t)
  /\ ConsistentRows(m)
  /\ states' = [states EXCEPT ![m][v] = MandateState("REVOKED", t, 0)]
  /\ AppendEvents(m, << StateEvent("MANDATE_REVOKED", v, "ACTIVE", "REVOKED", t) >>)
  /\ UNCHANGED current

\* Faulty: the replacement is stored and the pointer stays on the old version.
SupersedeWithoutPointer(m, v, w, t) ==
  /\ CanEnd(m, v, t)
  /\ ConsistentRows(m)
  /\ w > v
  /\ states' = [states EXCEPT ![m] =
                  [@ EXCEPT ![v] = MandateState("SUPERSEDED", t, w),
                            ![w] = MandateState("ACTIVE", t, 0)]]
  /\ AppendEvents(m, << StateEvent("MANDATE_SUPERSEDED", v, "ACTIVE", "SUPERSEDED", t),
                   StateEvent("MANDATE_REGISTERED_ACTIVE", w, "SUPERSEDED", "ACTIVE", t) >>)
  /\ UNCHANGED current

Supersede(m, v, w, t) ==
  /\ CanEnd(m, v, t)
  /\ ConsistentRows(m)
  /\ w > v
  /\ states' = [states EXCEPT ![m] =
                  [@ EXCEPT ![v] = MandateState("SUPERSEDED", t, w),
                            ![w] = MandateState("ACTIVE", t, 0)]]
  /\ current' = [current EXCEPT ![m] = w]
  /\ AppendEvents(m, << StateEvent("MANDATE_SUPERSEDED", v, "ACTIVE", "SUPERSEDED", t),
                   StateEvent("MANDATE_REGISTERED_ACTIVE", w, "SUPERSEDED", "ACTIVE", t) >>)

\* record_execution_refusal: the requested version, and the status observed now.
RecordExecutionRefusal(m, v, n, t) ==
  /\ AppendEvents(m, << [StateEvent("EXECUTION_REFUSED_MANDATE_STATE", v,
                               ObservedStatus(m), ObservedStatus(m), t)
                      EXCEPT !.nonce = n] >>)
  /\ UNCHANGED <<states, current>>

-----------------------------------------------------------------------------
RegistryInit ==
  /\ states = [m \in Mandates |-> [v \in Versions |-> NoRow]]
  /\ current = [m \in Mandates |-> 0]
  /\ audit = [m \in Mandates |-> << >>]

\* The registry does not look at the nonce of a refusal.  Its one caller, the
\* gate, has just reserved it, so no log holds an event of that nonce yet.
FreshNonce(n) ==
  \A m \in Mandates : \A i \in DOMAIN audit[m] : audit[m][i].nonce # n

RegistryNext ==
  \E m \in Mandates, v \in Versions, t \in Times :
    \/ RegisterActive(m, v, t)
    \/ Revoke(m, v, t)
    \/ \E w \in Versions : Supersede(m, v, w, t)
    \/ \E n \in Nonces : RecordExecutionRefusal(m, v, n, t) /\ FreshNonce(n)

RegistrySpec == RegistryInit /\ [][RegistryNext]_registryVars

-----------------------------------------------------------------------------
(* Properties *)

\* The rows, the pointers and the logs have the shape of their tables.
RegistryTypeOK ==
  /\ states \in [Mandates -> [Versions -> RowType]]
  /\ current \in [Mandates -> Versions \union {0}]
  /\ audit \in [Mandates -> Seq(EventType)]

\* No sequence of API calls leaves the storage in a configuration for which
\* get_current would raise MandateStateCorruptionError.
Consistent == \A m \in Mandates : ConsistentRows(m)

\* The last lifecycle event of log s before position k, 0 when there is none.
LastLifecycle(s, k) ==
  LET before == {i \in DOMAIN s : i < k /\ s[i].event \in Lifecycle}
  IN  IF before = {} THEN 0 ELSE CHOOSE i \in before : \A j \in before : j <= i

\* The status that log s shows for the current version before position k.
LoggedStatus(s, k) ==
  LET i == LastLifecycle(s, k) IN IF i = 0 THEN "NONE" ELSE s[i].current

\* Every event of a log, a refusal included, starts from the status that the
\* events before it lead to: the log is a history without a gap.
AuditIsContinuous ==
  \A m \in Mandates : \A k \in DOMAIN audit[m] :
    audit[m][k].previous = LoggedStatus(audit[m], k)

\* The log alone determines the tables: each row is what the last lifecycle
\* event of its version left, and the pointer is on the version that the last
\* registration names.
AuditExplainsState ==
  \A m \in Mandates :
    LET s == audit[m]
        Of(v) == {i \in DOMAIN s : s[i].version = v /\ s[i].event \in Lifecycle}
        Registrations == {i \in DOMAIN s : s[i].event = "MANDATE_REGISTERED_ACTIVE"}
    IN  /\ \A v \in Versions :
             IF Of(v) = {} THEN states[m][v] = NoRow
             ELSE \E i \in Of(v) :
                    /\ \A j \in Of(v) : j <= i
                    /\ states[m][v].status = s[i].current
                    /\ states[m][v].updated_at = s[i].at
        /\ IF Registrations = {} THEN ~Registered(m)
           ELSE \E i \in Registrations :
                  (\A j \in Registrations : j <= i) /\ current[m] = s[i].version

\* A mandate's lifecycle events carry non-decreasing times, although every
\* caller brings its own clock reading.
LifecycleTimesMonotone ==
  \A m \in Mandates : \A i, j \in DOMAIN audit[m] :
    /\ i < j
    /\ audit[m][i].event \in Lifecycle
    /\ audit[m][j].event \in Lifecycle
    => audit[m][i].at <= audit[m][j].at

\* What a step never does: touch a row that ended, write a row of a version
\* that is not newer than every other, or move the pointer back.
OnlyForward ==
  \A m \in Mandates :
    /\ current'[m] >= current[m]
    /\ \A v \in Versions :
         /\ states[m][v].status \in Terminal => states'[m][v] = states[m][v]
         /\ states[m][v].status = "ABSENT" /\ states'[m][v] # states[m][v]
              => states'[m][v].status = "ACTIVE" /\ v > current[m]

\* There is no way back: a mandate version that was revoked or superseded is
\* never in force again, and neither is any version older than the current one.
NoReactivation == [][OnlyForward]_registryVars
=============================================================================
