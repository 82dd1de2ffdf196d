-------------------------- MODULE GuardedExecution --------------------------
(***************************************************************************)
(* The execution kernel under concurrency and crashes: threads that issue  *)
(* and execute capabilities and threads that register, revoke and          *)
(* supersede mandates, over one mandate-state database and one execution   *)
(* ledger.                                                                  *)
(*                                                                         *)
(*   execution/authorization.py   Issue                                    *)
(*   execution/mandate_state.py   the locks of _transaction, ApplyTransition*)
(*   execution/gate.py            the actions at pc "gate"                 *)
(*   execution/executor.py        Send, Answer, Mark, Return              *)
(*   execution/ledger.py          Reserve, Mark                            *)
(*   execution/razorpay.py        how an answer is classified              *)
(*                                                                         *)
(* A connection stands for one process with its registry object: its       *)
(* threads share an RLock, and every process competes for SQLite's write   *)
(* reservation.  Nothing of a transaction is visible outside before its    *)
(* COMMIT, so a transition's body is one step with its COMMIT.  The guard  *)
(* of an execution is a transaction too; all it writes is one refusal      *)
(* event, which appears with the COMMIT in Return.                         *)
(***************************************************************************)
EXTENDS MandateState, FiniteSets

CONSTANTS
  Threads, NoThread,
  Connections, NoConnection,
  ConnectionOf,        \* the process each thread runs in
  Executors,           \* the threads that call execute_razorpay_order
  Administrators,      \* the threads that call the registry's transitions
  Capabilities,
  NonceOf,             \* the decision nonce of each capability
  RequestOf,           \* the digest of its order request
  NoRequest,
  Unissued,
  Tampering,           \* what may be wrong with a presented capability
  DefiniteErrors,      \* TRUE: a provider that answers outside 2xx took no order
  MaxLifetime,         \* MAX_CAPABILITY_LIFETIME
  MaxSkew,             \* MAX_ISSUED_AT_FUTURE_SKEW
  ClockLag,            \* how far behind the clock a caller's own reading may be
  MaxCrashes,          \* bound: process crashes
  MaxFaults            \* bound: storage faults and failed commits

PayloadType ==
  [mandate : Mandates, version : Versions, issued_at : Times, expires_at : Nat]

\* One representative of the checks gate.py makes before it looks at the clock,
\* and one of the bindings it recomputes after that.
TamperReasons == {"SIGNATURE_INVALID", "TRANSACTION_HASH_MISMATCH"}

ASSUME ExecutionAssumption ==
  /\ NoThread \notin Threads
  /\ NoConnection \notin Connections
  /\ ConnectionOf \in [Threads -> Connections]
  /\ Executors \subseteq Threads
  /\ Administrators \subseteq Threads
  /\ NonceOf \in [Capabilities -> Nonces]
  /\ NoRequest \notin {RequestOf[c] : c \in Capabilities}
  /\ Unissued \notin PayloadType \union [mandate : Mandates, version : Versions]
  /\ Tampering \subseteq TamperReasons
  /\ DefiniteErrors \in BOOLEAN
  /\ MaxLifetime \in Nat /\ MaxSkew \in Nat /\ ClockLag \in Nat
  /\ MaxCrashes \in Nat /\ MaxFaults \in Nat

VARIABLES
  clock,        \* the server's time
  payload,      \* the signed payload of each capability, or Unissued
  ledger,       \* execution_ledger, by nonce
  lockOwner,    \* holder of the registry object's RLock, by connection
  writer,       \* the connection with SQLite's write reservation
  pc,           \* where each thread is
  call,         \* the arguments of the call each thread is in
  result,       \* what the call in progress is going to return or raise
  order,        \* the provider's view of the request of each capability
  calls,        \* history: create_order calls per capability
  reported,     \* history: what callers were told, by capability
  crashes, faults

executionVars == <<clock, payload, ledger, lockOwner, writer, pc, call, result,
                   order, calls, reported, crashes, faults>>
vars == <<registryVars, executionVars>>

-----------------------------------------------------------------------------
LedgerStatus == {"RESERVED", "SUCCEEDED", "REJECTED", "UNCERTAIN"}

LedgerType ==
  [status : LedgerStatus \union {"FREE"},
   request : {RequestOf[c] : c \in Capabilities} \union {NoRequest}]

StateReasons ==
  {"MANDATE_STATE_CORRUPT", "MANDATE_STATE_MISSING", "MANDATE_VERSION_MISMATCH",
   "MANDATE_REVOKED", "MANDATE_SUPERSEDED"}

Refusals ==
  StateReasons \union TamperReasons
    \union {"CAPABILITY_EXPIRED", "CAPABILITY_NOT_YET_VALID", "NONCE_ALREADY_USED"}

\* What the provider adapter returns or raises, and what is raised instead of a
\* value by the ledger or by SQLite.
Answers == {"RECEIPT", "PROVIDER_REJECTED", "OUTCOME_UNCERTAIN"}
Raised  == (Answers \ {"RECEIPT"}) \union {"LEDGER_TRANSITION_FAILED", "STORAGE_FAULT"}

Results == {"NONE"} \union Refusals \union Answers \union Raised

NoCall == [op |-> "none"]

ExecuteCall ==
  [op : {"execute"}, capability : Capabilities,
   tampering : Tampering \union {"NONE"}, now : Times]

TransitionCall ==
  [op : {"register", "revoke", "supersede"}, mandate : Mandates,
   version : Versions, next : Versions, now : Times]

\* The steps under execution_guard that follow a granted reservation, all steps
\* that hold SQLite's write reservation, and all steps.
InFlight == {"granted", "calling", "answered"}
Guarded  == {"apply", "gate", "refused", "return"} \union InFlight
Pcs      == {"idle", "lock", "begin"} \union Guarded

-----------------------------------------------------------------------------
InForce(m, v) == current[m] = v /\ states[m][v].status = "ACTIVE"

\* A caller reads the clock before it waits for anything.
Readings == {x \in Times : x <= clock /\ clock <= x + ClockLag}

Go(t, step) == pc' = [pc EXCEPT ![t] = step]

\* The caller has its answer: nothing is held any more.
Leave(t) ==
  /\ Go(t, "idle")
  /\ call' = [call EXCEPT ![t] = NoCall]
  /\ result' = [result EXCEPT ![t] = "NONE"]

ReleaseLock(t) == lockOwner' = [lockOwner EXCEPT ![ConnectionOf[t]] = NoThread]

ReleaseGuard(t) == ReleaseLock(t) /\ writer' = NoConnection

-----------------------------------------------------------------------------
(* Issuance: the registry is read without the guard, so the consent found  *)
(* may have ended by the time the capability is in the caller's hands.     *)
(* A connection that could not commit also reads the rows it failed to     *)
(* commit; issuance through such a connection is left out.                 *)

\* Faulty: the version found is not compared with the mandate's own.
IssueAnyVersion(c, k, m, v, now, expires) ==
  /\ payload[c] = Unissued
  /\ lockOwner[k] = NoThread
  /\ writer # k
  /\ now < expires /\ expires <= now + MaxLifetime
  /\ ConsistentRows(m)
  /\ \E w \in Versions : InForce(m, w)
  /\ payload' = [payload EXCEPT ![c] =
       [mandate |-> m, version |-> v, issued_at |-> now, expires_at |-> expires]]
  /\ UNCHANGED <<registryVars, clock, ledger, lockOwner, writer, pc, call, result,
                 order, calls, reported, crashes, faults>>

Issue(c, k, m, v, now, expires) ==
  /\ payload[c] = Unissued
  /\ lockOwner[k] = NoThread
  /\ writer # k
  /\ now < expires /\ expires <= now + MaxLifetime
  /\ ConsistentRows(m)
  /\ InForce(m, v)
  /\ payload' = [payload EXCEPT ![c] =
       [mandate |-> m, version |-> v, issued_at |-> now, expires_at |-> expires]]
  /\ UNCHANGED <<registryVars, clock, ledger, lockOwner, writer, pc, call, result,
                 order, calls, reported, crashes, faults>>

-----------------------------------------------------------------------------
(* Calls arrive *)

Begin(t, arguments) ==
  /\ pc[t] = "idle"
  /\ Go(t, "lock")
  /\ call' = [call EXCEPT ![t] = arguments]
  /\ UNCHANGED <<registryVars, clock, payload, ledger, lockOwner, writer, result,
                 order, calls, reported, crashes, faults>>

BeginExecute(t) ==
  \E c \in Capabilities, x \in Tampering \union {"NONE"}, now \in Readings :
    /\ payload[c] # Unissued
    /\ Begin(t, [op |-> "execute", capability |-> c, tampering |-> x, now |-> now])

BeginTransition(t) ==
  \E o \in {"register", "revoke", "supersede"}, m \in Mandates,
     v, w \in Versions, now \in Readings :
    /\ o # "supersede" => w = v
    /\ Begin(t, [op |-> o, mandate |-> m, version |-> v, next |-> w, now |-> now])

-----------------------------------------------------------------------------
(* _transaction: the RLock, then the write reservation, both with a budget *)

AcquireLock(t) ==
  /\ pc[t] = "lock"
  /\ lockOwner[ConnectionOf[t]] = NoThread
  /\ lockOwner' = [lockOwner EXCEPT ![ConnectionOf[t]] = t]
  /\ Go(t, "begin")
  /\ UNCHANGED <<registryVars, clock, payload, ledger, writer, call, result,
                 order, calls, reported, crashes, faults>>

\* MandateStateBusyError: the budget ran out behind another thread.
LockTimeout(t) ==
  /\ pc[t] = "lock"
  /\ lockOwner[ConnectionOf[t]] # NoThread
  /\ Leave(t)
  /\ UNCHANGED <<registryVars, clock, payload, ledger, lockOwner, writer,
                 order, calls, reported, crashes, faults>>

\* Faulty: BEGIN DEFERRED, which waits for nobody.
BeginDeferred(t) ==
  /\ pc[t] = "begin"
  /\ writer' = ConnectionOf[t]
  /\ Go(t, IF call[t].op = "execute" THEN "gate" ELSE "apply")
  /\ UNCHANGED <<registryVars, clock, payload, ledger, lockOwner, call, result,
                 order, calls, reported, crashes, faults>>

BeginImmediate(t) ==
  /\ pc[t] = "begin"
  /\ writer = NoConnection
  /\ writer' = ConnectionOf[t]
  /\ Go(t, IF call[t].op = "execute" THEN "gate" ELSE "apply")
  /\ UNCHANGED <<registryVars, clock, payload, ledger, lockOwner, call, result,
                 order, calls, reported, crashes, faults>>

\* BEGIN IMMEDIATE fails: another process kept the reservation for the whole
\* budget, or this connection is still inside a transaction that it could not
\* commit.
\* Faulty: a BEGIN IMMEDIATE of another process's making is waited out.
BeginFailsAlone(t) ==
  /\ pc[t] = "begin"
  /\ writer = ConnectionOf[t]
  /\ ReleaseLock(t)
  /\ Leave(t)
  /\ UNCHANGED <<registryVars, clock, payload, ledger, writer,
                 order, calls, reported, crashes, faults>>

BeginFails(t) ==
  /\ pc[t] = "begin"
  /\ writer # NoConnection
  /\ ReleaseLock(t)
  /\ Leave(t)
  /\ UNCHANGED <<registryVars, clock, payload, ledger, writer,
                 order, calls, reported, crashes, faults>>

-----------------------------------------------------------------------------
(* register_active, revoke and supersede, from BEGIN to COMMIT or ROLLBACK *)

Accepted(a) ==
  /\ ConsistentRows(a.mandate)
  /\ \/ a.op = "register" /\ CanRegister(a.mandate, a.version, a.now)
     \/ a.op = "revoke" /\ CanEnd(a.mandate, a.version, a.now)
     \/ a.op = "supersede" /\ CanEnd(a.mandate, a.version, a.now) /\ a.next > a.version

ApplyTransition(t) ==
  /\ pc[t] = "apply"
  /\ \/ /\ call[t].op = "register"
        /\ RegisterActive(call[t].mandate, call[t].version, call[t].now)
     \/ /\ call[t].op = "revoke"
        /\ Revoke(call[t].mandate, call[t].version, call[t].now)
     \/ /\ call[t].op = "supersede"
        /\ Supersede(call[t].mandate, call[t].version, call[t].next, call[t].now)
  /\ ReleaseGuard(t)
  /\ Leave(t)
  /\ UNCHANGED <<clock, payload, ledger, order, calls, reported, crashes, faults>>

\* The transition raises and rolls back, or finds its work already done.
RefuseTransition(t) ==
  /\ pc[t] = "apply"
  /\ ~Accepted(call[t])
  /\ ReleaseGuard(t)
  /\ Leave(t)
  /\ UNCHANGED <<registryVars, clock, payload, ledger, order, calls, reported,
                 crashes, faults>>

-----------------------------------------------------------------------------
(* validate_and_reserve_execution *)

\* The first check of the gate, up to the registry lookup, that refuses.
PresentationRefusal(a) ==
  LET p == payload[a.capability] IN
  CASE a.tampering = "SIGNATURE_INVALID"         -> a.tampering
    [] a.tampering # "SIGNATURE_INVALID" /\ a.now >= p.expires_at
                                                 -> "CAPABILITY_EXPIRED"
    [] a.tampering # "SIGNATURE_INVALID" /\ a.now < p.expires_at
         /\ p.issued_at > a.now + MaxSkew        -> "CAPABILITY_NOT_YET_VALID"
    [] OTHER                                     -> a.tampering

\* What the trusted registry says about the consent a payload is bound to.
StateRefusal(p) ==
  LET m == p.mandate
      v == p.version
  IN CASE ~ConsistentRows(m)                     -> "MANDATE_STATE_CORRUPT"
       [] ConsistentRows(m) /\ ~Registered(m)    -> "MANDATE_STATE_MISSING"
       [] ConsistentRows(m) /\ Registered(m) /\ v # current[m] ->
            IF states[m][v].status = "SUPERSEDED"
            THEN "MANDATE_SUPERSEDED" ELSE "MANDATE_VERSION_MISMATCH"
       [] ConsistentRows(m) /\ Registered(m) /\ v = current[m] ->
            CASE states[m][v].status = "ACTIVE"     -> "NONE"
              [] states[m][v].status = "REVOKED"    -> "MANDATE_REVOKED"
              [] OTHER                              -> "MANDATE_SUPERSEDED"

Conclude(t, r) ==
  /\ Go(t, "return")
  /\ result' = [result EXCEPT ![t] = r]

\* Nothing is consumed: the checks before the registry, and a used nonce.
RefusePresentation(t) ==
  /\ pc[t] = "gate"
  /\ LET r == PresentationRefusal(call[t]) IN r # "NONE" /\ Conclude(t, r)
  /\ UNCHANGED <<registryVars, clock, payload, ledger, lockOwner, writer, call,
                 order, calls, reported, crashes, faults>>

\* Faulty: the mandate state answers before the ledger is asked.
RefuseUsedNonceByState(t) ==
  LET r == StateRefusal(payload[call[t].capability]) IN
  /\ pc[t] = "gate"
  /\ PresentationRefusal(call[t]) = "NONE"
  /\ ledger[NonceOf[call[t].capability]].status # "FREE"
  /\ Conclude(t, IF r = "NONE" THEN "NONCE_ALREADY_USED" ELSE r)
  /\ UNCHANGED <<registryVars, clock, payload, ledger, lockOwner, writer, call,
                 order, calls, reported, crashes, faults>>

RefuseUsedNonce(t) ==
  /\ pc[t] = "gate"
  /\ PresentationRefusal(call[t]) = "NONE"
  /\ ledger[NonceOf[call[t].capability]].status # "FREE"
  /\ Conclude(t, "NONCE_ALREADY_USED")
  /\ UNCHANGED <<registryVars, clock, payload, ledger, lockOwner, writer, call,
                 order, calls, reported, crashes, faults>>

\* Faulty: an uncertain outcome may be tried again.
ReserveAgain(t) ==
  LET c == call[t].capability
      r == StateRefusal(payload[c])
  IN /\ pc[t] = "gate"
     /\ PresentationRefusal(call[t]) = "NONE"
     /\ ledger[NonceOf[c]].status \in {"FREE", "UNCERTAIN"}
     /\ ledger' = [ledger EXCEPT ![NonceOf[c]] =
                     [status |-> "RESERVED", request |-> RequestOf[c]]]
     /\ Go(t, IF r = "NONE" THEN "granted" ELSE "refused")
     /\ result' = [result EXCEPT ![t] = r]
     /\ UNCHANGED <<registryVars, clock, payload, lockOwner, writer, call,
                    order, calls, reported, crashes, faults>>

\* Faulty: the guard ends with the reservation, before the provider call.
ReserveUnguarded(t) ==
  LET c == call[t].capability
      r == StateRefusal(payload[c])
  IN /\ pc[t] = "gate"
     /\ PresentationRefusal(call[t]) = "NONE"
     /\ ledger[NonceOf[c]].status = "FREE"
     /\ ledger' = [ledger EXCEPT ![NonceOf[c]] =
                     [status |-> "RESERVED", request |-> RequestOf[c]]]
     /\ Go(t, IF r = "NONE" THEN "granted" ELSE "refused")
     /\ result' = [result EXCEPT ![t] = r]
     /\ ReleaseGuard(t)
     /\ UNCHANGED <<registryVars, clock, payload, call,
                    order, calls, reported, crashes, faults>>

\* The ledger is a database of its own: its row is there from now on, whatever
\* becomes of the guard's transaction.
Reserve(t) ==
  LET c == call[t].capability
      r == StateRefusal(payload[c])
  IN /\ pc[t] = "gate"
     /\ PresentationRefusal(call[t]) = "NONE"
     /\ ledger[NonceOf[c]].status = "FREE"
     /\ ledger' = [ledger EXCEPT ![NonceOf[c]] =
                     [status |-> "RESERVED", request |-> RequestOf[c]]]
     /\ Go(t, IF r = "NONE" THEN "granted" ELSE "refused")
     /\ result' = [result EXCEPT ![t] = r]
     /\ UNCHANGED <<registryVars, clock, payload, lockOwner, writer, call,
                    order, calls, reported, crashes, faults>>

\* SQLiteExecutionLedger._transition: only this reservation, only while RESERVED.
Transition(c, status) ==
  LET n == NonceOf[c] IN
  IF ledger[n] = [status |-> "RESERVED", request |-> RequestOf[c]]
  THEN ledger' = [ledger EXCEPT ![n].status = status]
  ELSE UNCHANGED ledger

\* Faulty: the refusal leaves the nonce reserved.
RefuseUnmarked(t) ==
  /\ pc[t] = "refused"
  /\ Go(t, "return")
  /\ UNCHANGED <<registryVars, clock, payload, ledger, lockOwner, writer, call, result,
                 order, calls, reported, crashes, faults>>

\* The gate ignores what mark_rejected returns.
MarkRefused(t) ==
  /\ pc[t] = "refused"
  /\ Transition(call[t].capability, "REJECTED")
  /\ Go(t, "return")
  /\ UNCHANGED <<registryVars, clock, payload, lockOwner, writer, call, result,
                 order, calls, reported, crashes, faults>>

-----------------------------------------------------------------------------
(* The provider call, under the guard *)

Send(t) ==
  LET c == call[t].capability IN
  /\ pc[t] = "granted"
  /\ calls' = [calls EXCEPT ![c] = @ + 1]
  /\ order' = [order EXCEPT ![c] = IF @ = "none" THEN "sent" ELSE @]
  /\ Go(t, "calling")
  /\ UNCHANGED <<registryVars, clock, payload, ledger, lockOwner, writer, call,
                 result, reported, crashes, faults>>

\* How create_order classifies an exchange.  A timeout or an unreadable answer
\* says nothing; a status outside 2xx is taken for a rejection.
Classified(c, r) ==
  \/ r = "RECEIPT" /\ order[c] = "created"
  \/ r = "PROVIDER_REJECTED" /\ (order[c] = "declined" \/ ~DefiniteErrors)
  \/ r = "OUTCOME_UNCERTAIN"

Answer(t) ==
  /\ pc[t] = "calling"
  /\ \E r \in Answers :
       /\ Classified(call[t].capability, r)
       /\ result' = [result EXCEPT ![t] = r]
  /\ Go(t, "answered")
  /\ UNCHANGED <<registryVars, clock, payload, ledger, lockOwner, writer, call,
                 order, calls, reported, crashes, faults>>

\* Faulty: whatever is not a receipt is a rejection.
LedgerStatusForFailure(r) == IF r = "RECEIPT" THEN "SUCCEEDED" ELSE "REJECTED"

LedgerStatusFor(r) ==
  CASE r = "RECEIPT"           -> "SUCCEEDED"
    [] r = "PROVIDER_REJECTED" -> "REJECTED"
    [] OTHER                   -> "UNCERTAIN"

\* Faulty: an uncertain outcome is raised and not marked.
MarkDefinite(t) ==
  LET c == call[t].capability IN
  /\ pc[t] = "answered"
  /\ IF result[t] = "OUTCOME_UNCERTAIN"
     THEN UNCHANGED ledger ELSE Transition(c, LedgerStatusFor(result[t]))
  /\ Go(t, "return")
  /\ UNCHANGED <<registryVars, clock, payload, lockOwner, writer, call, result,
                 order, calls, reported, crashes, faults>>

Mark(t) ==
  LET c == call[t].capability IN
  /\ pc[t] = "answered"
  /\ Transition(c, LedgerStatusFor(result[t]))
  /\ IF ledger[NonceOf[c]] = [status |-> "RESERVED", request |-> RequestOf[c]]
     THEN Go(t, "return") /\ UNCHANGED result
     ELSE Conclude(t, "LEDGER_TRANSITION_FAILED")
  /\ UNCHANGED <<registryVars, clock, payload, lockOwner, writer, call,
                 order, calls, reported, crashes, faults>>

\* Faulty: a refusal ends the guard with ROLLBACK, as an error does.
ReturnRolledBack(t) ==
  LET c == call[t].capability
  IN /\ pc[t] = "return"
     /\ UNCHANGED registryVars
     /\ reported' = IF result[t] \in StateReasons \union {"RECEIPT"}
                    THEN reported \union {<<c, result[t]>>} ELSE reported
     /\ ReleaseGuard(t)
     /\ Leave(t)
     /\ UNCHANGED <<clock, payload, ledger, order, calls, crashes, faults>>

\* The guard ends: COMMIT with the refusal event, if there is one, or ROLLBACK
\* when the execution raised.
Return(t) ==
  LET c == call[t].capability
      p == payload[c]
  IN /\ pc[t] = "return"
     /\ IF result[t] \in StateReasons
        THEN RecordExecutionRefusal(p.mandate, p.version, NonceOf[c], call[t].now)
        ELSE UNCHANGED registryVars
     /\ reported' = IF result[t] \in StateReasons \union {"RECEIPT"}
                    THEN reported \union {<<c, result[t]>>} ELSE reported
     /\ ReleaseGuard(t)
     /\ Leave(t)
     /\ UNCHANGED <<clock, payload, ledger, order, calls, crashes, faults>>

-----------------------------------------------------------------------------
(* Failures *)

\* The ledger raises instead of answering: the guard rolls back and the nonce
\* stays as it is.
LedgerFault(t) ==
  /\ faults < MaxFaults
  /\ \/ pc[t] = "gate" /\ PresentationRefusal(call[t]) = "NONE"
     \/ pc[t] \in {"refused", "answered"}
  /\ Conclude(t, "STORAGE_FAULT")
  /\ faults' = faults + 1
  /\ UNCHANGED <<registryVars, clock, payload, ledger, lockOwner, writer, call,
                 order, calls, reported, crashes>>

\* COMMIT itself raises.  _transaction releases the RLock and does not roll
\* back, so the connection keeps the write reservation until its process ends.
CommitFails(t) ==
  /\ faults < MaxFaults
  /\ \/ pc[t] = "apply" /\ Accepted(call[t])
     \/ pc[t] = "return" /\ result[t] \notin Raised
  /\ faults' = faults + 1
  /\ ReleaseLock(t)
  /\ Leave(t)
  /\ UNCHANGED <<registryVars, clock, payload, ledger, writer, order, calls,
                 reported, crashes>>

\* A process dies: its threads are gone and SQLite rolls its transaction back.
\* A request on its way to the provider is not called back.
Crash(k) ==
  LET dead == {t \in Threads : ConnectionOf[t] = k} IN
  /\ crashes < MaxCrashes
  /\ crashes' = crashes + 1
  /\ writer = k \/ \E t \in dead : pc[t] # "idle"
  /\ pc' = [t \in Threads |-> IF t \in dead THEN "idle" ELSE pc[t]]
  /\ call' = [t \in Threads |-> IF t \in dead THEN NoCall ELSE call[t]]
  /\ result' = [t \in Threads |-> IF t \in dead THEN "NONE" ELSE result[t]]
  /\ lockOwner' = [lockOwner EXCEPT ![k] = NoThread]
  /\ writer' = IF writer = k THEN NoConnection ELSE writer
  /\ UNCHANGED <<registryVars, clock, payload, ledger, order, calls, reported, faults>>

-----------------------------------------------------------------------------
(* The provider and the clock *)

Provider(c) ==
  /\ order[c] = "sent"
  /\ \E outcome \in {"created", "declined"} : order' = [order EXCEPT ![c] = outcome]
  /\ UNCHANGED <<registryVars, clock, payload, ledger, lockOwner, writer, pc, call,
                 result, calls, reported, crashes, faults>>

Tick ==
  /\ clock + 1 \in Times
  /\ clock' = clock + 1
  /\ UNCHANGED <<registryVars, payload, ledger, lockOwner, writer, pc, call, result,
                 order, calls, reported, crashes, faults>>

-----------------------------------------------------------------------------
Init ==
  /\ RegistryInit
  /\ clock \in {x \in Times : \A y \in Times : x <= y}
  /\ payload = [c \in Capabilities |-> Unissued]
  /\ ledger = [n \in Nonces |-> [status |-> "FREE", request |-> NoRequest]]
  /\ lockOwner = [k \in Connections |-> NoThread]
  /\ writer = NoConnection
  /\ pc = [t \in Threads |-> "idle"]
  /\ call = [t \in Threads |-> NoCall]
  /\ result = [t \in Threads |-> "NONE"]
  /\ order = [c \in Capabilities |-> "none"]
  /\ calls = [c \in Capabilities |-> 0]
  /\ reported = {}
  /\ crashes = 0
  /\ faults = 0

\* The steps a thread takes by itself once a call has begun.
Step(t) ==
  \/ AcquireLock(t) \/ LockTimeout(t) \/ BeginImmediate(t) \/ BeginFails(t)
  \/ ApplyTransition(t) \/ RefuseTransition(t)
  \/ RefusePresentation(t) \/ RefuseUsedNonce(t) \/ Reserve(t) \/ MarkRefused(t)
  \/ Send(t) \/ Answer(t) \/ Mark(t) \/ Return(t)

Next ==
  \/ \E c \in Capabilities, k \in Connections, m \in Mandates, v \in Versions :
       \E now \in Readings : \E e \in (now + 1)..(now + MaxLifetime) :
         Issue(c, k, m, v, now, e)
  \/ \E t \in Executors : BeginExecute(t)
  \/ \E t \in Administrators : BeginTransition(t)
  \/ \E t \in Threads : Step(t)
  \/ \E t \in Threads : LedgerFault(t) \/ CommitFails(t)
  \/ \E k \in Connections : Crash(k)
  \/ \E c \in Capabilities : Provider(c)
  \/ Tick

Spec == Init /\ [][Next]_vars

\* Every wait of a thread is bounded: the RLock and BEGIN IMMEDIATE by the lock
\* budget, the provider call by the adapter's timeout.
FairSpec == Spec /\ \A t \in Threads : WF_vars(Step(t))

-----------------------------------------------------------------------------
(* Properties *)

\* Every variable has the shape of the object or table it stands for.
TypeOK ==
  /\ RegistryTypeOK
  /\ clock \in Times
  /\ payload \in [Capabilities -> PayloadType \union {Unissued}]
  /\ ledger \in [Nonces -> LedgerType]
  /\ lockOwner \in [Connections -> Threads \union {NoThread}]
  /\ writer \in Connections \union {NoConnection}
  /\ pc \in [Threads -> Pcs]
  /\ call \in [Threads -> {NoCall} \union ExecuteCall \union TransitionCall]
  /\ result \in [Threads -> Results]
  /\ order \in [Capabilities -> {"none", "sent", "created", "declined"}]
  /\ calls \in [Capabilities -> Nat]
  /\ reported \in SUBSET (Capabilities \X Results)
  /\ crashes \in 0..MaxCrashes
  /\ faults \in 0..MaxFaults

\* At most one thread of all processes is between BEGIN IMMEDIATE and the end of
\* its transaction, a timeout, a failed COMMIT or a crash elsewhere included.
GuardIsExclusive ==
  \A s, t \in Threads : pc[s] \in Guarded /\ pc[t] \in Guarded => s = t

\* From the reservation of its nonce until the outcome is on the ledger, the
\* consent a payment rests on is in force: a revocation or replacement orders
\* before the check or after the provider's answer.
InFlightConsent ==
  \A t \in Threads :
    pc[t] \in InFlight =>
      LET p == payload[call[t].capability] IN InForce(p.mandate, p.version)

\* A nonce pays for one create_order call at most: over all capabilities that
\* carry it, over all threads and processes, and over crashes and retries.
SingleUse ==
  \A c, d \in Capabilities :
    NonceOf[c] = NonceOf[d] /\ calls[c] > 0 /\ calls[d] > 0 => c = d /\ calls[c] = 1

\* A nonce in the refusal log is dead: its ledger row is REJECTED and no
\* capability that carries it ever reached the provider.
RefusalIsFinal ==
  \A m \in Mandates : \A i \in DOMAIN audit[m] :
    LET n == audit[m][i].nonce IN
    n # NoNonce =>
      /\ ledger[n].status = "REJECTED"
      /\ \A c \in Capabilities : NonceOf[c] = n => calls[c] = 0

\* The ledger can be reconciled with the provider: SUCCEEDED names a request
\* whose order exists, REJECTED one whose order does not and never will.
LedgerTellsTruth ==
  \A c \in Capabilities :
    LET row == ledger[NonceOf[c]] IN
    row.request = RequestOf[c] =>
      /\ row.status = "SUCCEEDED" => order[c] = "created"
      /\ row.status = "REJECTED" => order[c] \in {"none", "declined"}

\* What a caller was told is on record: a receipt is a SUCCEEDED row, a refusal
\* for the mandate's state is an event in the mandate's log.
RepliesAreRecorded ==
  \A reply \in reported :
    LET c == reply[1]
        p == payload[c]
    IN IF reply[2] = "RECEIPT"
       THEN ledger[NonceOf[c]] = [status |-> "SUCCEEDED", request |-> RequestOf[c]]
       ELSE \E i \in DOMAIN audit[p.mandate] :
              /\ audit[p.mandate][i].nonce = NonceOf[c]
              /\ audit[p.mandate][i].version = p.version

\* A nonce is left RESERVED for good only by a crash or a storage fault; until
\* one happens some thread is still working on it.
ReservedHasOwner ==
  \A n \in Nonces :
    ledger[n].status = "RESERVED" =>
      \/ crashes + faults > 0
      \/ \E t \in Threads :
           pc[t] \in InFlight \union {"refused"} /\ NonceOf[call[t].capability] = n

\* What test_provider_non_2xx_is_a_definite_rejection takes for granted of every
\* status outside 2xx: a REJECTED nonce is no order, now or later.
RejectedMeansNoOrder ==
  \A c \in Capabilities :
    ledger[NonceOf[c]] = [status |-> "REJECTED", request |-> RequestOf[c]]
      => order[c] \in {"none", "declined"}

\* Every call comes back, whatever the other threads and processes do: a wait
\* behind a payment in flight, behind another process and behind a connection
\* that never commits ends in MandateStateBusyError.
EveryCallReturns == \A t \in Threads : pc[t] # "idle" ~> pc[t] = "idle"

-----------------------------------------------------------------------------
(* The promise that the threads keep.  A nonce reserved for a request that is *)
(* still to be sent is not spent yet: Send is the step the promise speaks of. *)

Gate == INSTANCE ConsentGate WITH
  inForce <- [m \in Mandates |-> {v \in Versions : states[m][v].status = "ACTIVE"}],
  ever <- [m \in Mandates |-> {v \in Versions : Present(m, v)}],
  bound <- [c \in Capabilities |->
              IF payload[c] = Unissued THEN Unissued
              ELSE [mandate |-> payload[c].mandate, version |-> payload[c].version]],
  spent <- {n \in Nonces :
              /\ ledger[n].status # "FREE"
              /\ \A t \in Threads :
                   pc[t] = "granted" => NonceOf[call[t].capability] # n},
  ordered <- {c \in Capabilities : calls[c] > 0}

\* Threads, locks, the two databases and crashes implement the one-step gate.
ImplementsGate == Gate!GateSpec

\* Nothing but the registry's own operations ever changes its tables, and the
\* gate logs a nonce once only.
ImplementsRegistry == RegistrySpec
=============================================================================
