--------------------------- MODULE ExecutionProofs ---------------------------
(***************************************************************************)
(* Theorems about the execution kernel, for any number of processes,       *)
(* threads, capabilities, mandates and versions, and without the bounds of *)
(* the model-checking runs.                                                *)
(***************************************************************************)
EXTENDS GuardedExecution, MandateStateProofs

\* The steps of an execution under the guard.
Executing == {"gate", "refused", "return"} \union InFlight

\* A thread waits with a call of either kind; under the guard, the kind fits the
\* step, and what is executed has been issued.
CallsFit ==
  \A t \in Threads :
    /\ pc[t] \in {"lock", "begin"} =>
         \/ call[t] \in TransitionCall
         \/ call[t] \in ExecuteCall /\ payload[call[t].capability] # Unissued
    /\ pc[t] = "apply" => call[t] \in TransitionCall
    /\ pc[t] \in Executing =>
         call[t] \in ExecuteCall /\ payload[call[t].capability] # Unissued

\* _transaction holds the RLock from acquire to release and, from BEGIN
\* IMMEDIATE on, the write reservation with it.
GuardHeld ==
  \A t \in Threads :
    /\ pc[t] \in {"begin"} \union Guarded => lockOwner[ConnectionOf[t]] = t
    /\ pc[t] \in Guarded => writer = ConnectionOf[t]

ControlTypeOK ==
  /\ pc \in [Threads -> Pcs]
  /\ lockOwner \in [Connections -> Threads \union {NoThread}]
  /\ writer \in Connections \union {NoConnection}

GuardInvariant == ControlTypeOK /\ GuardHeld

-----------------------------------------------------------------------------
(* The guard *)

LEMMA GuardStart == Init => GuardInvariant
<1> SUFFICES ASSUME Init PROVE GuardInvariant
  OBVIOUS
<1>1. ControlTypeOK
  BY DEF Init, ControlTypeOK, Pcs
<1>2. GuardHeld
  BY DEF Init, GuardHeld, Guarded, InFlight
<1> QED BY <1>1, <1>2 DEF GuardInvariant

LEMMA GuardStep == GuardInvariant /\ [Next]_vars => GuardInvariant'
<1> SUFFICES ASSUME GuardInvariant, [Next]_vars PROVE GuardInvariant'
  OBVIOUS
<1> USE ExecutionAssumption
<1>1. CASE UNCHANGED <<lockOwner, writer, pc>>
  BY <1>1 DEF GuardInvariant, ControlTypeOK, GuardHeld
<1>2. ASSUME NEW t \in Threads, Step(t)
      PROVE  GuardInvariant'
  <2> USE DEF GuardInvariant, ControlTypeOK, GuardHeld, Go, Leave, ReleaseLock, ReleaseGuard,
              Conclude, Pcs, Guarded, InFlight
  <2>1. CASE AcquireLock(t)
    BY <2>1 DEF AcquireLock
  <2>2. CASE LockTimeout(t)
    BY <2>2 DEF LockTimeout
  <2>3. CASE BeginImmediate(t)
    BY <2>3 DEF BeginImmediate
  <2>4. CASE BeginFails(t)
    BY <2>4 DEF BeginFails
  <2>5. CASE ApplyTransition(t)
    BY <2>5 DEF ApplyTransition
  <2>6. CASE RefuseTransition(t)
    BY <2>6 DEF RefuseTransition
  <2>7. CASE RefusePresentation(t)
    BY <2>7 DEF RefusePresentation
  <2>8. CASE RefuseUsedNonce(t)
    BY <2>8 DEF RefuseUsedNonce
  <2>9. CASE Reserve(t)
    BY <2>9 DEF Reserve
  <2>10. CASE MarkRefused(t)
    BY <2>10 DEF MarkRefused
  <2>11. CASE Send(t)
    BY <2>11 DEF Send
  <2>12. CASE Answer(t)
    BY <2>12 DEF Answer
  <2>13. CASE Mark(t)
    BY <2>13 DEF Mark
  <2>14. CASE Return(t)
    BY <2>14 DEF Return
  <2> QED
    BY <1>2, <2>1, <2>2, <2>3, <2>4, <2>5, <2>6, <2>7, <2>8, <2>9, <2>10, <2>11, <2>12,
       <2>13, <2>14 DEF Step
<1>3. ASSUME NEW t \in Threads, LedgerFault(t) \/ CommitFails(t)
      PROVE  GuardInvariant'
  <2> USE DEF GuardInvariant, ControlTypeOK, GuardHeld, Go, Leave, ReleaseLock, Conclude,
              Pcs, Guarded, InFlight
  <2>1. CASE LedgerFault(t)
    BY <2>1 DEF LedgerFault
  <2>2. CASE CommitFails(t)
    BY <2>2 DEF CommitFails
  <2> QED BY <1>3, <2>1, <2>2
<1>4. ASSUME NEW k \in Connections, Crash(k)
      PROVE  GuardInvariant'
  BY <1>4 DEF Crash, GuardInvariant, ControlTypeOK, GuardHeld, Pcs, Guarded, InFlight
<1>5. ASSUME NEW t \in Threads, BeginExecute(t) \/ BeginTransition(t)
      PROVE  GuardInvariant'
  BY <1>5 DEF BeginExecute, BeginTransition, Begin, Go, GuardInvariant, ControlTypeOK,
     GuardHeld, Pcs, Guarded, InFlight
<1>6. CASE Tick \/ \E c \in Capabilities : Provider(c)
  BY <1>1, <1>6 DEF Tick, Provider
<1>7. ASSUME NEW c \in Capabilities, NEW k \in Connections, NEW m \in Mandates,
             NEW v \in Versions, NEW now \in Readings, NEW e \in (now + 1)..(now + MaxLifetime),
             Issue(c, k, m, v, now, e)
      PROVE  GuardInvariant'
  BY <1>1, <1>7 DEF Issue
<1>8. CASE UNCHANGED vars
  BY <1>1, <1>8 DEF vars, executionVars
<1> QED
  BY <1>2, <1>3, <1>4, <1>5, <1>6, <1>7, <1>8 DEF Next

\* Whatever the number of processes and threads, and whichever of them crash, time
\* out or fail to commit: two threads are never under the guard at once.
THEOREM ExecutionGuardIsExclusive == Spec => []GuardIsExclusive
<1>1. GuardInvariant => GuardIsExclusive
  BY DEF GuardInvariant, GuardHeld, GuardIsExclusive
<1> QED BY GuardStart, GuardStep, <1>1, PTL DEF Spec

-----------------------------------------------------------------------------
(* Types *)

\* What the registry's invariant and the shape of the calls add to TypeOK to make
\* it inductive: a refusal is logged for the version its capability is bound to.
TypeInvariant == TypeOK /\ RegistryInvariant /\ CallsFit

\* What a call names is in the sets the tables are indexed by.
LEMMA ExecuteCallType ==
  ASSUME TypeInvariant, NEW t \in Threads, pc[t] \in Executing
  PROVE  /\ call[t].capability \in Capabilities
         /\ call[t].now \in Times
         /\ payload[call[t].capability] \in PayloadType
         /\ NonceOf[call[t].capability] \in Nonces
<1>1. call[t] \in ExecuteCall /\ payload[call[t].capability] # Unissued
  BY DEF TypeInvariant, CallsFit
<1>2. call[t].capability \in Capabilities /\ call[t].now \in Times
  BY <1>1 DEF ExecuteCall
<1>3. payload[call[t].capability] \in PayloadType
  BY <1>1, <1>2 DEF TypeInvariant, TypeOK
<1> QED BY <1>2, <1>3, ExecutionAssumption

\* Every reason a mandate state is refused for is one the gate can return.
LEMMA StateRefusalType ==
  ASSUME NEW p
  PROVE  StateRefusal(p) \in StateReasons \union {"NONE"}
BY DEF StateRefusal, StateReasons

LEMMA PresentationRefusalType ==
  ASSUME TypeInvariant, NEW t \in Threads, pc[t] \in Executing
  PROVE  PresentationRefusal(call[t]) \in Results
<1>1. call[t].tampering \in TamperReasons \union {"NONE"}
  BY ExecutionAssumption DEF TypeInvariant, CallsFit, ExecuteCall
<1> QED BY <1>1 DEF PresentationRefusal, Results, Refusals

\* SQLiteExecutionLedger._transition keeps the ledger well-formed.
LEMMA TransitionType ==
  ASSUME ledger \in [Nonces -> LedgerType], NEW c \in Capabilities,
         NEW status \in LedgerStatus, Transition(c, status)
  PROVE  ledger' \in [Nonces -> LedgerType]
<1>1. NonceOf[c] \in Nonces /\ ledger[NonceOf[c]] \in LedgerType
  BY ExecutionAssumption
<1>2. [ledger[NonceOf[c]] EXCEPT !.status = status] \in LedgerType
  BY <1>1 DEF LedgerType
<1> HIDE DEF LedgerType
<1> QED BY <1>1, <1>2 DEF Transition

LEMMA TypeStart == Init => TypeInvariant
<1> SUFFICES ASSUME Init PROVE TypeInvariant
  OBVIOUS
<1>1. RegistryInvariant
  BY RegistryStart DEF Init
<1>2. TypeOK
  BY <1>1, ExecutionAssumption
  DEF Init, TypeOK, RegistryInvariant, LedgerType, Pcs, Results
<1>3. CallsFit
  BY DEF Init, CallsFit, Executing, InFlight
<1> QED BY <1>1, <1>2, <1>3 DEF TypeInvariant

\* A step that leaves the registry's tables alone keeps its invariant.
LEMMA RegistryUntouched ==
  ASSUME RegistryInvariant, UNCHANGED registryVars
  PROVE  RegistryInvariant'
BY RegistryStep

LEMMA TransitionStep ==
  ASSUME TypeInvariant, NEW t \in Threads, ApplyTransition(t)
  PROVE  RegistryInvariant'
<1>1. /\ call[t].mandate \in Mandates
      /\ call[t].version \in Versions /\ call[t].next \in Versions
      /\ call[t].now \in Times
  BY DEF TypeInvariant, CallsFit, ApplyTransition, TransitionCall
<1> QED
  BY <1>1, RegisterActivePreserves, RevokePreserves, SupersedePreserves
  DEF ApplyTransition, TypeInvariant

LEMMA ReturnStep ==
  ASSUME TypeInvariant, NEW t \in Threads, Return(t)
  PROVE  RegistryInvariant'
<1>1. pc[t] \in Executing
  BY DEF Return, Executing
<1>2. CASE result[t] \in StateReasons
  BY <1>1, <1>2, ExecuteCallType, RecordExecutionRefusalPreserves
  DEF Return, PayloadType, TypeInvariant
<1>3. CASE result[t] \notin StateReasons
  BY <1>3, RegistryUntouched DEF Return, TypeInvariant
<1> QED BY <1>2, <1>3

LEMMA StepTypes ==
  ASSUME TypeInvariant, NEW t \in Threads, Step(t)
  PROVE  TypeInvariant'
<1> USE DEF Go, Leave, ReleaseLock, ReleaseGuard, Conclude
<1>1. RegistryInvariant'
  <2>1. CASE ApplyTransition(t) \/ Return(t)
    BY <2>1, TransitionStep, ReturnStep
  <2>2. CASE ~(ApplyTransition(t) \/ Return(t))
    <3>1. UNCHANGED registryVars
      BY <2>2 DEF Step, AcquireLock, LockTimeout, BeginImmediate, BeginFails, RefuseTransition,
         RefusePresentation, RefuseUsedNonce, Reserve, MarkRefused, Send, Answer, Mark
    <3> QED BY <3>1, RegistryUntouched DEF TypeInvariant
  <2> QED BY <2>1, <2>2
<1>2. CallsFit'
  <2> USE DEF TypeInvariant, TypeOK, CallsFit, Executing, InFlight, Pcs, Guarded
  <2>1. payload' = payload
    BY DEF Step, AcquireLock, LockTimeout, BeginImmediate, BeginFails, ApplyTransition,
       RefuseTransition, RefusePresentation, RefuseUsedNonce, Reserve, MarkRefused, Send, Answer,
       Mark, Return
  <2>2. CASE LockTimeout(t) \/ BeginFails(t) \/ ApplyTransition(t) \/ RefuseTransition(t) \/ Return(t)
    BY <2>1, <2>2 DEF LockTimeout, BeginFails, ApplyTransition, RefuseTransition, Return
  <2>3. CASE AcquireLock(t)
    BY <2>1, <2>3 DEF AcquireLock
  <2>4. CASE BeginImmediate(t)
    BY <2>1, <2>4 DEF BeginImmediate, TransitionCall, ExecuteCall
  <2>5. CASE RefusePresentation(t) \/ RefuseUsedNonce(t) \/ Reserve(t) \/ MarkRefused(t)
    BY <2>1, <2>5 DEF RefusePresentation, RefuseUsedNonce, Reserve, MarkRefused
  <2>6. CASE Send(t) \/ Answer(t) \/ Mark(t)
    BY <2>1, <2>6 DEF Send, Answer, Mark
  <2> QED BY <2>2, <2>3, <2>4, <2>5, <2>6 DEF Step
<1>3. TypeOK'
  <2> USE ExecutionAssumption DEF TypeInvariant, TypeOK, Pcs, Guarded, InFlight
  <2>0. RegistryTypeOK'
    BY <1>1 DEF RegistryInvariant
  <2>1. CASE AcquireLock(t) \/ BeginImmediate(t)
    BY <2>0, <2>1 DEF AcquireLock, BeginImmediate
  <2>2. CASE LockTimeout(t) \/ BeginFails(t) \/ RefuseTransition(t)
    BY <2>0, <2>2 DEF LockTimeout, BeginFails, RefuseTransition, Results
  <2>3. CASE ApplyTransition(t)
    BY <2>0, <2>3 DEF ApplyTransition, Results
  <2>4. CASE RefusePresentation(t) \/ RefuseUsedNonce(t)
    BY <2>0, <2>4, PresentationRefusalType DEF RefusePresentation, RefuseUsedNonce, Results,
       Refusals, Executing
  <2>5. CASE Reserve(t)
    BY <2>0, <2>5, ExecuteCallType, StateRefusalType DEF Reserve, LedgerType, LedgerStatus,
       Results, Refusals, Executing
  <2>6. CASE MarkRefused(t)
    <3>1. ledger' \in [Nonces -> LedgerType]
      BY <2>6, ExecuteCallType, TransitionType DEF MarkRefused, LedgerStatus, Executing
    <3> QED BY <2>0, <2>6, <3>1 DEF MarkRefused
  <2>7. CASE Send(t)
    BY <2>0, <2>7, ExecuteCallType DEF Send, Executing
  <2>8. CASE Answer(t)
    BY <2>0, <2>8 DEF Answer, Results
  <2>9. CASE Mark(t)
    <3>1. LedgerStatusFor(result[t]) \in LedgerStatus
      BY DEF LedgerStatusFor, LedgerStatus
    <3>2. ledger' \in [Nonces -> LedgerType]
      BY <2>9, <3>1, ExecuteCallType, TransitionType DEF Mark, Executing
    <3> QED BY <2>0, <2>9, <3>2 DEF Mark, Results, Raised
  <2>10. CASE Return(t)
    BY <2>0, <2>10, ExecuteCallType DEF Return, Results, Refusals, Answers, Executing
  <2> QED
    BY <2>1, <2>2, <2>3, <2>4, <2>5, <2>6, <2>7, <2>8, <2>9, <2>10 DEF Step
<1> QED BY <1>1, <1>2, <1>3 DEF TypeInvariant

LEMMA FaultTypes ==
  ASSUME TypeInvariant, NEW t \in Threads, LedgerFault(t) \/ CommitFails(t)
  PROVE  TypeInvariant'
<1>1. RegistryInvariant'
  BY RegistryUntouched DEF LedgerFault, CommitFails, TypeInvariant
<1>2. CallsFit'
  BY DEF LedgerFault, CommitFails, Conclude, Go, Leave, ReleaseLock, TypeInvariant, TypeOK,
     CallsFit, Executing, InFlight
<1>3. TypeOK'
  <2> USE <1>1, ExecutionAssumption DEF Conclude, Go, Leave, ReleaseLock, TypeInvariant, TypeOK,
          RegistryInvariant, Results, Raised, Pcs, Guarded
  <2>1. CASE LedgerFault(t)
    BY <2>1 DEF LedgerFault
  <2>2. CASE CommitFails(t)
    BY <2>2 DEF CommitFails
  <2> QED BY <2>1, <2>2
<1> QED BY <1>1, <1>2, <1>3 DEF TypeInvariant

LEMMA CrashTypes ==
  ASSUME TypeInvariant, NEW k \in Connections, Crash(k)
  PROVE  TypeInvariant'
<1>1. RegistryInvariant'
  BY RegistryUntouched DEF Crash, TypeInvariant
<1>2. CallsFit'
  BY DEF Crash, TypeInvariant, TypeOK, CallsFit, Executing, InFlight
<1>3. TypeOK'
  BY <1>1, ExecutionAssumption
  DEF Crash, TypeInvariant, TypeOK, RegistryInvariant, Results, Pcs
<1> QED BY <1>1, <1>2, <1>3 DEF TypeInvariant

LEMMA BeginTypes ==
  ASSUME TypeInvariant, NEW t \in Threads, BeginExecute(t) \/ BeginTransition(t)
  PROVE  TypeInvariant'
<1>1. PICK a \in ExecuteCall \union TransitionCall :
        /\ Begin(t, a)
        /\ a \in ExecuteCall => payload[a.capability] # Unissued
  <2>1. CASE BeginExecute(t)
    BY <2>1 DEF BeginExecute, ExecuteCall, TransitionCall, Readings
  <2>2. CASE BeginTransition(t)
    <3>1. PICK o \in {"register", "revoke", "supersede"}, m \in Mandates, v \in Versions,
               w \in Versions, now \in Readings :
            Begin(t, [op |-> o, mandate |-> m, version |-> v, next |-> w, now |-> now])
      BY <2>2 DEF BeginTransition
    <3> DEFINE a == [op |-> o, mandate |-> m, version |-> v, next |-> w, now |-> now]
    <3>2. a \in TransitionCall /\ a.op # "execute"
      BY DEF TransitionCall, Readings
    <3>3. a \notin ExecuteCall
      BY <3>2 DEF ExecuteCall
    <3> QED BY <3>1, <3>2, <3>3
  <2> QED BY <2>1, <2>2
<1>2. RegistryInvariant'
  BY <1>1, RegistryUntouched DEF Begin, TypeInvariant
<1>3. CallsFit'
  BY <1>1 DEF Begin, Go, TypeInvariant, TypeOK, CallsFit, Executing, InFlight
<1>4. TypeOK'
  BY <1>1, <1>2 DEF Begin, Go, TypeInvariant, TypeOK, RegistryInvariant, Pcs
<1> QED BY <1>2, <1>3, <1>4 DEF TypeInvariant

LEMMA IssueTypes ==
  ASSUME TypeInvariant, NEW c \in Capabilities, NEW k \in Connections, NEW m \in Mandates,
         NEW v \in Versions, NEW now \in Readings,
         NEW e \in (now + 1)..(now + MaxLifetime), Issue(c, k, m, v, now, e)
  PROVE  TypeInvariant'
<1>1. [mandate |-> m, version |-> v, issued_at |-> now, expires_at |-> e] \in PayloadType
  <2>1. now \in Times /\ now \in Nat
    BY RegistryAssumption DEF Readings
  <2>2. e \in Nat
    BY <2>1, ExecutionAssumption
  <2> QED BY <2>1, <2>2 DEF PayloadType
<1>2. RegistryInvariant'
  BY RegistryUntouched DEF Issue, TypeInvariant
<1>3. CallsFit'
  BY <1>1, ExecutionAssumption DEF Issue, TypeInvariant, TypeOK, CallsFit, ExecuteCall
<1>4. TypeOK'
  BY <1>1, <1>2 DEF Issue, TypeInvariant, TypeOK, RegistryInvariant
<1> QED BY <1>2, <1>3, <1>4 DEF TypeInvariant

LEMMA EnvironmentTypes ==
  ASSUME TypeInvariant, Tick \/ \E c \in Capabilities : Provider(c)
  PROVE  TypeInvariant'
<1>1. RegistryInvariant'
  BY RegistryUntouched DEF Tick, Provider, TypeInvariant
<1>2. CallsFit'
  BY DEF Tick, Provider, TypeInvariant, CallsFit
<1>3. TypeOK'
  BY <1>1 DEF Tick, Provider, TypeInvariant, TypeOK, RegistryInvariant
<1> QED BY <1>1, <1>2, <1>3 DEF TypeInvariant

LEMMA TypeStep == TypeInvariant /\ [Next]_vars => TypeInvariant'
<1> SUFFICES ASSUME TypeInvariant, [Next]_vars PROVE TypeInvariant'
  OBVIOUS
<1>1. CASE UNCHANGED vars
  <2>1. RegistryInvariant'
    BY <1>1, RegistryUntouched DEF vars, TypeInvariant
  <2>2. CallsFit'
    BY <1>1 DEF vars, executionVars, TypeInvariant, CallsFit
  <2>3. TypeOK'
    BY <1>1, <2>1 DEF vars, executionVars, TypeInvariant, TypeOK, RegistryInvariant
  <2> QED BY <2>1, <2>2, <2>3 DEF TypeInvariant
<1>2. CASE Next
  <2> USE ExecutionAssumption
  <2>1. CASE \E t \in Threads : Step(t)
    BY <2>1, StepTypes
  <2>2. CASE \E t \in Threads : LedgerFault(t) \/ CommitFails(t)
    BY <2>2, FaultTypes
  <2>3. CASE \E k \in Connections : Crash(k)
    BY <2>3, CrashTypes
  <2>4. CASE \E t \in Threads : BeginExecute(t) \/ BeginTransition(t)
    BY <2>4, BeginTypes
  <2>5. CASE Tick \/ \E c \in Capabilities : Provider(c)
    BY <2>5, EnvironmentTypes
  <2>6. CASE \E c \in Capabilities, k \in Connections, m \in Mandates, v \in Versions :
               \E now \in Readings : \E e \in (now + 1)..(now + MaxLifetime) :
                 Issue(c, k, m, v, now, e)
    BY <2>6, IssueTypes
  <2> QED BY <1>2, <2>1, <2>2, <2>3, <2>4, <2>5, <2>6 DEF Next
<1> QED BY <1>1, <1>2

\* Every table, lock and call keeps its shape, whatever interleaves.
THEOREM ExecutionTypeCorrect == Spec => []TypeOK
<1>1. TypeInvariant => TypeOK
  BY DEF TypeInvariant
<1> QED BY TypeStart, TypeStep, <1>1, PTL DEF Spec

-----------------------------------------------------------------------------
(* Nonces *)

\* The steps of a thread whose nonce is RESERVED by it.
Holding == {"refused"} \union InFlight

HeldNonceIsReserved ==
  \A t \in Threads :
    pc[t] \in Holding =>
      ledger[NonceOf[call[t].capability]] =
        [status |-> "RESERVED", request |-> RequestOf[call[t].capability]]

\* A nonce that is free, or reserved and not used yet, has paid for nothing.
Unpaid(n) == \A c \in Capabilities : NonceOf[c] = n => calls[c] = 0

UnpaidUntilSent ==
  /\ \A n \in Nonces : ledger[n].status = "FREE" => Unpaid(n)
  /\ \A t \in Threads :
       pc[t] \in {"granted", "refused"} => Unpaid(NonceOf[call[t].capability])

NonceInvariant == HeldNonceIsReserved /\ UnpaidUntilSent /\ SingleUse

LEMMA Exclusive ==
  ASSUME GuardInvariant, NEW s \in Threads, NEW t \in Threads,
         pc[s] \in Guarded, pc[t] \in Guarded
  PROVE  s = t
BY DEF GuardInvariant, GuardHeld

\* Steps that touch neither the ledger nor the provider, and after which a thread
\* holds a nonce only if it did before, for the same call.
LEMMA QuietStep ==
  ASSUME NonceInvariant, UNCHANGED <<ledger, calls>>,
         \A s \in Threads :
           /\ pc'[s] \in Holding => pc[s] \in Holding /\ call'[s] = call[s]
           /\ pc'[s] \in {"granted", "refused"} => pc'[s] = pc[s]
  PROVE  NonceInvariant'
BY DEF NonceInvariant, HeldNonceIsReserved, UnpaidUntilSent, Unpaid, SingleUse, Holding, InFlight

LEMMA ReserveNonce ==
  ASSUME TypeInvariant, GuardInvariant, NonceInvariant, NEW t \in Threads, Reserve(t)
  PROVE  NonceInvariant'
<1> DEFINE c == call[t].capability
<1>1. /\ pc[t] = "gate" /\ c \in Capabilities /\ NonceOf[c] \in Nonces
      /\ ledger \in [Nonces -> LedgerType] /\ pc \in [Threads -> Pcs]
      /\ ledger[NonceOf[c]].status = "FREE"
  BY ExecuteCallType DEF Reserve, Executing, TypeInvariant, TypeOK
<1>2. /\ ledger' = [ledger EXCEPT ![NonceOf[c]] =
                      [status |-> "RESERVED", request |-> RequestOf[c]]]
      /\ call' = call /\ calls' = calls
      /\ pc'[t] \in {"granted", "refused"}
      /\ \A s \in Threads : s # t => pc'[s] = pc[s]
  BY <1>1 DEF Reserve, Go
<1>3. \A s \in Threads : s # t => pc[s] \notin Holding
  BY <1>1, Exclusive DEF Holding, Guarded, InFlight
<1>4. Unpaid(NonceOf[c])
  BY <1>1 DEF NonceInvariant, UnpaidUntilSent
<1>5. HeldNonceIsReserved'
  BY <1>1, <1>2, <1>3 DEF HeldNonceIsReserved
<1>6. UnpaidUntilSent'
  <2>1. \A n \in Nonces : ledger'[n].status = "FREE" => ledger[n].status = "FREE"
    BY <1>1, <1>2
  <2>2. \A s \in Threads : pc'[s] \in {"granted", "refused"} => s = t
    BY <1>2, <1>3 DEF Holding, InFlight
  <2> QED BY <1>2, <1>4, <2>1, <2>2 DEF NonceInvariant, UnpaidUntilSent, Unpaid
<1>7. SingleUse'
  BY <1>2 DEF NonceInvariant, SingleUse
<1> QED BY <1>5, <1>6, <1>7 DEF NonceInvariant

LEMMA SendNonce ==
  ASSUME TypeInvariant, GuardInvariant, NonceInvariant, NEW t \in Threads, Send(t)
  PROVE  NonceInvariant'
<1> DEFINE c == call[t].capability
<1>1. /\ pc[t] = "granted" /\ c \in Capabilities /\ NonceOf[c] \in Nonces
      /\ calls \in [Capabilities -> Nat] /\ pc \in [Threads -> Pcs]
  BY ExecuteCallType DEF Send, Executing, InFlight, TypeInvariant, TypeOK
<1>2. /\ calls' = [calls EXCEPT ![c] = @ + 1]
      /\ UNCHANGED <<ledger, call>>
      /\ pc'[t] = "calling"
      /\ \A s \in Threads : s # t => pc'[s] = pc[s]
  BY <1>1 DEF Send, Go
<1>3. \A s \in Threads : s # t => pc[s] \notin Holding
  BY <1>1, Exclusive DEF Holding, Guarded, InFlight
<1>4. Unpaid(NonceOf[c])
  BY <1>1 DEF NonceInvariant, UnpaidUntilSent
<1>5. ledger[NonceOf[c]].status = "RESERVED"
  <2>1. ledger[NonceOf[c]] = [status |-> "RESERVED", request |-> RequestOf[c]]
    BY <1>1 DEF NonceInvariant, HeldNonceIsReserved, Holding, InFlight
  <2> QED BY <2>1
<1>6. HeldNonceIsReserved'
  BY <1>1, <1>2, <1>3 DEF NonceInvariant, HeldNonceIsReserved, Holding, InFlight
<1>7. UnpaidUntilSent'
  <2>1. \A s \in Threads : pc'[s] \notin {"granted", "refused"}
    BY <1>2, <1>3 DEF Holding, InFlight
  <2>2. \A n \in Nonces : ledger[n].status = "FREE" => n # NonceOf[c] /\ Unpaid(n)
    BY <1>5 DEF NonceInvariant, UnpaidUntilSent
  <2>3. \A n \in Nonces : n # NonceOf[c] /\ Unpaid(n) => Unpaid(n)'
    BY <1>1, <1>2 DEF Unpaid
  <2> QED BY <1>2, <2>1, <2>2, <2>3 DEF UnpaidUntilSent
<1>8. SingleUse'
  <2>1. \A d \in Capabilities : NonceOf[d] = NonceOf[c] /\ calls'[d] > 0 => d = c /\ calls'[d] = 1
    BY <1>1, <1>2, <1>4 DEF Unpaid
  <2>2. \A d \in Capabilities : NonceOf[d] # NonceOf[c] => calls'[d] = calls[d]
    BY <1>1, <1>2
  <2> QED BY <2>1, <2>2 DEF NonceInvariant, SingleUse
<1> QED BY <1>6, <1>7, <1>8 DEF NonceInvariant

\* What happens to the ledger when a thread's own reservation is settled.
LEMMA SettleNonce ==
  ASSUME TypeInvariant, GuardInvariant, NonceInvariant, NEW t \in Threads,
         MarkRefused(t) \/ Mark(t)
  PROVE  NonceInvariant'
<1> DEFINE c == call[t].capability
<1>1. /\ pc[t] \in {"refused", "answered"} /\ c \in Capabilities /\ NonceOf[c] \in Nonces
      /\ ledger \in [Nonces -> LedgerType] /\ pc \in [Threads -> Pcs]
  BY ExecuteCallType DEF MarkRefused, Mark, Executing, InFlight, TypeInvariant, TypeOK
<1>2. PICK status \in LedgerStatus :
        /\ Transition(c, status)
        /\ UNCHANGED <<call, calls>>
        /\ pc'[t] = "return"
        /\ \A s \in Threads : s # t => pc'[s] = pc[s]
  BY <1>1 DEF MarkRefused, Mark, Conclude, Go, LedgerStatusFor, LedgerStatus
<1>3. \A s \in Threads : pc'[s] \notin Holding
  BY <1>1, <1>2, Exclusive DEF Holding, Guarded, InFlight
<1>4. \A n \in Nonces : ledger'[n].status = "FREE" => ledger[n].status = "FREE"
  <2>1. CASE ledger' = [ledger EXCEPT ![NonceOf[c]].status = status]
    BY <1>1, <2>1 DEF LedgerType, LedgerStatus
  <2>2. CASE UNCHANGED ledger
    BY <2>2
  <2> QED BY <1>2, <2>1, <2>2 DEF Transition
<1>5. HeldNonceIsReserved'
  BY <1>3 DEF HeldNonceIsReserved
<1>6. UnpaidUntilSent'
  BY <1>2, <1>3, <1>4 DEF NonceInvariant, UnpaidUntilSent, Unpaid, Holding, InFlight
<1>7. SingleUse'
  BY <1>2 DEF NonceInvariant, SingleUse
<1> QED BY <1>5, <1>6, <1>7 DEF NonceInvariant

LEMMA NonceStart == Init => NonceInvariant
BY ExecutionAssumption
DEF Init, NonceInvariant, HeldNonceIsReserved, UnpaidUntilSent, Unpaid, SingleUse, Holding, InFlight

LEMMA NonceStep ==
  TypeInvariant /\ GuardInvariant /\ NonceInvariant /\ [Next]_vars => NonceInvariant'
<1> SUFFICES ASSUME TypeInvariant, GuardInvariant, NonceInvariant, [Next]_vars
             PROVE  NonceInvariant'
  OBVIOUS
<1> DEFINE Quiet ==
      /\ UNCHANGED <<ledger, calls>>
      /\ \A s \in Threads :
           /\ pc'[s] \in Holding => pc[s] \in Holding /\ call'[s] = call[s]
           /\ pc'[s] \in {"granted", "refused"} => pc'[s] = pc[s]
<1>1. pc \in [Threads -> Pcs] /\ call \in [Threads -> {NoCall} \union ExecuteCall \union TransitionCall]
  BY DEF TypeInvariant, TypeOK
<1>2. CASE UNCHANGED vars
  BY <1>2, QuietStep DEF vars, executionVars
<1>3. ASSUME NEW t \in Threads, Step(t)
      PROVE  NonceInvariant'
  <2> USE DEF Go, Leave, Conclude, Holding, InFlight
  <2>1. CASE AcquireLock(t) \/ LockTimeout(t) \/ BeginImmediate(t) \/ BeginFails(t)
    <3>1. Quiet
      BY <1>1, <2>1 DEF AcquireLock, LockTimeout, BeginImmediate, BeginFails
    <3> QED BY <3>1, QuietStep
  <2>2. CASE ApplyTransition(t) \/ RefuseTransition(t)
    <3>1. Quiet
      BY <1>1, <2>2 DEF ApplyTransition, RefuseTransition
    <3> QED BY <3>1, QuietStep
  <2>3. CASE RefusePresentation(t) \/ RefuseUsedNonce(t) \/ Answer(t) \/ Return(t)
    <3>1. Quiet
      BY <1>1, <2>3 DEF RefusePresentation, RefuseUsedNonce, Answer, Return
    <3> QED BY <3>1, QuietStep
  <2> QED BY <1>3, <2>1, <2>2, <2>3, ReserveNonce, SendNonce, SettleNonce DEF Step
<1>4. ASSUME NEW t \in Threads, LedgerFault(t) \/ CommitFails(t)
      PROVE  NonceInvariant'
  <2>1. Quiet
    BY <1>1, <1>4 DEF LedgerFault, CommitFails, Go, Leave, Conclude, Holding, InFlight
  <2> QED BY <2>1, QuietStep
<1>5. ASSUME NEW k \in Connections, Crash(k)
      PROVE  NonceInvariant'
  <2>1. Quiet
    BY <1>1, <1>5 DEF Crash, Holding, InFlight
  <2> QED BY <2>1, QuietStep
<1>6. ASSUME NEW t \in Threads, BeginExecute(t) \/ BeginTransition(t)
      PROVE  NonceInvariant'
  <2>1. Quiet
    BY <1>1, <1>6 DEF BeginExecute, BeginTransition, Begin, Go, Holding, InFlight
  <2> QED BY <2>1, QuietStep
<1>7. CASE Tick \/ \E c \in Capabilities : Provider(c)
  BY <1>7, QuietStep DEF Tick, Provider
<1>8. ASSUME NEW c \in Capabilities, NEW k \in Connections, NEW m \in Mandates,
             NEW v \in Versions, NEW now \in Readings, NEW e \in (now + 1)..(now + MaxLifetime),
             Issue(c, k, m, v, now, e)
      PROVE  NonceInvariant'
  BY <1>8, QuietStep DEF Issue
<1> QED
  BY <1>2, <1>3, <1>4, <1>5, <1>6, <1>7, <1>8, ExecutionAssumption DEF Next

\* A nonce pays for one create_order call at most, whatever is retried, by however
\* many threads and processes, and however many of them crash.
THEOREM ExecutionSingleUse == Spec => []SingleUse
<1>1. NonceInvariant => SingleUse
  BY DEF NonceInvariant
<1> QED
  BY TypeStart, TypeStep, GuardStart, GuardStep, NonceStart, NonceStep, <1>1, PTL DEF Spec

-----------------------------------------------------------------------------
(* Consent *)

\* The gate finds no fault with the mandate's state only while the bound version is
\* the current one and active.
LEMMA NoRefusalMeansInForce ==
  ASSUME NEW p, StateRefusal(p) = "NONE"
  PROVE  InForce(p.mandate, p.version)
BY DEF StateRefusal, InForce

\* Steps that leave the tables alone, and after which a thread is in flight only if
\* it was before, with the same capability.
LEMMA QuietConsent ==
  ASSUME InFlightConsent, UNCHANGED <<states, current>>,
         \A s \in Threads :
           pc'[s] \in InFlight =>
             /\ pc[s] \in InFlight /\ call'[s] = call[s]
             /\ payload'[call[s].capability] = payload[call[s].capability]
  PROVE  InFlightConsent'
BY DEF InFlightConsent, InForce

LEMMA ConsentStep ==
  TypeInvariant /\ GuardInvariant /\ InFlightConsent /\ [Next]_vars => InFlightConsent'
<1> SUFFICES ASSUME TypeInvariant, GuardInvariant, InFlightConsent, [Next]_vars
             PROVE  InFlightConsent'
  OBVIOUS
<1> DEFINE Quiet ==
      /\ UNCHANGED <<states, current>>
      /\ \A s \in Threads :
           pc'[s] \in InFlight =>
             /\ pc[s] \in InFlight /\ call'[s] = call[s]
             /\ payload'[call[s].capability] = payload[call[s].capability]
<1>1. /\ pc \in [Threads -> Pcs]
      /\ call \in [Threads -> {NoCall} \union ExecuteCall \union TransitionCall]
  BY DEF TypeInvariant, TypeOK
<1>2. CASE UNCHANGED vars
  BY <1>2, QuietConsent DEF vars, executionVars, registryVars
<1>3. ASSUME NEW t \in Threads, Step(t)
      PROVE  InFlightConsent'
  <2> USE DEF Go, Leave, Conclude, registryVars
  <2>1. CASE AcquireLock(t) \/ LockTimeout(t) \/ BeginImmediate(t) \/ BeginFails(t)
    <3>1. Quiet
      BY <1>1, <2>1 DEF AcquireLock, LockTimeout, BeginImmediate, BeginFails, InFlight
    <3> QED BY <3>1, QuietConsent
  <2>2. CASE RefuseTransition(t) \/ RefusePresentation(t) \/ RefuseUsedNonce(t) \/ MarkRefused(t)
    <3>1. Quiet
      BY <1>1, <2>2 DEF RefuseTransition, RefusePresentation, RefuseUsedNonce, MarkRefused, InFlight
    <3> QED BY <3>1, QuietConsent
  <2>3. CASE Send(t) \/ Answer(t) \/ Mark(t)
    <3>1. Quiet
      BY <1>1, <2>3 DEF Send, Answer, Mark, InFlight
    <3> QED BY <3>1, QuietConsent
  <2>4. CASE Return(t)
    <3>1. Quiet
      BY <1>1, <2>4 DEF Return, RecordExecutionRefusal, InFlight
    <3> QED BY <3>1, QuietConsent
  \* A transition is under the guard itself, so nothing is in flight.
  <2>5. CASE ApplyTransition(t)
    <3>1. \A s \in Threads : s # t => pc[s] \notin InFlight
      BY <2>5, Exclusive DEF ApplyTransition, Guarded, InFlight
    <3>2. \A s \in Threads : pc'[s] \notin InFlight
      BY <1>1, <2>5, <3>1 DEF ApplyTransition, InFlight
    <3> QED BY <3>2 DEF InFlightConsent
  <2>6. CASE Reserve(t)
    <3>1. \A s \in Threads : s # t => pc'[s] \notin InFlight
      BY <1>1, <2>6, Exclusive DEF Reserve, Guarded, InFlight
    <3>2. pc'[t] \in InFlight => InForce(payload[call[t].capability].mandate,
                                        payload[call[t].capability].version)
      BY <1>1, <2>6, NoRefusalMeansInForce DEF Reserve, InFlight
    <3>3. UNCHANGED <<states, current, call, payload>>
      BY <2>6 DEF Reserve
    <3> QED BY <3>1, <3>2, <3>3 DEF InFlightConsent, InForce
  <2> QED BY <1>3, <2>1, <2>2, <2>3, <2>4, <2>5, <2>6 DEF Step
<1>4. ASSUME NEW t \in Threads, LedgerFault(t) \/ CommitFails(t)
      PROVE  InFlightConsent'
  <2>1. Quiet
    BY <1>1, <1>4 DEF LedgerFault, CommitFails, Go, Leave, Conclude, InFlight, registryVars
  <2> QED BY <2>1, QuietConsent
<1>5. ASSUME NEW k \in Connections, Crash(k)
      PROVE  InFlightConsent'
  <2>1. Quiet
    BY <1>1, <1>5 DEF Crash, InFlight, registryVars
  <2> QED BY <2>1, QuietConsent
<1>6. ASSUME NEW t \in Threads, BeginExecute(t) \/ BeginTransition(t)
      PROVE  InFlightConsent'
  <2>1. Quiet
    BY <1>1, <1>6 DEF BeginExecute, BeginTransition, Begin, Go, InFlight, registryVars
  <2> QED BY <2>1, QuietConsent
<1>7. CASE Tick \/ \E c \in Capabilities : Provider(c)
  BY <1>7, QuietConsent DEF Tick, Provider, registryVars
\* A capability is issued once, so the one in flight is not touched.
<1>8. ASSUME NEW c \in Capabilities, NEW k \in Connections, NEW m \in Mandates,
             NEW v \in Versions, NEW now \in Readings, NEW e \in (now + 1)..(now + MaxLifetime),
             Issue(c, k, m, v, now, e)
      PROVE  InFlightConsent'
  <2>1. \A s \in Threads : pc[s] \in InFlight => payload[call[s].capability] # Unissued
    BY DEF TypeInvariant, CallsFit, Executing
  <2>2. payload \in [Capabilities -> PayloadType \union {Unissued}]
    BY DEF TypeInvariant, TypeOK
  <2>3. \A s \in Threads : pc[s] \in InFlight =>
          payload'[call[s].capability] = payload[call[s].capability]
    BY <1>8, <2>1, <2>2 DEF Issue
  <2> QED BY <1>8, <2>3, QuietConsent DEF Issue, registryVars
<1> QED
  BY <1>2, <1>3, <1>4, <1>5, <1>6, <1>7, <1>8, ExecutionAssumption DEF Next

\* No consent ends between the check of an execution and the record of its outcome:
\* a revocation is ordered before the one or after the other.
THEOREM ExecutionInFlightConsent == Spec => []InFlightConsent
<1>1. Init => InFlightConsent
  BY DEF Init, InFlightConsent, InFlight
<1> QED
  BY TypeStart, TypeStep, GuardStart, GuardStep, ConsentStep, <1>1, PTL DEF Spec
=============================================================================
