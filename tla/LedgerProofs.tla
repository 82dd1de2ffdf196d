---------------------------- MODULE LedgerProofs ----------------------------
(***************************************************************************)
(* What the two databases of the kernel still say after a call is over:    *)
(* theorems about the execution ledger, the refusal events of the registry *)
(* and what callers were told, for any number of processes, threads and    *)
(* capabilities, with crashes and storage faults.  At the end, that the    *)
(* kernel implements the registry's specification and the one-step gate.   *)
(*                                                                         *)
(* The argument is that a row of the ledger is settled once: Reserve takes *)
(* a FREE row, and only the thread that holds a RESERVED row moves it on.  *)
(***************************************************************************)
EXTENDS ExecutionProofs

\* Refused for good, and never paid for.
Dead(n) == ledger[n].status = "REJECTED" /\ Unpaid(n)

Paid(c) == ledger[NonceOf[c]] = [status |-> "SUCCEEDED", request |-> RequestOf[c]]

\* What a thread is about to report is what the ledger says.
ResultsFit ==
  \A t \in Threads :
    LET c == call[t].capability IN
    /\ pc[t] = "refused" => result[t] \in StateReasons
    /\ pc[t] = "answered" => result[t] \in Answers
    /\ pc[t] = "return" /\ result[t] \in StateReasons => Dead(NonceOf[c])
    /\ pc[t] = "return" /\ result[t] = "RECEIPT" => Paid(c)

\* What was reported was issued, so its payload does not change any more.
ReportedIsIssued == \A reply \in reported : payload[reply[1]] # Unissued

KernelInvariant == TypeInvariant /\ GuardInvariant /\ NonceInvariant

\* The ledger and the provider's counters stay as they are.
Untouched == UNCHANGED <<ledger, calls>>

-----------------------------------------------------------------------------
(* The rows of the ledger *)

LEMMA KernelStart == Init => KernelInvariant
BY TypeStart, GuardStart, NonceStart DEF KernelInvariant

LEMMA KernelStep == KernelInvariant /\ [Next]_vars => KernelInvariant'
BY TypeStep, GuardStep, NonceStep DEF KernelInvariant

LEMMA HeldRow ==
  ASSUME KernelInvariant, NEW t \in Threads, pc[t] \in Holding
  PROVE  /\ call[t].capability \in Capabilities
         /\ NonceOf[call[t].capability] \in Nonces
         /\ ledger[NonceOf[call[t].capability]] =
              [status |-> "RESERVED", request |-> RequestOf[call[t].capability]]
         /\ ledger \in [Nonces -> LedgerType]
         /\ calls \in [Capabilities -> Nat]
<1>1. pc[t] \in Executing
  BY DEF Holding, Executing, InFlight
<1> QED BY <1>1, ExecuteCallType
        DEF KernelInvariant, TypeInvariant, TypeOK, NonceInvariant, HeldNonceIsReserved

\* Every step leaves the ledger and the counters alone, or is one of four of the thread
\* that reserves a row or holds it.
LEMMA WhoTouches ==
  ASSUME [Next]_vars
  PROVE  \/ Untouched
         \/ \E t \in Threads : Reserve(t) \/ MarkRefused(t) \/ Send(t) \/ Mark(t)
<1>1. CASE UNCHANGED vars
  BY <1>1 DEF vars, executionVars, Untouched
<1>2. ASSUME NEW t \in Threads, Step(t)
      PROVE  Untouched \/ Reserve(t) \/ MarkRefused(t) \/ Send(t) \/ Mark(t)
  BY <1>2 DEF Step, AcquireLock, LockTimeout, BeginImmediate, BeginFails, ApplyTransition,
     RefuseTransition, RefusePresentation, RefuseUsedNonce, Answer, Return, Untouched
<1>3. ASSUME NEW t \in Threads, LedgerFault(t) \/ CommitFails(t)
      PROVE  Untouched
  BY <1>3 DEF LedgerFault, CommitFails, Untouched
<1>4. CASE \E k \in Connections : Crash(k)
  BY <1>4 DEF Crash, Untouched
<1>5. CASE \E t \in Threads : BeginExecute(t) \/ BeginTransition(t)
  BY <1>5 DEF BeginExecute, BeginTransition, Begin, Untouched
<1>6. CASE Tick \/ \E c \in Capabilities : Provider(c)
  BY <1>6 DEF Tick, Provider, Untouched
<1>7. CASE \E c \in Capabilities, k \in Connections, m \in Mandates, v \in Versions :
             \E now \in Readings : \E e \in (now + 1)..(now + MaxLifetime) :
               Issue(c, k, m, v, now, e)
  BY <1>7 DEF Issue, Untouched
<1> QED BY <1>1, <1>2, <1>3, <1>4, <1>5, <1>6, <1>7, ExecutionAssumption DEF Next

\* What a thread does to the row of its nonce; every other row stays.
LEMMA RowMoves ==
  ASSUME KernelInvariant, NEW t \in Threads, Reserve(t) \/ MarkRefused(t) \/ Send(t) \/ Mark(t)
  PROVE  /\ call[t].capability \in Capabilities /\ NonceOf[call[t].capability] \in Nonces
         /\ ledger[NonceOf[call[t].capability]].status \in {"FREE", "RESERVED"}
         /\ \A o \in Nonces : o # NonceOf[call[t].capability] => ledger'[o] = ledger[o]
         /\ ledger[NonceOf[call[t].capability]].status = "FREE" => Reserve(t)
         /\ ledger'[NonceOf[call[t].capability]].status = "RESERVED" => Reserve(t) \/ Send(t)
         /\ Send(t) => ledger' = ledger
         /\ MarkRefused(t) => ledger'[NonceOf[call[t].capability]] =
              [status |-> "REJECTED", request |-> RequestOf[call[t].capability]]
         /\ Mark(t) => ledger'[NonceOf[call[t].capability]] =
              [status |-> LedgerStatusFor(result[t]), request |-> RequestOf[call[t].capability]]
         /\ ~Send(t) => calls' = calls
         /\ Send(t) => \A d \in Capabilities : d # call[t].capability => calls'[d] = calls[d]
<1> DEFINE c == call[t].capability
           n == NonceOf[c]
<1>1. CASE Reserve(t)
  <2>1. c \in Capabilities /\ n \in Nonces /\ ledger \in [Nonces -> LedgerType]
    BY <1>1, ExecuteCallType DEF Reserve, Executing, KernelInvariant, TypeInvariant, TypeOK
  <2>2. /\ pc[t] = "gate" /\ ledger[n].status = "FREE" /\ calls' = calls
        /\ ledger' = [ledger EXCEPT ![n] = [status |-> "RESERVED", request |-> RequestOf[c]]]
    BY <1>1 DEF Reserve
  <2>3. ~Send(t) /\ ~MarkRefused(t) /\ ~Mark(t)
    BY <2>2 DEF Send, MarkRefused, Mark
  <2> QED BY <1>1, <2>1, <2>2, <2>3
<1>2. CASE ~Reserve(t)
  <2>1. pc[t] \in {"refused", "granted", "answered"}
    BY <1>2 DEF MarkRefused, Send, Mark
  <2>2. /\ c \in Capabilities /\ n \in Nonces /\ ledger \in [Nonces -> LedgerType]
        /\ ledger[n] = [status |-> "RESERVED", request |-> RequestOf[c]]
        /\ calls \in [Capabilities -> Nat]
    BY <2>1, HeldRow DEF Holding, InFlight
  <2>3. CASE Send(t)
    <3>1. /\ pc[t] = "granted" /\ ledger' = ledger
          /\ calls' = [calls EXCEPT ![c] = @ + 1]
      BY <2>3 DEF Send
    <3>2. ~MarkRefused(t) /\ ~Mark(t)
      BY <3>1 DEF MarkRefused, Mark
    <3> QED BY <1>2, <2>2, <2>3, <3>1, <3>2
  <2>4. CASE MarkRefused(t)
    <3>1. /\ pc[t] = "refused" /\ calls' = calls
          /\ ledger' = [ledger EXCEPT ![n].status = "REJECTED"]
      BY <2>2, <2>4 DEF MarkRefused, Transition
    <3>2. ~Send(t) /\ ~Mark(t)
      BY <3>1 DEF Send, Mark
    <3> QED BY <1>2, <2>2, <2>4, <3>1, <3>2
  <2>5. CASE Mark(t)
    <3>1. /\ pc[t] = "answered" /\ calls' = calls
          /\ ledger' = [ledger EXCEPT ![n].status = LedgerStatusFor(result[t])]
      BY <2>2, <2>5 DEF Mark, Transition
    <3>2. ~Send(t) /\ ~MarkRefused(t)
      BY <3>1 DEF Send, MarkRefused
    <3>3. LedgerStatusFor(result[t]) # "RESERVED"
      BY DEF LedgerStatusFor
    <3> QED BY <1>2, <2>2, <2>5, <3>1, <3>2, <3>3
  <2> QED BY <1>2, <2>3, <2>4, <2>5
<1> QED BY <1>1, <1>2

\* A row that is settled is never written again.
LEMMA SettledStays ==
  ASSUME KernelInvariant, [Next]_vars, NEW n \in Nonces,
         ledger[n].status \notin {"FREE", "RESERVED"}
  PROVE  ledger'[n] = ledger[n]
<1>1. CASE Untouched
  BY <1>1 DEF Untouched
<1>2. ASSUME NEW t \in Threads, Reserve(t) \/ MarkRefused(t) \/ Send(t) \/ Mark(t)
      PROVE  ledger'[n] = ledger[n]
  <2>1. CASE n = NonceOf[call[t].capability]
    BY <1>2, <2>1, RowMoves
  <2>2. CASE n # NonceOf[call[t].capability]
    BY <1>2, <2>2, RowMoves
  <2> QED BY <2>1, <2>2
<1> QED BY <1>1, <1>2, WhoTouches

LEMMA DeadStays ==
  ASSUME KernelInvariant, [Next]_vars, NEW n \in Nonces, Dead(n)
  PROVE  Dead(n)'
<1>1. ledger'[n] = ledger[n]
  BY SettledStays DEF Dead
<1>2. Unpaid(n)'
  <2>1. CASE Untouched
    BY <2>1 DEF Untouched, Dead, Unpaid
  <2>2. ASSUME NEW t \in Threads, Reserve(t) \/ MarkRefused(t) \/ Send(t) \/ Mark(t)
        PROVE  Unpaid(n)'
    BY <2>2, RowMoves DEF Dead, Unpaid
  <2> QED BY <2>1, <2>2, WhoTouches
<1> QED BY <1>1, <1>2 DEF Dead

LEMMA PaidStays ==
  ASSUME KernelInvariant, [Next]_vars, NEW c \in Capabilities, Paid(c)
  PROVE  Paid(c)'
<1>1. NonceOf[c] \in Nonces /\ ledger[NonceOf[c]].status = "SUCCEEDED"
  BY ExecutionAssumption DEF Paid
<1> QED BY <1>1, SettledStays DEF Paid

-----------------------------------------------------------------------------
(* Reservations *)

LEMMA OwnerStep ==
  ASSUME KernelInvariant, ReservedHasOwner, [Next]_vars
  PROVE  ReservedHasOwner'
<1> DEFINE Owns(t, n) == pc[t] \in InFlight \union {"refused"} /\ NonceOf[call[t].capability] = n
<1>1. /\ pc \in [Threads -> Pcs]
      /\ call \in [Threads -> {NoCall} \union ExecuteCall \union TransitionCall]
      /\ crashes \in Nat /\ faults \in Nat
      /\ ledger \in [Nonces -> LedgerType]
  BY ExecutionAssumption DEF KernelInvariant, TypeInvariant, TypeOK
<1>2. \/ crashes' + faults' > 0
      \/ /\ crashes' = crashes /\ faults' = faults
         /\ \/ \A t \in Threads, n \in Nonces : Owns(t, n) => Owns(t, n)'
            \/ \E t \in Threads : MarkRefused(t) \/ Mark(t)
  <2>1. CASE UNCHANGED vars
    BY <2>1 DEF vars, executionVars
  <2>2. ASSUME NEW s \in Threads, Step(s), ~MarkRefused(s), ~Mark(s)
        PROVE  /\ crashes' = crashes /\ faults' = faults
               /\ \A t \in Threads, n \in Nonces : Owns(t, n) => Owns(t, n)'
    <3> USE DEF Go, Leave, Conclude, InFlight
    <3>1. CASE AcquireLock(s) \/ LockTimeout(s) \/ BeginImmediate(s) \/ BeginFails(s)
      BY <1>1, <3>1 DEF AcquireLock, LockTimeout, BeginImmediate, BeginFails
    <3>2. CASE ApplyTransition(s) \/ RefuseTransition(s) \/ Return(s)
      BY <1>1, <3>2 DEF ApplyTransition, RefuseTransition, Return
    <3>3. CASE RefusePresentation(s) \/ RefuseUsedNonce(s) \/ Reserve(s)
      BY <1>1, <3>3 DEF RefusePresentation, RefuseUsedNonce, Reserve
    <3>4. CASE Send(s) \/ Answer(s)
      BY <1>1, <3>4 DEF Send, Answer
    <3> QED BY <2>2, <3>1, <3>2, <3>3, <3>4 DEF Step
  <2>3. CASE \E t \in Threads : LedgerFault(t) \/ CommitFails(t)
    BY <1>1, <2>3 DEF LedgerFault, CommitFails
  <2>4. CASE \E k \in Connections : Crash(k)
    BY <1>1, <2>4 DEF Crash
  <2>5. CASE \E t \in Threads : BeginExecute(t) \/ BeginTransition(t)
    BY <1>1, <2>5 DEF BeginExecute, BeginTransition, Begin, Go, InFlight
  <2>6. CASE Tick \/ \E c \in Capabilities : Provider(c)
    BY <2>6 DEF Tick, Provider
  <2>7. CASE \E c \in Capabilities, k \in Connections, m \in Mandates, v \in Versions :
               \E now \in Readings : \E e \in (now + 1)..(now + MaxLifetime) :
                 Issue(c, k, m, v, now, e)
    BY <2>7 DEF Issue
  <2>8. CASE \E t \in Threads : MarkRefused(t) \/ Mark(t)
    BY <2>8 DEF MarkRefused, Mark
  <2> QED BY <2>1, <2>2, <2>3, <2>4, <2>5, <2>6, <2>7, <2>8, ExecutionAssumption DEF Next
<1> SUFFICES ASSUME NEW n \in Nonces, ledger'[n].status = "RESERVED", crashes' + faults' = 0,
                    crashes' = crashes, faults' = faults
             PROVE  \E t \in Threads : Owns(t, n)'
  BY <1>1, <1>2 DEF ReservedHasOwner
<1>3. ASSUME NEW s \in Threads, MarkRefused(s) \/ Mark(s)
      PROVE  \E t \in Threads : Owns(t, n)'
  <2>0. ~Reserve(s) /\ ~Send(s)
    BY <1>3 DEF MarkRefused, Mark, Reserve, Send
  <2>1. n # NonceOf[call[s].capability]
    BY <1>3, <2>0, RowMoves
  <2>2. ledger'[n] = ledger[n]
    BY <1>3, <2>1, RowMoves
  <2>3. PICK t \in Threads : Owns(t, n)
    BY <2>2, <1>1 DEF ReservedHasOwner
  <2>4. t # s
    BY <2>1, <2>3
  <2>5. call' = call /\ pc'[t] = pc[t]
    BY <1>1, <1>3, <2>4 DEF MarkRefused, Mark, Go, Conclude
  <2> QED BY <2>3, <2>5
<1>4. ASSUME \A t \in Threads, o \in Nonces : Owns(t, o) => Owns(t, o)'
      PROVE  \E t \in Threads : Owns(t, n)'
  <2>1. CASE ledger[n].status = "RESERVED"
    BY <1>1, <1>4, <2>1 DEF ReservedHasOwner
  <2>2. CASE ledger[n].status # "RESERVED"
    <3>1. PICK s \in Threads : Reserve(s) /\ n = NonceOf[call[s].capability]
      <4>1. ~Untouched
        BY <2>2 DEF Untouched
      <4>2. PICK s \in Threads : Reserve(s) \/ MarkRefused(s) \/ Send(s) \/ Mark(s)
        BY <4>1, WhoTouches
      <4>3. n = NonceOf[call[s].capability]
        BY <2>2, <4>2, RowMoves
      <4>4. Reserve(s)
        BY <2>2, <4>2, <4>3, RowMoves DEF LedgerStatusFor
      <4> QED BY <4>3, <4>4
    <3>2. call' = call /\ pc'[s] \in {"granted", "refused"}
      BY <1>1, <3>1 DEF Reserve, Go
    <3> QED BY <3>1, <3>2 DEF InFlight
  <2> QED BY <2>1, <2>2
<1> QED BY <1>1, <1>2, <1>3, <1>4

\* A nonce is never left RESERVED by the code itself: only a crash or a storage fault
\* can take it from the thread that works on it.
THEOREM ExecutionReservedHasOwner == Spec => []ReservedHasOwner
<1>1. Init => ReservedHasOwner
  BY DEF Init, ReservedHasOwner
<1> QED BY KernelStart, KernelStep, OwnerStep, <1>1, PTL DEF Spec
-----------------------------------------------------------------------------
(* Refusals and replies *)

\* The log of a mandate only grows.
LEMMA Appended ==
  ASSUME audit \in [Mandates -> Seq(EventType)], NEW m \in Mandates,
         NEW events \in Seq(EventType), AppendEvents(m, events), NEW k \in Mandates
  PROVE  /\ \A i \in DOMAIN audit[k] : i \in DOMAIN audit'[k] /\ audit'[k][i] = audit[k][i]
         /\ \A i \in DOMAIN audit'[k] :
              \/ i \in DOMAIN audit[k] /\ audit'[k][i] = audit[k][i]
              \/ k = m /\ \E j \in DOMAIN events : audit'[k][i] = events[j]
         /\ k = m => \A j \in DOMAIN events :
                       \E i \in DOMAIN audit'[k] : audit'[k][i] = events[j]
<1>1. CASE k # m
  BY <1>1 DEF AppendEvents
<1>2. CASE k = m
  <2>1. audit'[k] = audit[m] \o events
    BY <1>2 DEF AppendEvents
  <2>2. audit[m] \in Seq(EventType)
    OBVIOUS
  <2>3. \A j \in DOMAIN events : /\ Len(audit[m]) + j \in DOMAIN audit'[k]
                                 /\ audit'[k][Len(audit[m]) + j] = events[j]
    BY <2>1, <2>2
  <2>4. \A i \in DOMAIN audit[k] : i \in DOMAIN audit'[k] /\ audit'[k][i] = audit[k][i]
    BY <1>2, <2>1, <2>2
  <2>5. ASSUME NEW i \in DOMAIN audit'[k], i \notin DOMAIN audit[k]
        PROVE  \E j \in DOMAIN events : audit'[k][i] = events[j]
    <3>1. i - Len(audit[m]) \in DOMAIN events
      BY <1>2, <2>1, <2>2, <2>5
    <3> QED BY <2>1, <2>2, <2>3, <3>1
  <2> QED BY <1>2, <2>3, <2>4, <2>5
<1> QED BY <1>1, <1>2

\* No transition writes a nonce into the log.
LEMMA TransitionsLogNoNonce ==
  ASSUME RegistryTypeOK, NEW m \in Mandates, NEW v \in Versions, NEW w \in Versions,
         NEW t \in Times,
         RegisterActive(m, v, t) \/ Revoke(m, v, t) \/ Supersede(m, v, w, t)
  PROVE  \E events \in Seq(EventType) :
           AppendEvents(m, events) /\ \A j \in DOMAIN events : events[j].nonce = NoNonce
<1> USE DEF Lifecycle, MandateStatus, Live, Terminal
<1>1. CASE RegisterActive(m, v, t)
  <2> DEFINE e == StateEvent("MANDATE_REGISTERED_ACTIVE", v, ObservedStatus(m), "ACTIVE", t)
  <2>1. e \in EventType
    BY ObservedStatusType, StateEventType
  <2>2. e.nonce = NoNonce
    BY DEF StateEvent
  <2>3. AppendEvents(m, <<e>>)
    BY <1>1 DEF RegisterActive
  <2> HIDE DEF e
  <2>4. <<e>> \in Seq(EventType) /\ \A j \in DOMAIN <<e>> : <<e>>[j].nonce = NoNonce
    BY <2>1, <2>2
  <2> QED BY <2>3, <2>4
<1>2. CASE Revoke(m, v, t)
  <2> DEFINE e == StateEvent("MANDATE_REVOKED", v, "ACTIVE", "REVOKED", t)
  <2>1. e \in EventType
    BY StateEventType
  <2>2. e.nonce = NoNonce
    BY DEF StateEvent
  <2>3. AppendEvents(m, <<e>>)
    BY <1>2 DEF Revoke
  <2> HIDE DEF e
  <2>4. <<e>> \in Seq(EventType) /\ \A j \in DOMAIN <<e>> : <<e>>[j].nonce = NoNonce
    BY <2>1, <2>2
  <2> QED BY <2>3, <2>4
<1>3. CASE Supersede(m, v, w, t)
  <2> DEFINE e == StateEvent("MANDATE_SUPERSEDED", v, "ACTIVE", "SUPERSEDED", t)
             f == StateEvent("MANDATE_REGISTERED_ACTIVE", w, "SUPERSEDED", "ACTIVE", t)
  <2>1. e \in EventType /\ f \in EventType
    BY StateEventType
  <2>2. e.nonce = NoNonce /\ f.nonce = NoNonce
    BY DEF StateEvent
  <2>3. AppendEvents(m, <<e, f>>)
    BY <1>3 DEF Supersede
  <2> HIDE DEF e, f
  <2>4. <<e, f>> \in Seq(EventType) /\ \A j \in DOMAIN <<e, f>> : <<e, f>>[j].nonce = NoNonce
    BY <2>1, <2>2
  <2> QED BY <2>3, <2>4
<1> QED BY <1>1, <1>2, <1>3

\* What a refusal for the mandate's state writes into its log.
LEMMA RefusalLogs ==
  ASSUME KernelInvariant, NEW t \in Threads, Return(t), result[t] \in StateReasons
  PROVE  LET c == call[t].capability
             p == payload[c]
         IN /\ p.mandate \in Mandates
            /\ \E e \in EventType : /\ AppendEvents(p.mandate, <<e>>)
                                    /\ e.nonce = NonceOf[c] /\ e.version = p.version
<1> DEFINE c == call[t].capability
           p == payload[c]
           e == [StateEvent("EXECUTION_REFUSED_MANDATE_STATE", p.version, ObservedStatus(p.mandate),
                            ObservedStatus(p.mandate), call[t].now) EXCEPT !.nonce = NonceOf[c]]
<1>1. pc[t] \in Executing
  BY DEF Return, Executing
<1>2. p \in PayloadType /\ NonceOf[c] \in Nonces /\ call[t].now \in Times
  BY <1>1, ExecuteCallType DEF KernelInvariant
<1>3. p.mandate \in Mandates /\ p.version \in Versions
  BY <1>2 DEF PayloadType
<1>4. ObservedStatus(p.mandate) \in MandateStatus \union {"NONE"}
  BY <1>3, ObservedStatusType DEF KernelInvariant, TypeInvariant, TypeOK
<1>5. e \in EventType /\ e.nonce = NonceOf[c] /\ e.version = p.version
  BY <1>2, <1>3, <1>4 DEF StateEvent, EventType
<1>6. AppendEvents(p.mandate, <<e>>)
  BY DEF Return, RecordExecutionRefusal
<1> HIDE DEF e
<1> QED BY <1>3, <1>5, <1>6

\* The registry's tables change under the guard only: by a transition, or by the
\* refusal event that a call commits when it returns.
LEMMA WhoWritesRegistry ==
  ASSUME [Next]_vars
  PROVE  \/ UNCHANGED registryVars
         \/ \E t \in Threads : ApplyTransition(t)
         \/ \E t \in Threads : Return(t) /\ result[t] \in StateReasons
<1>1. ASSUME NEW t \in Threads, Step(t), ~ApplyTransition(t),
             ~(Return(t) /\ result[t] \in StateReasons)
      PROVE  UNCHANGED registryVars
  <2>1. CASE Return(t)
    <3>1. result[t] \notin StateReasons
      BY <1>1, <2>1
    <3> QED BY <2>1, <3>1 DEF Return
  <2>2. CASE ~Return(t)
    BY <1>1, <2>2 DEF Step, AcquireLock, LockTimeout, BeginImmediate, BeginFails,
       RefuseTransition, RefusePresentation, RefuseUsedNonce, Reserve, MarkRefused, Send,
       Answer, Mark
  <2> QED BY <2>1, <2>2
<1>2. ASSUME NEW t \in Threads, LedgerFault(t) \/ CommitFails(t)
      PROVE  UNCHANGED registryVars
  BY <1>2 DEF LedgerFault, CommitFails
<1>3. ASSUME NEW t \in Threads, BeginExecute(t) \/ BeginTransition(t)
      PROVE  UNCHANGED registryVars
  BY <1>3 DEF BeginExecute, BeginTransition, Begin
<1>4. CASE \E c \in Connections : Crash(c)
  BY <1>4 DEF Crash
<1>5. CASE Tick \/ \E c \in Capabilities : Provider(c)
  BY <1>5 DEF Tick, Provider
<1>6. CASE \E c \in Capabilities, x \in Connections, m \in Mandates, v \in Versions :
             \E now \in Readings : \E e \in (now + 1)..(now + MaxLifetime) :
               Issue(c, x, m, v, now, e)
  BY <1>6 DEF Issue
<1>7. CASE UNCHANGED vars
  BY <1>7 DEF vars
<1> QED BY <1>1, <1>2, <1>3, <1>4, <1>5, <1>6, <1>7, ExecutionAssumption DEF Next

\* The events of the kernel: a refusal is logged by Return, with the nonce of the call;
\* no other event has one.
LEMMA LogGrows ==
  ASSUME KernelInvariant, [Next]_vars, NEW k \in Mandates
  PROVE  /\ \A i \in DOMAIN audit[k] : i \in DOMAIN audit'[k] /\ audit'[k][i] = audit[k][i]
         /\ \A i \in DOMAIN audit'[k] :
              \/ i \in DOMAIN audit[k] /\ audit'[k][i] = audit[k][i]
              \/ audit'[k][i].nonce = NoNonce
              \/ \E t \in Threads : /\ Return(t) /\ result[t] \in StateReasons
                                    /\ audit'[k][i].nonce = NonceOf[call[t].capability]
<1>1. RegistryTypeOK /\ audit \in [Mandates -> Seq(EventType)]
  BY DEF KernelInvariant, TypeInvariant, TypeOK, RegistryTypeOK
<1>2. CASE UNCHANGED audit
  BY <1>2
<1>3. CASE \E t \in Threads : ApplyTransition(t)
  <2>1. PICK t \in Threads : ApplyTransition(t)
    BY <1>3
  <2>2. /\ call[t].mandate \in Mandates /\ call[t].version \in Versions
        /\ call[t].next \in Versions /\ call[t].now \in Times
    BY <2>1 DEF KernelInvariant, TypeInvariant, CallsFit, ApplyTransition, TransitionCall
  <2>3. \/ RegisterActive(call[t].mandate, call[t].version, call[t].now)
        \/ Revoke(call[t].mandate, call[t].version, call[t].now)
        \/ Supersede(call[t].mandate, call[t].version, call[t].next, call[t].now)
    BY <2>1 DEF ApplyTransition
  <2>4. PICK events \in Seq(EventType) :
          /\ AppendEvents(call[t].mandate, events)
          /\ \A j \in DOMAIN events : events[j].nonce = NoNonce
    BY <1>1, <2>2, <2>3, TransitionsLogNoNonce
  <2> QED BY <1>1, <2>2, <2>4, Appended
<1>4. CASE \E t \in Threads : Return(t) /\ result[t] \in StateReasons
  <2>1. PICK t \in Threads : Return(t) /\ result[t] \in StateReasons
    BY <1>4
  <2>2. PICK e \in EventType : /\ AppendEvents(payload[call[t].capability].mandate, <<e>>)
                               /\ e.nonce = NonceOf[call[t].capability]
    BY <2>1, RefusalLogs
  <2>3. payload[call[t].capability].mandate \in Mandates
    BY <2>1, RefusalLogs
  <2> DEFINE m == payload[call[t].capability].mandate
             events == <<e>>
  <2>4. /\ m \in Mandates /\ events \in Seq(EventType)
        /\ AppendEvents(m, events)
        /\ \A j \in DOMAIN events : events[j].nonce = NonceOf[call[t].capability]
    BY <2>2, <2>3
  <2> HIDE DEF m, events
  <2>5. /\ \A i \in DOMAIN audit[k] : i \in DOMAIN audit'[k] /\ audit'[k][i] = audit[k][i]
        /\ \A i \in DOMAIN audit'[k] :
             \/ i \in DOMAIN audit[k] /\ audit'[k][i] = audit[k][i]
             \/ \E j \in DOMAIN events : audit'[k][i] = events[j]
    BY <1>1, <2>4, Appended
  <2> QED BY <2>1, <2>4, <2>5
<1> QED BY <1>2, <1>3, <1>4, WhoWritesRegistry DEF registryVars

\* What a thread concludes at the gate is no refusal for the mandate's state, unless
\* Reserve found one.
LEMMA PresentationIsNotState ==
  ASSUME KernelInvariant, NEW t \in Threads, pc[t] = "gate"
  PROVE  PresentationRefusal(call[t]) \notin StateReasons \union {"RECEIPT"}
<1>1. call[t].tampering \in TamperReasons \union {"NONE"}
  BY ExecutionAssumption DEF KernelInvariant, TypeInvariant, CallsFit, ExecuteCall, Executing
<1> QED BY <1>1 DEF PresentationRefusal, StateReasons, TamperReasons

LEMMA ResultsStep ==
  ASSUME KernelInvariant, ResultsFit, [Next]_vars
  PROVE  ResultsFit'
<1> DEFINE Fit(t) == LET c == call[t].capability IN
      /\ pc[t] = "refused" => result[t] \in StateReasons
      /\ pc[t] = "answered" => result[t] \in Answers
      /\ pc[t] = "return" /\ result[t] \in StateReasons => Dead(NonceOf[c])
      /\ pc[t] = "return" /\ result[t] = "RECEIPT" => Paid(c)
<1>1. /\ pc \in [Threads -> Pcs] /\ result \in [Threads -> Results]
      /\ call \in [Threads -> {NoCall} \union ExecuteCall \union TransitionCall]
  BY DEF KernelInvariant, TypeInvariant, TypeOK
\* A thread that does not move keeps its result, and settled rows stay.
<1>2. ASSUME NEW t \in Threads, pc'[t] = pc[t], call'[t] = call[t], result'[t] = result[t]
      PROVE  Fit(t)'
  <2>1. CASE pc[t] = "return"
    <3>1. call[t].capability \in Capabilities /\ NonceOf[call[t].capability] \in Nonces
      BY <2>1, ExecuteCallType DEF KernelInvariant, Executing
    <3> QED BY <1>2, <2>1, <3>1, DeadStays, PaidStays DEF ResultsFit, Dead, Unpaid, Paid
  <2>2. CASE pc[t] # "return"
    BY <1>2, <2>2 DEF ResultsFit
  <2> QED BY <2>1, <2>2
<1>3. ASSUME NEW t \in Threads, pc'[t] \notin {"refused", "answered", "return"}
      PROVE  Fit(t)'
  BY <1>3
<1>4. ASSUME NEW t \in Threads, Step(t)
      PROVE  Fit(t)'
  <2> USE DEF Go, Leave, Conclude
  <2>1. CASE \/ AcquireLock(t) \/ LockTimeout(t) \/ BeginImmediate(t) \/ BeginFails(t)
             \/ ApplyTransition(t) \/ RefuseTransition(t) \/ Send(t) \/ Return(t)
    <3>1. pc'[t] \notin {"refused", "answered", "return"}
      BY <1>1, <2>1 DEF AcquireLock, LockTimeout, BeginImmediate, BeginFails, ApplyTransition,
         RefuseTransition, Send, Return
    <3> QED BY <3>1, <1>3
  <2>2. CASE RefusePresentation(t) \/ RefuseUsedNonce(t)
    <3>1. pc'[t] = "return" /\ result'[t] \notin StateReasons \union {"RECEIPT"}
      BY <1>1, <2>2, PresentationIsNotState DEF RefusePresentation, RefuseUsedNonce, StateReasons
    <3> QED BY <3>1
  <2>3. CASE Reserve(t)
    <3>1. /\ pc'[t] \in {"granted", "refused"}
          /\ pc'[t] = "refused" => result'[t] \in StateReasons
      BY <1>1, <2>3, StateRefusalType DEF Reserve
    <3> QED BY <3>1
  <2>4. CASE MarkRefused(t)
    <3>1. /\ pc[t] = "refused" /\ pc'[t] = "return" /\ UNCHANGED <<result, call, calls>>
      BY <1>1, <2>4 DEF MarkRefused
    <3>2. result[t] \in StateReasons /\ result[t] # "RECEIPT"
      BY <3>1 DEF ResultsFit, StateReasons
    <3>3. ledger'[NonceOf[call[t].capability]] =
            [status |-> "REJECTED", request |-> RequestOf[call[t].capability]]
      BY <2>4, RowMoves
    <3>5. ledger'[NonceOf[call[t].capability]].status = "REJECTED"
      BY <3>3
    <3>4. Unpaid(NonceOf[call[t].capability])
      BY <3>1 DEF KernelInvariant, NonceInvariant, UnpaidUntilSent
    <3> QED BY <3>1, <3>2, <3>5, <3>4 DEF Dead, Unpaid
  <2>5. CASE Answer(t)
    <3>1. pc'[t] = "answered" /\ result'[t] \in Answers
      BY <1>1, <2>5 DEF Answer
    <3> QED BY <3>1
  <2>6. CASE Mark(t)
    <3>1. pc[t] = "answered" /\ UNCHANGED <<call, calls>>
      BY <2>6 DEF Mark
    <3>2. result[t] \in Answers
      BY <3>1 DEF ResultsFit
    <3>3. /\ ledger[NonceOf[call[t].capability]] =
               [status |-> "RESERVED", request |-> RequestOf[call[t].capability]]
      BY <3>1, HeldRow DEF Holding, InFlight
    <3>4. pc'[t] = "return" /\ result'[t] = result[t]
      BY <1>1, <2>6, <3>3 DEF Mark
    <3>5. result[t] = "RECEIPT" => Paid(call[t].capability)'
      BY <2>6, <3>1, RowMoves DEF Paid, LedgerStatusFor
    <3> QED BY <3>1, <3>2, <3>4, <3>5 DEF Answers, StateReasons, Paid
  <2> QED BY <1>4, <2>1, <2>2, <2>3, <2>4, <2>5, <2>6 DEF Step
<1>5. ASSUME NEW s \in Threads, Step(s) \/ LedgerFault(s) \/ CommitFails(s)
               \/ BeginExecute(s) \/ BeginTransition(s),
             NEW t \in Threads, t # s
      PROVE  Fit(t)'
  <2>1. pc'[t] = pc[t] /\ call'[t] = call[t] /\ result'[t] = result[t]
    <3> USE DEF Go, Leave, Conclude
    <3>1. CASE Step(s)
      BY <1>1, <1>5, <3>1 DEF Step, AcquireLock, LockTimeout, BeginImmediate, BeginFails,
         ApplyTransition, RefuseTransition, RefusePresentation, RefuseUsedNonce, Reserve,
         MarkRefused, Send, Answer, Mark, Return
    <3>2. CASE LedgerFault(s) \/ CommitFails(s)
      BY <1>1, <1>5, <3>2 DEF LedgerFault, CommitFails
    <3>3. CASE BeginExecute(s) \/ BeginTransition(s)
      BY <1>1, <1>5, <3>3 DEF BeginExecute, BeginTransition, Begin
    <3> QED BY <1>5, <3>1, <3>2, <3>3
  <2> QED BY <2>1, <1>2
<1>6. ASSUME NEW t \in Threads, LedgerFault(t) \/ CommitFails(t)
      PROVE  Fit(t)'
  <2>1. \/ pc'[t] = "return" /\ result'[t] = "STORAGE_FAULT"
        \/ pc'[t] = "idle"
    BY <1>1, <1>6 DEF LedgerFault, CommitFails, Go, Leave, Conclude
  <2> QED BY <2>1, <1>3 DEF StateReasons
<1>7. ASSUME NEW t \in Threads, BeginExecute(t) \/ BeginTransition(t)
      PROVE  Fit(t)'
  <2>1. pc'[t] = "lock"
    BY <1>1, <1>7 DEF BeginExecute, BeginTransition, Begin, Go
  <2> QED BY <2>1, <1>3
<1>8. ASSUME NEW k \in Connections, Crash(k), NEW t \in Threads
      PROVE  Fit(t)'
  <2>1. CASE ConnectionOf[t] = k
    <3>1. pc'[t] = "idle"
      BY <1>8, <2>1 DEF Crash
    <3> QED BY <3>1, <1>3
  <2>2. CASE ConnectionOf[t] # k
    <3>1. pc'[t] = pc[t] /\ call'[t] = call[t] /\ result'[t] = result[t]
      BY <1>8, <2>2 DEF Crash
    <3> QED BY <3>1, <1>2
  <2> QED BY <2>1, <2>2
<1>9. ASSUME UNCHANGED <<pc, call, result>>, NEW t \in Threads
      PROVE  Fit(t)'
  BY <1>9, <1>2
<1>10. \/ UNCHANGED <<pc, call, result>>
       \/ \E s \in Threads : Step(s) \/ LedgerFault(s) \/ CommitFails(s)
                             \/ BeginExecute(s) \/ BeginTransition(s)
       \/ \E k \in Connections : Crash(k)
  BY ExecutionAssumption DEF Next, Issue, Tick, Provider, vars, executionVars
<1>11. \A t \in Threads : Fit(t)'
  BY <1>4, <1>5, <1>6, <1>7, <1>8, <1>9, <1>10
<1> QED BY <1>11 DEF ResultsFit

LEMMA FinalStep ==
  ASSUME KernelInvariant, ResultsFit, RefusalIsFinal, [Next]_vars
  PROVE  RefusalIsFinal'
<1>1. ASSUME NEW m \in Mandates, NEW i \in DOMAIN audit'[m], NEW n,
             n = audit'[m][i].nonce, n # NoNonce
      PROVE  n \in Nonces /\ Dead(n)
  <2>1. CASE i \in DOMAIN audit[m] /\ audit'[m][i] = audit[m][i]
    <3>1. audit[m] \in Seq(EventType)
      BY DEF KernelInvariant, TypeInvariant, TypeOK, RegistryTypeOK
    <3>2. audit[m][i] \in EventType
      BY <2>1, <3>1
    <3>3. n \in Nonces
      BY <1>1, <2>1, <3>2 DEF EventType
    <3> QED BY <1>1, <2>1, <3>3 DEF RefusalIsFinal, Dead, Unpaid
  <2>2. ASSUME NEW t \in Threads, Return(t), result[t] \in StateReasons,
               audit'[m][i].nonce = NonceOf[call[t].capability]
        PROVE  n \in Nonces /\ Dead(n)
    <3>1. pc[t] = "return"
      BY <2>2 DEF Return
    <3>2. NonceOf[call[t].capability] \in Nonces /\ Dead(NonceOf[call[t].capability])
      BY <2>2, <3>1, ExecuteCallType DEF ResultsFit, KernelInvariant, Executing
    <3> QED BY <1>1, <2>2, <3>2
  <2> QED BY <1>1, <2>1, <2>2, LogGrows
<1>2. ASSUME NEW m \in Mandates, NEW i \in DOMAIN audit'[m], NEW n,
             n = audit'[m][i].nonce, n # NoNonce
      PROVE  Dead(n)'
  BY <1>1, <1>2, DeadStays
<1> QED BY <1>2 DEF RefusalIsFinal, Dead, Unpaid

\* A caller is told something by Return alone, and what has been issued stays.
LEMMA WhoReports ==
  ASSUME KernelInvariant, [Next]_vars
  PROVE  /\ \A reply \in reported' :
              \/ reply \in reported
              \/ \E t \in Threads : /\ Return(t) /\ reply = <<call[t].capability, result[t]>>
                                    /\ result[t] \in StateReasons \union {"RECEIPT"}
         /\ \A c \in Capabilities : payload[c] # Unissued => payload'[c] = payload[c]
<1>1. CASE UNCHANGED vars
  BY <1>1 DEF vars, executionVars
<1>2. ASSUME NEW t \in Threads, Step(t), ~Return(t)
      PROVE  UNCHANGED <<reported, payload>>
  BY <1>2 DEF Step, AcquireLock, LockTimeout, BeginImmediate, BeginFails, ApplyTransition,
     RefuseTransition, RefusePresentation, RefuseUsedNonce, Reserve, MarkRefused, Send, Answer, Mark
<1>3. ASSUME NEW t \in Threads, Return(t)
      PROVE  /\ UNCHANGED payload
             /\ reported' = IF result[t] \in StateReasons \union {"RECEIPT"}
                            THEN reported \union {<<call[t].capability, result[t]>>} ELSE reported
  BY <1>3 DEF Return
<1>4. CASE \E t \in Threads : LedgerFault(t) \/ CommitFails(t)
  BY <1>4 DEF LedgerFault, CommitFails
<1>5. CASE \E k \in Connections : Crash(k)
  BY <1>5 DEF Crash
<1>6. CASE \E t \in Threads : BeginExecute(t) \/ BeginTransition(t)
  BY <1>6 DEF BeginExecute, BeginTransition, Begin
<1>7. CASE Tick \/ \E c \in Capabilities : Provider(c)
  BY <1>7 DEF Tick, Provider
<1>8. CASE \E c \in Capabilities, k \in Connections, m \in Mandates, v \in Versions :
             \E now \in Readings : \E e \in (now + 1)..(now + MaxLifetime) :
               Issue(c, k, m, v, now, e)
  <2>1. payload \in [Capabilities -> PayloadType \union {Unissued}]
    BY DEF KernelInvariant, TypeInvariant, TypeOK
  <2> QED BY <1>8, <2>1 DEF Issue
<1> QED BY <1>1, <1>2, <1>3, <1>4, <1>5, <1>6, <1>7, <1>8, ExecutionAssumption DEF Next

Recorded(reply) ==
  LET c == reply[1]
      p == payload[c]
  IN IF reply[2] = "RECEIPT"
     THEN Paid(c)
     ELSE \E i \in DOMAIN audit[p.mandate] :
            /\ audit[p.mandate][i].nonce = NonceOf[c]
            /\ audit[p.mandate][i].version = p.version

LEMMA RecordedStays ==
  ASSUME KernelInvariant, [Next]_vars, NEW reply \in Capabilities \X Results,
         payload[reply[1]] # Unissued, Recorded(reply)
  PROVE  Recorded(reply)'
<1> DEFINE c == reply[1]
           p == payload[c]
<1>1. c \in Capabilities /\ payload'[c] = p /\ p \in PayloadType
  BY WhoReports DEF KernelInvariant, TypeInvariant, TypeOK
<1>2. CASE reply[2] = "RECEIPT"
  <2>1. Paid(c)'
    BY <1>1, <1>2, PaidStays DEF Recorded
  <2> QED BY <1>2, <2>1 DEF Recorded, Paid
<1>3. CASE reply[2] # "RECEIPT"
  <2>1. p.mandate \in Mandates
    BY <1>1 DEF PayloadType
  <2>2. PICK i \in DOMAIN audit[p.mandate] :
          /\ audit[p.mandate][i].nonce = NonceOf[c]
          /\ audit[p.mandate][i].version = p.version
    BY <1>3 DEF Recorded
  <2>3. i \in DOMAIN audit'[p.mandate] /\ audit'[p.mandate][i] = audit[p.mandate][i]
    BY <2>1, LogGrows
  <2> QED BY <1>1, <1>3, <2>2, <2>3 DEF Recorded
<1> QED BY <1>2, <1>3

\* The reply that a call ends with is on record when the caller gets it.
LEMMA NewReply ==
  ASSUME KernelInvariant, ResultsFit, [Next]_vars, NEW t \in Threads, Return(t),
         result[t] \in StateReasons \union {"RECEIPT"},
         NEW reply, reply = <<call[t].capability, result[t]>>
  PROVE  payload'[reply[1]] # Unissued /\ Recorded(reply)'
<1> DEFINE p == payload[reply[1]]
<1>0. reply[1] = call[t].capability /\ reply[2] = result[t]
  OBVIOUS
<1>1. pc[t] = "return" /\ payload' = payload
  BY DEF Return
<1>2. reply[1] \in Capabilities /\ p # Unissued /\ p \in PayloadType
  BY <1>0, <1>1, ExecuteCallType DEF KernelInvariant, TypeInvariant, CallsFit, Executing
<1>3. CASE result[t] = "RECEIPT"
  <2>1. Paid(reply[1])
    BY <1>0, <1>1, <1>3 DEF ResultsFit
  <2>2. Paid(reply[1])'
    BY <1>2, <2>1, PaidStays
  <2> QED BY <1>0, <1>1, <1>2, <1>3, <2>2 DEF Recorded, Paid
<1>4. CASE result[t] \in StateReasons
  <2>1. p.mandate \in Mandates
    BY <1>0, <1>4, RefusalLogs
  <2>2. PICK e \in EventType : /\ AppendEvents(p.mandate, <<e>>)
                               /\ e.nonce = NonceOf[reply[1]] /\ e.version = p.version
    BY <1>0, <1>4, RefusalLogs
  <2>3. audit \in [Mandates -> Seq(EventType)]
    BY DEF KernelInvariant, TypeInvariant, TypeOK, RegistryTypeOK
  <2>4. ASSUME NEW m \in Mandates, NEW events \in Seq(EventType), AppendEvents(m, events),
               NEW j \in DOMAIN events
        PROVE  \E i \in DOMAIN audit'[m] : audit'[m][i] = events[j]
    BY <2>3, <2>4, Appended
  <2>5. <<e>> \in Seq(EventType) /\ 1 \in DOMAIN <<e>> /\ <<e>>[1] = e
    OBVIOUS
  <2>6. PICK i \in DOMAIN audit'[p.mandate] : audit'[p.mandate][i] = e
    BY <2>1, <2>2, <2>4, <2>5
  <2>7. reply[2] # "RECEIPT"
    BY <1>0, <1>4 DEF StateReasons
  <2>8. payload'[reply[1]] = p
    BY <1>1
  <2>9. /\ i \in DOMAIN audit'[payload'[reply[1]].mandate]
        /\ audit'[payload'[reply[1]].mandate][i].nonce = NonceOf[reply[1]]
        /\ audit'[payload'[reply[1]].mandate][i].version = payload'[reply[1]].version
    BY <2>2, <2>6, <2>8
  <2>10. payload'[reply[1]] # Unissued
    BY <1>2, <2>8
  <2> HIDE DEF p
  <2> QED BY <2>7, <2>9, <2>10 DEF Recorded
<1> QED BY <1>3, <1>4

LEMMA RepliesStep ==
  ASSUME KernelInvariant, ResultsFit, ReportedIsIssued, RepliesAreRecorded, [Next]_vars
  PROVE  ReportedIsIssued' /\ RepliesAreRecorded'
<1>1. reported \subseteq Capabilities \X Results
  BY DEF KernelInvariant, TypeInvariant, TypeOK
<1>2. ASSUME NEW reply \in reported'
      PROVE  payload'[reply[1]] # Unissued /\ Recorded(reply)'
  <2>1. CASE reply \in reported
    <3>1. /\ reply \in Capabilities \X Results /\ payload[reply[1]] # Unissued
          /\ Recorded(reply)
      BY <1>1, <2>1 DEF ReportedIsIssued, RepliesAreRecorded, Recorded, Paid
    <3>2. payload'[reply[1]] = payload[reply[1]]
      BY <3>1, WhoReports
    <3> QED BY <3>1, <3>2, RecordedStays
  <2>2. CASE \E t \in Threads : /\ Return(t) /\ reply = <<call[t].capability, result[t]>>
                                /\ result[t] \in StateReasons \union {"RECEIPT"}
    <3>1. PICK t \in Threads : /\ Return(t) /\ reply = <<call[t].capability, result[t]>>
                               /\ result[t] \in StateReasons \union {"RECEIPT"}
      BY <2>2
    <3> QED BY <3>1, NewReply
  <2> QED BY <2>1, <2>2, WhoReports
<1> QED BY <1>2 DEF ReportedIsIssued, RepliesAreRecorded, Recorded, Paid

LedgerInvariant == KernelInvariant /\ ResultsFit

RepliesInvariant == LedgerInvariant /\ ReportedIsIssued /\ RepliesAreRecorded

\* A nonce in the refusal log is dead for good: no crash, storage fault or later call,
\* with the same capability or another one that carries it, sends it to the provider.
THEOREM ExecutionRefusalIsFinal == Spec => []RefusalIsFinal
<1>1. Init => LedgerInvariant /\ RefusalIsFinal
  <2>1. Init => ResultsFit
    BY DEF Init, ResultsFit
  <2>2. Init => RefusalIsFinal
    BY DEF Init, RegistryInit, RefusalIsFinal
  <2> QED BY <2>1, <2>2, KernelStart DEF LedgerInvariant
<1>2. LedgerInvariant /\ RefusalIsFinal /\ [Next]_vars => (LedgerInvariant /\ RefusalIsFinal)'
  BY KernelStep, ResultsStep, FinalStep DEF LedgerInvariant
<1> QED BY <1>1, <1>2, PTL DEF Spec

\* What a caller was told stays on record: a receipt as a SUCCEEDED row that nothing
\* overwrites, a refusal for the mandate's state as an event that nothing removes.
THEOREM ExecutionRepliesAreRecorded == Spec => []RepliesAreRecorded
<1>1. Init => RepliesInvariant
  <2>1. Init => ResultsFit
    BY DEF Init, ResultsFit
  <2>2. Init => ReportedIsIssued /\ RepliesAreRecorded
    BY DEF Init, ReportedIsIssued, RepliesAreRecorded
  <2> QED BY <2>1, <2>2, KernelStart DEF LedgerInvariant, RepliesInvariant
<1>2. RepliesInvariant /\ [Next]_vars => RepliesInvariant'
  BY KernelStep, ResultsStep, RepliesStep DEF LedgerInvariant, RepliesInvariant
<1>3. RepliesInvariant => RepliesAreRecorded
  BY DEF RepliesInvariant
<1> QED BY <1>1, <1>2, <1>3, PTL DEF Spec

-----------------------------------------------------------------------------
(* The ledger and the provider *)

\* Two capabilities that carry one nonce ask for different orders: the request holds
\* the capability's own digest.
DistinctRequests ==
  \A c, d \in Capabilities : NonceOf[c] = NonceOf[d] /\ RequestOf[c] = RequestOf[d] => c = d

\* There is no order before a call, and what a thread was answered is the case.
OrdersFit ==
  /\ \A c \in Capabilities : calls[c] = 0 => order[c] = "none"
  /\ \A t \in Threads :
       pc[t] = "answered" =>
         /\ result[t] = "RECEIPT" => order[call[t].capability] = "created"
         /\ result[t] = "PROVIDER_REJECTED" => order[call[t].capability] = "declined"

LEMMA WhoOrders ==
  ASSUME [Next]_vars
  PROVE  \/ UNCHANGED order
         \/ \E c \in Capabilities : Provider(c)
         \/ \E t \in Threads : Send(t)
<1>1. ASSUME NEW t \in Threads, Step(t), ~Send(t)
      PROVE  UNCHANGED order
  BY <1>1 DEF Step, AcquireLock, LockTimeout, BeginImmediate, BeginFails, ApplyTransition,
     RefuseTransition, RefusePresentation, RefuseUsedNonce, Reserve, MarkRefused, Answer, Mark,
     Return
<1>2. ASSUME NEW t \in Threads, LedgerFault(t) \/ CommitFails(t) \/ BeginExecute(t)
                                  \/ BeginTransition(t)
      PROVE  UNCHANGED order
  BY <1>2 DEF LedgerFault, CommitFails, BeginExecute, BeginTransition, Begin
<1>3. CASE \E k \in Connections : Crash(k)
  BY <1>3 DEF Crash
<1>4. CASE \E c \in Capabilities, k \in Connections, m \in Mandates, v \in Versions :
             \E now \in Readings : \E e \in (now + 1)..(now + MaxLifetime) :
               Issue(c, k, m, v, now, e)
  BY <1>4 DEF Issue
<1>5. CASE Tick \/ UNCHANGED vars
  BY <1>5 DEF Tick, vars, executionVars
<1> QED BY <1>1, <1>2, <1>3, <1>4, <1>5, ExecutionAssumption DEF Next

\* What became of an order does not change, and only a call makes one out of nothing.
LEMMA OrderMoves ==
  ASSUME KernelInvariant, [Next]_vars, NEW c \in Capabilities
  PROVE  /\ order[c] \in {"created", "declined"} => order'[c] = order[c]
         /\ order[c] = "none" =>
              \/ order'[c] = "none"
              \/ \E t \in Threads : Send(t) /\ call[t].capability = c
<1>1. order \in [Capabilities -> {"none", "sent", "created", "declined"}]
  BY DEF KernelInvariant, TypeInvariant, TypeOK
<1>2. ASSUME NEW d \in Capabilities, Provider(d)
      PROVE  order[c] # "sent" => order'[c] = order[c]
  BY <1>1, <1>2 DEF Provider
<1>3. ASSUME NEW t \in Threads, Send(t)
      PROVE  \/ order'[c] = order[c]
             \/ order[c] = "none" /\ call[t].capability = c
  BY <1>1, <1>3 DEF Send
<1> QED BY <1>1, <1>2, <1>3, WhoOrders

LEMMA OrdersStep ==
  ASSUME KernelInvariant, DefiniteErrors = TRUE, OrdersFit, [Next]_vars
  PROVE  OrdersFit'
<1>1. /\ pc \in [Threads -> Pcs] /\ result \in [Threads -> Results]
      /\ call \in [Threads -> {NoCall} \union ExecuteCall \union TransitionCall]
      /\ calls \in [Capabilities -> Nat]
  BY DEF KernelInvariant, TypeInvariant, TypeOK
<1>2. ASSUME NEW c \in Capabilities, calls'[c] = 0
      PROVE  order'[c] = "none"
  <2>1. CASE \E t \in Threads : Send(t) /\ call[t].capability = c
    BY <1>1, <1>2, <2>1 DEF Send
  <2>2. CASE ~(\E t \in Threads : Send(t) /\ call[t].capability = c)
    <3>1. calls'[c] = calls[c]
      <4>1. ASSUME NEW t \in Threads, Reserve(t) \/ MarkRefused(t) \/ Send(t) \/ Mark(t)
            PROVE  calls'[c] = calls[c]
        BY <2>2, <4>1, RowMoves
      <4> QED BY <4>1, WhoTouches DEF Untouched
    <3> QED BY <1>2, <2>2, <3>1, OrderMoves DEF OrdersFit
  <2> QED BY <2>1, <2>2
<1>3. ASSUME NEW t \in Threads, pc'[t] = "answered"
      PROVE  \/ Answer(t)
             \/ pc[t] = "answered" /\ call'[t] = call[t] /\ result'[t] = result[t]
  <2> USE DEF Go, Leave, Conclude
  <2>1. ASSUME NEW s \in Threads, Step(s)
        PROVE  Answer(t) \/ (pc[t] = "answered" /\ call'[t] = call[t] /\ result'[t] = result[t])
    <3>1. CASE s = t
      BY <1>1, <1>3, <2>1, <3>1 DEF Step, AcquireLock, LockTimeout, BeginImmediate, BeginFails,
         ApplyTransition, RefuseTransition, RefusePresentation, RefuseUsedNonce, Reserve,
         MarkRefused, Send, Mark, Return
    <3>2. CASE s # t
      BY <1>1, <1>3, <2>1, <3>2 DEF Step, AcquireLock, LockTimeout, BeginImmediate, BeginFails,
         ApplyTransition, RefuseTransition, RefusePresentation, RefuseUsedNonce, Reserve,
         MarkRefused, Send, Answer, Mark, Return
    <3> QED BY <3>1, <3>2
  <2>2. ASSUME NEW s \in Threads, LedgerFault(s) \/ CommitFails(s)
        PROVE  pc[t] = "answered" /\ call'[t] = call[t] /\ result'[t] = result[t]
    BY <1>1, <1>3, <2>2 DEF LedgerFault, CommitFails
  <2>3. ASSUME NEW s \in Threads, BeginExecute(s) \/ BeginTransition(s)
        PROVE  pc[t] = "answered" /\ call'[t] = call[t] /\ result'[t] = result[t]
    BY <1>1, <1>3, <2>3 DEF BeginExecute, BeginTransition, Begin
  <2>4. ASSUME NEW k \in Connections, Crash(k)
        PROVE  pc[t] = "answered" /\ call'[t] = call[t] /\ result'[t] = result[t]
    BY <1>3, <2>4 DEF Crash
  <2>5. CASE UNCHANGED <<pc, call, result>>
    BY <1>3, <2>5
  <2>6. \/ UNCHANGED <<pc, call, result>>
        \/ \E s \in Threads : Step(s) \/ LedgerFault(s) \/ CommitFails(s)
                              \/ BeginExecute(s) \/ BeginTransition(s)
        \/ \E k \in Connections : Crash(k)
    BY ExecutionAssumption DEF Next, Issue, Tick, Provider, vars, executionVars
  <2> QED BY <2>1, <2>2, <2>3, <2>4, <2>5, <2>6
<1>4. ASSUME NEW t \in Threads, pc'[t] = "answered"
      PROVE  /\ result'[t] = "RECEIPT" => order'[call'[t].capability] = "created"
             /\ result'[t] = "PROVIDER_REJECTED" => order'[call'[t].capability] = "declined"
  <2>1. CASE Answer(t)
    <3>1. /\ order' = order /\ call' = call
          /\ \E r \in Answers : Classified(call[t].capability, r) /\ result'[t] = r
      BY <1>1, <2>1 DEF Answer
    <3> QED BY <3>1 DEF Classified
  <2>2. CASE pc[t] = "answered" /\ call'[t] = call[t] /\ result'[t] = result[t]
    <3>1. call[t].capability \in Capabilities
      BY <2>2, ExecuteCallType DEF KernelInvariant, Executing, InFlight
    <3> QED BY <2>2, <3>1, OrderMoves DEF OrdersFit
  <2> QED BY <1>3, <1>4, <2>1, <2>2
<1> QED BY <1>2, <1>4 DEF OrdersFit

LEMMA TruthStep ==
  ASSUME KernelInvariant, ResultsFit, DistinctRequests, OrdersFit, LedgerTellsTruth, [Next]_vars
  PROVE  LedgerTellsTruth'
<1> SUFFICES ASSUME NEW c \in Capabilities, NEW n \in Nonces, n = NonceOf[c],
                    ledger'[n].request = RequestOf[c]
             PROVE  /\ ledger'[n].status = "SUCCEEDED" => order'[c] = "created"
                    /\ ledger'[n].status = "REJECTED" => order'[c] \in {"none", "declined"}
  BY ExecutionAssumption DEF LedgerTellsTruth
<1>1. CASE ledger'[n] = ledger[n]
  <2>1. /\ ledger[n].status = "SUCCEEDED" => order[c] = "created"
        /\ ledger[n].status = "REJECTED" => order[c] \in {"none", "declined"}
    BY <1>1 DEF LedgerTellsTruth
  <2>2. ASSUME NEW t \in Threads, Send(t), call[t].capability = c
        PROVE  ledger[n].status = "RESERVED"
    <3>1. pc[t] \in Holding
      BY <2>2 DEF Send, Holding, InFlight
    <3>2. /\ NonceOf[call[t].capability] = n
          /\ ledger[NonceOf[call[t].capability]] =
               [status |-> "RESERVED", request |-> RequestOf[call[t].capability]]
      BY <2>2, <3>1, HeldRow
    <3> QED BY <3>2
  <2> QED BY <1>1, <2>1, <2>2, OrderMoves
<1>2. CASE ledger'[n] # ledger[n]
  <2>1. PICK t \in Threads : Reserve(t) \/ MarkRefused(t) \/ Send(t) \/ Mark(t)
    BY <1>2, WhoTouches DEF Untouched
  <2>2. n = NonceOf[call[t].capability] /\ call[t].capability \in Capabilities
    BY <1>2, <2>1, RowMoves
  <2>3. CASE Reserve(t)
    <3>1. ledger'[n].status = "RESERVED"
      <4>1. ledger \in [Nonces -> LedgerType]
        BY DEF KernelInvariant, TypeInvariant, TypeOK
      <4> QED BY <2>2, <2>3, <4>1 DEF Reserve
    <3> QED BY <3>1
  <2>4. CASE MarkRefused(t)
    <3>1. pc[t] = "refused" /\ order' = order
      BY <2>4 DEF MarkRefused
    <3>2. Unpaid(n)
      BY <2>2, <3>1 DEF KernelInvariant, NonceInvariant, UnpaidUntilSent
    <3>3. order'[c] = "none"
      BY <3>1, <3>2 DEF Unpaid, OrdersFit
    <3>4. ledger'[n] = [status |-> "REJECTED", request |-> RequestOf[call[t].capability]]
      BY <2>2, <2>4, RowMoves
    <3> QED BY <3>3, <3>4
  <2>5. CASE Mark(t)
    <3>1. pc[t] = "answered" /\ order' = order
      BY <2>5 DEF Mark
    <3>2. ledger'[n] = [status |-> LedgerStatusFor(result[t]),
                        request |-> RequestOf[call[t].capability]]
      BY <2>2, <2>5, RowMoves
    <3>3. c = call[t].capability
      <4>1. RequestOf[call[t].capability] = RequestOf[c]
        BY <3>2
      <4> QED BY <2>2, <4>1 DEF DistinctRequests
    <3>4. /\ ledger'[n].status = "SUCCEEDED" => result[t] = "RECEIPT"
          /\ ledger'[n].status = "REJECTED" => result[t] = "PROVIDER_REJECTED"
      BY <3>2 DEF LedgerStatusFor
    <3> QED BY <3>1, <3>3, <3>4 DEF OrdersFit
  <2>6. CASE Send(t)
    BY <1>2, <2>6, RowMoves
  <2> QED BY <2>1, <2>3, <2>4, <2>5, <2>6
<1> QED BY <1>1, <1>2

TruthInvariant == LedgerInvariant /\ OrdersFit /\ LedgerTellsTruth

\* If a provider that answers outside 2xx took no order, and requests tell the
\* capabilities of a nonce apart, then the ledger can be reconciled with the provider:
\* SUCCEEDED is an order that exists, REJECTED one that does not and never will.
THEOREM ExecutionLedgerTellsTruth ==
  ASSUME DefiniteErrors = TRUE, DistinctRequests
  PROVE  Spec => []LedgerTellsTruth
<1>1. Init => TruthInvariant
  <2>1. Init => ResultsFit
    BY DEF Init, ResultsFit
  <2>2. Init => OrdersFit
    BY DEF Init, OrdersFit
  <2>3. Init => LedgerTellsTruth
    BY ExecutionAssumption DEF Init, LedgerTellsTruth
  <2> QED BY <2>1, <2>2, <2>3, KernelStart DEF LedgerInvariant, TruthInvariant
<1>2. TruthInvariant /\ [Next]_vars => TruthInvariant'
  BY KernelStep, ResultsStep, OrdersStep, TruthStep DEF LedgerInvariant, TruthInvariant
<1>3. TruthInvariant => LedgerTellsTruth
  BY DEF TruthInvariant
<1> QED BY <1>1, <1>2, <1>3, PTL DEF Spec

-----------------------------------------------------------------------------
(* The registry under the kernel *)

\* A refusal that is still to be committed is of a nonce no log has yet.
RefusalIsNew ==
  \A t \in Threads :
    pc[t] = "return" /\ result[t] \in StateReasons => FreshNonce(NonceOf[call[t].capability])

\* A thread comes to the end of its call with a refusal for the mandate's state by
\* MarkRefused alone.
LEMMA WhoRefuses ==
  ASSUME KernelInvariant, ResultsFit, [Next]_vars, NEW t \in Threads,
         pc'[t] = "return", result'[t] \in StateReasons
  PROVE  \/ MarkRefused(t)
         \/ pc[t] = "return" /\ call'[t] = call[t] /\ result'[t] = result[t]
<1>1. /\ pc \in [Threads -> Pcs] /\ result \in [Threads -> Results]
      /\ call \in [Threads -> {NoCall} \union ExecuteCall \union TransitionCall]
  BY DEF KernelInvariant, TypeInvariant, TypeOK
<1> USE DEF Go, Leave, Conclude
<1>2. ASSUME NEW s \in Threads, s # t, Step(s)
      PROVE  pc'[t] = pc[t] /\ call'[t] = call[t] /\ result'[t] = result[t]
  BY <1>1, <1>2 DEF Step, AcquireLock, LockTimeout, BeginImmediate, BeginFails,
     ApplyTransition, RefuseTransition, RefusePresentation, RefuseUsedNonce, Reserve,
     MarkRefused, Send, Answer, Mark, Return
<1>3. CASE Step(t)
  <2>1. CASE \/ AcquireLock(t) \/ LockTimeout(t) \/ BeginImmediate(t) \/ BeginFails(t)
             \/ ApplyTransition(t) \/ RefuseTransition(t) \/ Reserve(t) \/ Send(t) \/ Answer(t)
             \/ Return(t)
    <3>1. pc'[t] # "return"
      BY <1>1, <2>1 DEF AcquireLock, LockTimeout, BeginImmediate, BeginFails, ApplyTransition,
         RefuseTransition, Reserve, Send, Answer, Return
    <3> QED BY <3>1
  <2>2. CASE RefusePresentation(t) \/ RefuseUsedNonce(t)
    <3>1. result'[t] \notin StateReasons
      BY <1>1, <2>2, PresentationIsNotState DEF RefusePresentation, RefuseUsedNonce, StateReasons
    <3> QED BY <3>1
  <2>3. CASE Mark(t)
    <3>1. pc[t] = "answered" /\ result[t] \in Answers
      BY <2>3 DEF Mark, ResultsFit
    <3>2. result'[t] \in {result[t], "LEDGER_TRANSITION_FAILED"}
      BY <1>1, <2>3 DEF Mark
    <3> QED BY <3>1, <3>2 DEF Answers, StateReasons
  <2> QED BY <1>3, <2>1, <2>2, <2>3 DEF Step
<1>4. ASSUME NEW s \in Threads, LedgerFault(s) \/ CommitFails(s)
      PROVE  pc[t] = "return" /\ call'[t] = call[t] /\ result'[t] = result[t]
  <2>1. CASE s = t
    BY <1>1, <1>4, <2>1 DEF LedgerFault, CommitFails, StateReasons
  <2>2. CASE s # t
    BY <1>1, <1>4, <2>2 DEF LedgerFault, CommitFails
  <2> QED BY <2>1, <2>2
<1>5. ASSUME NEW s \in Threads, BeginExecute(s) \/ BeginTransition(s)
      PROVE  pc[t] = "return" /\ call'[t] = call[t] /\ result'[t] = result[t]
  BY <1>1, <1>5 DEF BeginExecute, BeginTransition, Begin
<1>6. ASSUME NEW k \in Connections, Crash(k)
      PROVE  pc[t] = "return" /\ call'[t] = call[t] /\ result'[t] = result[t]
  BY <1>6 DEF Crash
<1>7. CASE UNCHANGED <<pc, call, result>>
  BY <1>7
<1>8. \/ UNCHANGED <<pc, call, result>>
      \/ \E s \in Threads : Step(s) \/ LedgerFault(s) \/ CommitFails(s)
                            \/ BeginExecute(s) \/ BeginTransition(s)
      \/ \E k \in Connections : Crash(k)
  BY ExecutionAssumption DEF Next, Issue, Tick, Provider, vars, executionVars
<1> QED BY <1>2, <1>3, <1>4, <1>5, <1>6, <1>7, <1>8

LEMMA RefusalIsNewStep ==
  ASSUME LedgerInvariant, RefusalIsFinal, RefusalIsNew, [Next]_vars
  PROVE  RefusalIsNew'
<1> USE DEF LedgerInvariant
<1> SUFFICES ASSUME NEW t \in Threads, pc'[t] = "return", result'[t] \in StateReasons
             PROVE  FreshNonce(NonceOf[call[t].capability])'
  BY DEF RefusalIsNew
<1>1. CASE MarkRefused(t)
  <2> DEFINE n == NonceOf[call[t].capability]
  <2>1. pc[t] = "refused" /\ call' = call /\ audit' = audit
    BY <1>1 DEF MarkRefused, registryVars
  <2>2. n \in Nonces /\ ledger[n].status = "RESERVED"
    <3>1. pc[t] \in Holding
      BY <2>1 DEF Holding
    <3>2. /\ n \in Nonces
          /\ ledger[n] = [status |-> "RESERVED", request |-> RequestOf[call[t].capability]]
      BY <3>1, HeldRow
    <3> HIDE DEF n
    <3> QED BY <3>2
  <2>3. ASSUME NEW m \in Mandates, NEW i \in DOMAIN audit[m], audit[m][i].nonce = n
        PROVE  FALSE
    <3>1. n # NoNonce
      BY <2>2, RegistryAssumption
    <3>2. ledger[audit[m][i].nonce].status = "REJECTED"
      BY <2>3, <3>1 DEF RefusalIsFinal
    <3> QED BY <2>2, <2>3, <3>2
  <2> QED BY <2>1, <2>3 DEF FreshNonce
\* While a refusal waits to be committed, nobody else writes into the log.
<1>2. CASE pc[t] = "return" /\ call'[t] = call[t] /\ result'[t] = result[t]
  <2>1. UNCHANGED registryVars
    <3>1. ASSUME NEW s \in Threads, ApplyTransition(s) \/ Return(s)
          PROVE  FALSE
      <4>1. pc[s] \in Guarded /\ pc[t] \in Guarded
        BY <1>2, <3>1 DEF ApplyTransition, Return, Guarded
      <4>2. s = t
        BY <4>1, Exclusive DEF KernelInvariant
      <4>3. pc \in [Threads -> Pcs]
        BY DEF KernelInvariant, TypeInvariant, TypeOK
      <4> QED BY <3>1, <4>2, <4>3 DEF ApplyTransition, Return, Leave, Go
    <3> QED BY <3>1, WhoWritesRegistry
  <2> QED BY <1>2, <2>1 DEF RefusalIsNew, FreshNonce, registryVars
<1> QED BY <1>1, <1>2, WhoRefuses

LEMMA RegistryRefinementStep ==
  ASSUME LedgerInvariant, RefusalIsNew, [Next]_vars
  PROVE  [RegistryNext]_registryVars
<1> USE DEF LedgerInvariant, KernelInvariant
<1>1. ASSUME NEW t \in Threads, ApplyTransition(t)
      PROVE  RegistryNext
  <2>1. /\ call[t].mandate \in Mandates /\ call[t].version \in Versions
        /\ call[t].next \in Versions /\ call[t].now \in Times
    BY <1>1 DEF TypeInvariant, CallsFit, ApplyTransition, TransitionCall
  <2>2. \/ RegisterActive(call[t].mandate, call[t].version, call[t].now)
        \/ Revoke(call[t].mandate, call[t].version, call[t].now)
        \/ Supersede(call[t].mandate, call[t].version, call[t].next, call[t].now)
    BY <1>1 DEF ApplyTransition
  <2> QED BY <2>1, <2>2 DEF RegistryNext
<1>2. ASSUME NEW t \in Threads, Return(t), result[t] \in StateReasons
      PROVE  RegistryNext
  <2> DEFINE c == call[t].capability
             p == payload[c]
  <2>1. pc[t] = "return" /\ RecordExecutionRefusal(p.mandate, p.version, NonceOf[c], call[t].now)
    BY <1>2 DEF Return
  <2>2. /\ p.mandate \in Mandates /\ p.version \in Versions
        /\ NonceOf[c] \in Nonces /\ call[t].now \in Times
    BY <2>1, ExecuteCallType DEF Executing, PayloadType
  <2>3. FreshNonce(NonceOf[c])
    BY <1>2, <2>1 DEF RefusalIsNew
  <2> HIDE DEF c, p
  <2> QED BY <2>1, <2>2, <2>3 DEF RegistryNext
<1> QED BY <1>1, <1>2, WhoWritesRegistry

\* The registry keeps its own specification inside the kernel: no thread, crash or
\* failure reaches its tables but through its operations, and the gate never logs a
\* nonce twice, which the registry itself does not check.
THEOREM ExecutionImplementsRegistry == Spec => ImplementsRegistry
<1> DEFINE Inv == LedgerInvariant /\ RefusalIsFinal /\ RefusalIsNew
<1>1. Init => Inv
  <2>1. Init => ResultsFit
    BY DEF Init, ResultsFit
  <2>2. Init => RefusalIsFinal
    BY DEF Init, RegistryInit, RefusalIsFinal
  <2>3. Init => RefusalIsNew
    BY DEF Init, RefusalIsNew
  <2> QED BY <2>1, <2>2, <2>3, KernelStart DEF LedgerInvariant
<1>2. Inv /\ [Next]_vars => Inv'
  BY KernelStep, ResultsStep, FinalStep, RefusalIsNewStep DEF LedgerInvariant
<1>3. Inv /\ [Next]_vars => [RegistryNext]_registryVars
  BY RegistryRefinementStep
<1>4. Init => RegistryInit
  BY DEF Init
<1> HIDE DEF Inv
<1> QED BY <1>1, <1>2, <1>3, <1>4, PTL DEF Spec, ImplementsRegistry, RegistrySpec

-----------------------------------------------------------------------------
(* The one-step gate *)

\* What ConsentGate's variables stand for in the kernel.
InForceNow == [m \in Mandates |-> {v \in Versions : states[m][v].status = "ACTIVE"}]
EverNow    == [m \in Mandates |-> {v \in Versions : Present(m, v)}]
BoundNow   == [c \in Capabilities |->
                 IF payload[c] = Unissued THEN Unissued
                 ELSE [mandate |-> payload[c].mandate, version |-> payload[c].version]]
SpentNow   == {n \in Nonces :
                 /\ ledger[n].status # "FREE"
                 /\ \A t \in Threads : pc[t] = "granted" => NonceOf[call[t].capability] # n}
OrderedNow == {c \in Capabilities : calls[c] > 0}

GateNow == <<InForceNow, EverNow, BoundNow, SpentNow, OrderedNow>>

LEMMA GateStart == Init => Gate!GateInit
<1> SUFFICES ASSUME Init PROVE Gate!GateInit
  OBVIOUS
<1>1. InForceNow = [m \in Mandates |-> {}] /\ EverNow = [m \in Mandates |-> {}]
  BY DEF Init, RegistryInit, NoRow, Present, InForceNow, EverNow
<1>2. BoundNow = [c \in Capabilities |-> Unissued]
  BY DEF Init, BoundNow
<1>3. SpentNow = {}
  BY DEF Init, SpentNow
<1>4. OrderedNow = {}
  BY DEF Init, OrderedNow
<1> QED BY <1>1, <1>2, <1>3, <1>4
        DEF Gate!GateInit, InForceNow, EverNow, BoundNow, SpentNow, OrderedNow

\* A step that leaves the rows, the payloads and the counters alone.
LEMMA OnlySpent ==
  ASSUME UNCHANGED <<states, payload, calls>>
  PROVE  UNCHANGED <<InForceNow, EverNow, BoundNow, OrderedNow>>
BY DEF InForceNow, EverNow, BoundNow, OrderedNow, Present

\* A step that takes no row of the ledger and grants or ends nothing.
LEMMA SpentStays ==
  ASSUME \A n \in Nonces : ledger'[n].status # "FREE" <=> ledger[n].status # "FREE",
         \A s \in Threads : /\ pc'[s] = "granted" <=> pc[s] = "granted"
                            /\ pc[s] = "granted" => call'[s] = call[s]
  PROVE  SpentNow' = SpentNow
BY DEF SpentNow

\* At most one thread has a reservation it has not used.
LEMMA GrantedAlone ==
  ASSUME KernelInvariant, NEW s \in Threads, NEW t \in Threads,
         pc[s] = "granted", pc[t] \in Guarded
  PROVE  s = t
BY Exclusive DEF KernelInvariant, Guarded, InFlight

\* Every version a mandate ever had is at most the current one, and no other is ACTIVE.
LEMMA RowsBelowPointer ==
  ASSUME KernelInvariant, NEW m \in Mandates
  PROVE  /\ InForceNow[m] \subseteq EverNow[m]
         /\ \A w \in EverNow[m] : Registered(m) /\ w <= current[m]
         /\ \A w \in InForceNow[m] : w = current[m]
<1>1. Consistent /\ NoOrphans /\ RegistryTypeOK
  BY DEF KernelInvariant, TypeInvariant, RegistryInvariant
<1>2. \A w \in Versions : Present(m, w) => Registered(m) /\ w <= current[m]
  BY <1>1 DEF Consistent, NoOrphans, ConsistentRows
<1>3. \A w \in Versions : states[m][w].status = "ACTIVE" => Present(m, w)
  BY DEF Present
<1>4. \A w \in Versions : states[m][w].status = "ACTIVE" => w = current[m]
  BY <1>1, <1>2, <1>3 DEF Consistent, ConsistentRows
<1> QED BY <1>2, <1>3, <1>4 DEF InForceNow, EverNow

\* How one written row shows in the sets of versions.
LEMMA WrittenRow ==
  ASSUME RegistryTypeOK, NEW m \in Mandates, NEW v \in Versions,
         NEW status \in MandateStatus, NEW x, NEW y,
         states' = [states EXCEPT ![m][v] = MandateState(status, x, y)]
  PROVE  /\ EverNow' = [EverNow EXCEPT ![m] = @ \union {v}]
         /\ status = "ACTIVE" => InForceNow' = [InForceNow EXCEPT ![m] = @ \union {v}]
         /\ status # "ACTIVE" => InForceNow' = [InForceNow EXCEPT ![m] = @ \ {v}]
<1>1. states \in [Mandates -> [Versions -> RowType]]
  BY DEF RegistryTypeOK
<1>2. MandateState(status, x, y).status = status /\ status # "ABSENT"
  BY DEF MandateState, MandateStatus, Live, Terminal
<1>3. /\ states'[m][v].status = status
      /\ \A k \in Mandates, w \in Versions : ~(k = m /\ w = v) => states'[k][w] = states[k][w]
  BY <1>1, <1>2
<1>4. ASSUME NEW k \in Mandates
      PROVE  EverNow'[k] = [EverNow EXCEPT ![m] = @ \union {v}][k]
  BY <1>2, <1>3 DEF EverNow, Present
<1>5. ASSUME NEW k \in Mandates, status = "ACTIVE"
      PROVE  InForceNow'[k] = [InForceNow EXCEPT ![m] = @ \union {v}][k]
  BY <1>2, <1>3, <1>5 DEF InForceNow
<1>6. ASSUME NEW k \in Mandates, status # "ACTIVE"
      PROVE  InForceNow'[k] = [InForceNow EXCEPT ![m] = @ \ {v}][k]
  BY <1>2, <1>3, <1>6 DEF InForceNow
<1> QED BY <1>4, <1>5, <1>6 DEF EverNow, InForceNow

LEMMA TransitionIsConsent ==
  ASSUME KernelInvariant, NEW t \in Threads, ApplyTransition(t)
  PROVE  Gate!GateNext
<1>0. /\ call[t].mandate \in Mandates /\ call[t].now \in Times
      /\ call[t].version \in Versions /\ call[t].next \in Versions
  BY DEF KernelInvariant, TypeInvariant, CallsFit, ApplyTransition, TransitionCall
<1>1. PICK m \in Mandates, v \in Versions, w \in Versions, now \in Times :
        /\ m = call[t].mandate /\ now = call[t].now
        /\ v = call[t].version /\ w = call[t].next
  BY <1>0
<1>2. RegistryTypeOK
  BY DEF KernelInvariant, TypeInvariant, TypeOK
<1>3. UNCHANGED <<BoundNow, OrderedNow>>
  BY DEF ApplyTransition, BoundNow, OrderedNow
<1>4. SpentNow' = SpentNow
  <2>1. /\ pc \in [Threads -> Pcs]
        /\ call \in [Threads -> {NoCall} \union ExecuteCall \union TransitionCall]
    BY DEF KernelInvariant, TypeInvariant, TypeOK
  <2> QED BY <2>1, SpentStays DEF ApplyTransition, Leave, Go
<1>5. Versions \subseteq Nat \ {0} /\ current[m] \in Versions \union {0}
  BY <1>2, RegistryAssumption DEF RegistryTypeOK
<1>6. ASSUME RegisterActive(m, v, now)
      PROVE  Gate!Consent(m, v)
  <2>1. states' = [states EXCEPT ![m][v] = MandateState("ACTIVE", now, 0)]
    BY <1>6 DEF RegisterActive
  <2>2. /\ EverNow' = [EverNow EXCEPT ![m] = @ \union {v}]
        /\ InForceNow' = [InForceNow EXCEPT ![m] = @ \union {v}]
    BY <1>1, <1>2, <2>1, WrittenRow DEF MandateStatus, Live
  <2>3. \A x \in EverNow[m] : x < v
    BY <1>1, <1>5, <1>6, RowsBelowPointer DEF RegisterActive, CanRegister, EverNow
  <2>4. InForceNow[m] = {}
    <3>1. ASSUME NEW x \in InForceNow[m]
          PROVE  FALSE
      <4>1. x = current[m] /\ Registered(m) /\ states[m][x].status = "ACTIVE"
        BY <1>1, RowsBelowPointer DEF InForceNow
      <4> QED BY <1>6, <4>1 DEF RegisterActive, CanRegister, CurrentRow
    <3> QED BY <3>1
  <2>5. InForceNow' = [InForceNow EXCEPT ![m] = {v}]
    BY <1>1, <2>2, <2>4 DEF InForceNow
  <2> QED BY <1>3, <1>4, <2>2, <2>3, <2>5
          DEF Gate!Consent, InForceNow, EverNow, BoundNow, SpentNow, OrderedNow
<1>7. ASSUME Revoke(m, v, now)
      PROVE  Gate!Withdraw(m)
  <2>0. states' = [states EXCEPT ![m][v] = MandateState("REVOKED", now, 0)]
    BY <1>7 DEF Revoke
  <2>1. v = current[m] /\ states[m][v].status = "ACTIVE"
    BY <1>7 DEF Revoke, CanEnd, CurrentRow
  <2>2. /\ EverNow' = [EverNow EXCEPT ![m] = @ \union {v}]
        /\ InForceNow' = [InForceNow EXCEPT ![m] = @ \ {v}]
    <3>1. "REVOKED" \in MandateStatus
      BY DEF MandateStatus, Terminal
    <3>2. "REVOKED" # "ACTIVE"
      OBVIOUS
    <3>3. EverNow' = [EverNow EXCEPT ![m] = @ \union {v}]
      BY <1>1, <1>2, <2>0, <3>1, WrittenRow
    <3>4. InForceNow' = [InForceNow EXCEPT ![m] = @ \ {v}]
      BY <1>1, <1>2, <2>0, <3>1, <3>2, WrittenRow
    <3> QED BY <3>3, <3>4
  <2>3. v \in EverNow[m]
    BY <1>1, <2>1 DEF EverNow, Present
  <2>4. EverNow' = EverNow
    BY <1>1, <2>2, <2>3 DEF EverNow
  <2>5. InForceNow[m] \ {v} = {}
    BY <1>1, <2>1, RowsBelowPointer
  <2>6. InForceNow' = [InForceNow EXCEPT ![m] = {}]
    BY <1>1, <2>2, <2>5 DEF InForceNow
  <2> QED BY <1>3, <1>4, <2>4, <2>6
          DEF Gate!Withdraw, InForceNow, EverNow, BoundNow, SpentNow, OrderedNow
<1>8. ASSUME Supersede(m, v, w, now)
      PROVE  Gate!Consent(m, w)
  <2>1. /\ v = current[m] /\ states[m][v].status = "ACTIVE" /\ w > v
        /\ states' = [states EXCEPT ![m] =
             [@ EXCEPT ![v] = MandateState("SUPERSEDED", now, w),
                       ![w] = MandateState("ACTIVE", now, 0)]]
    BY <1>8 DEF Supersede, CanEnd, CurrentRow
  <2>2. /\ states'[m][v].status = "SUPERSEDED" /\ states'[m][w].status = "ACTIVE"
        /\ \A k \in Mandates, x \in Versions :
             ~(k = m /\ x \in {v, w}) => states'[k][x] = states[k][x]
    BY <1>1, <1>2, <1>5, <2>1 DEF RegistryTypeOK, MandateState
  <2>3. \A x \in EverNow[m] : x < w
    BY <1>1, <1>5, <2>1, RowsBelowPointer DEF EverNow
  <2>4. v \in EverNow[m] /\ \A x \in InForceNow[m] : x = v
    BY <1>1, <2>1, RowsBelowPointer DEF EverNow, Present
  <2>5. EverNow' = [EverNow EXCEPT ![m] = @ \union {w}]
    <3>1. ASSUME NEW k \in Mandates
          PROVE  EverNow'[k] = [EverNow EXCEPT ![m] = @ \union {w}][k]
      BY <1>1, <2>2, <2>4 DEF EverNow, Present
    <3> QED BY <3>1 DEF EverNow
  <2>6. InForceNow' = [InForceNow EXCEPT ![m] = {w}]
    <3>1. ASSUME NEW k \in Mandates
          PROVE  InForceNow'[k] = [InForceNow EXCEPT ![m] = {w}][k]
      BY <1>1, <2>2, <2>4 DEF InForceNow
    <3> QED BY <3>1 DEF InForceNow
  <2> QED BY <1>3, <1>4, <2>3, <2>5, <2>6
          DEF Gate!Consent, InForceNow, EverNow, BoundNow, SpentNow, OrderedNow
<1>9. \/ RegisterActive(m, v, now) \/ Revoke(m, v, now)
      \/ Supersede(m, v, w, now)
  BY <1>1 DEF ApplyTransition
<1>10. Gate!Withdraw(m) \/ Gate!Consent(m, v) \/ Gate!Consent(m, w)
  BY <1>6, <1>7, <1>8, <1>9
<1> QED BY <1>10 DEF Gate!GateNext

LEMMA IssueIsBind ==
  ASSUME KernelInvariant, NEW c \in Capabilities, NEW k \in Connections, NEW m \in Mandates,
         NEW v \in Versions, NEW now \in Readings, NEW e \in (now + 1)..(now + MaxLifetime),
         Issue(c, k, m, v, now, e)
  PROVE  Gate!GateNext
<1>1. /\ payload \in [Capabilities -> PayloadType \union {Unissued}]
      /\ payload[c] = Unissued /\ states[m][v].status = "ACTIVE"
      /\ payload' = [payload EXCEPT ![c] =
           [mandate |-> m, version |-> v, issued_at |-> now, expires_at |-> e]]
  BY DEF KernelInvariant, TypeInvariant, TypeOK, Issue, InForce
<1>2. payload'[c] # Unissued
  <2>1. now \in Times /\ now \in Nat
    BY RegistryAssumption DEF Readings
  <2>2. e \in Nat
    BY <2>1, ExecutionAssumption
  <2>3. [mandate |-> m, version |-> v, issued_at |-> now, expires_at |-> e] \in PayloadType
    BY <2>1, <2>2 DEF PayloadType
  <2> QED BY <1>1, <2>3, ExecutionAssumption
<1>3. BoundNow[c] = Unissued /\ v \in InForceNow[m]
  BY <1>1 DEF BoundNow, InForceNow
<1>4. BoundNow' = [BoundNow EXCEPT ![c] = [mandate |-> m, version |-> v]]
  <2>1. ASSUME NEW d \in Capabilities
        PROVE  BoundNow'[d] = [BoundNow EXCEPT ![c] = [mandate |-> m, version |-> v]][d]
    <3>1. CASE d = c
      <4>1. payload'[c].mandate = m /\ payload'[c].version = v
        BY <1>1
      <4> QED BY <1>2, <3>1, <4>1 DEF BoundNow
    <3>2. CASE d # c
      BY <1>1, <3>2 DEF BoundNow
    <3> QED BY <3>1, <3>2
  <2> QED BY <2>1 DEF BoundNow
<1>5. UNCHANGED <<InForceNow, EverNow, SpentNow, OrderedNow>>
  BY DEF Issue, registryVars, InForceNow, EverNow, Present, SpentNow, OrderedNow
<1>6. Gate!Bind(c, m, v)
  BY <1>3, <1>4, <1>5 DEF Gate!Bind, InForceNow, EverNow, BoundNow, SpentNow, OrderedNow
<1> QED BY <1>6 DEF Gate!GateNext

LEMMA ReserveBurnsOrWaits ==
  ASSUME KernelInvariant, NEW t \in Threads, Reserve(t)
  PROVE  Gate!GateNext \/ UNCHANGED GateNow
<1>1. PICK n \in Nonces : n = NonceOf[call[t].capability]
  BY ExecuteCallType DEF Reserve, Executing, KernelInvariant
<1>2. /\ pc \in [Threads -> Pcs] /\ ledger \in [Nonces -> LedgerType]
      /\ pc[t] = "gate" /\ call' = call
      /\ ledger[n].status = "FREE"
      /\ ledger' = [ledger EXCEPT ![n] = [status |-> "RESERVED",
                                          request |-> RequestOf[call[t].capability]]]
      /\ \/ pc' = [pc EXCEPT ![t] = "granted"]
         \/ pc' = [pc EXCEPT ![t] = "refused"]
  BY <1>1 DEF KernelInvariant, TypeInvariant, TypeOK, Reserve, Go
<1>3. UNCHANGED <<InForceNow, EverNow, BoundNow, OrderedNow>>
  BY OnlySpent DEF Reserve, registryVars
<1>4. ledger'[n].status # "FREE" /\ \A o \in Nonces : o # n => ledger'[o] = ledger[o]
  BY <1>2
<1>5. \A s \in Threads : pc[s] # "granted"
  BY <1>2, GrantedAlone DEF Guarded
<1>6. CASE pc' = [pc EXCEPT ![t] = "granted"]
  <2>1. \A s \in Threads : pc'[s] = "granted" <=> s = t
    BY <1>2, <1>5, <1>6
  <2>2. SpentNow' = SpentNow
    BY <1>1, <1>2, <1>4, <1>5, <2>1 DEF SpentNow
  <2> QED BY <1>3, <2>2 DEF GateNow
<1>7. CASE pc' = [pc EXCEPT ![t] = "refused"]
  <2>1. \A s \in Threads : pc'[s] # "granted"
    BY <1>2, <1>5, <1>7
  <2>2. n \notin SpentNow /\ SpentNow' = SpentNow \union {n}
    BY <1>2, <1>4, <1>5, <2>1 DEF SpentNow
  <2>3. Gate!Burn(n)
    BY <1>3, <2>2 DEF Gate!Burn, InForceNow, EverNow, BoundNow, SpentNow, OrderedNow
  <2> QED BY <2>3 DEF Gate!GateNext
<1> QED BY <1>2, <1>6, <1>7

\* The step the promise speaks of: the consent is still in force, and the nonce, which
\* this thread alone holds, has not been spent.
LEMMA SendIsOrder ==
  ASSUME KernelInvariant, InFlightConsent, NEW t \in Threads, Send(t)
  PROVE  Gate!GateNext
<1>0. pc[t] = "granted"
  BY DEF Send
<1>1. PICK c \in Capabilities : c = call[t].capability /\ payload[c] \in PayloadType
  BY <1>0, ExecuteCallType DEF Executing, InFlight, KernelInvariant
<1>2. /\ pc \in [Threads -> Pcs] /\ calls \in [Capabilities -> Nat]
      /\ pc' = [pc EXCEPT ![t] = "calling"]
      /\ calls' = [calls EXCEPT ![c] = @ + 1]
      /\ UNCHANGED <<states, payload, ledger, call>>
  BY <1>1 DEF KernelInvariant, TypeInvariant, TypeOK, Send, Go, registryVars
<1>3. NonceOf[c] \in Nonces /\ ledger[NonceOf[c]].status = "RESERVED"
  <2>1. pc[t] \in Holding
    BY <1>0 DEF Holding, InFlight
  <2>2. NonceOf[c] \in Nonces
        /\ ledger[NonceOf[c]] = [status |-> "RESERVED", request |-> RequestOf[c]]
    BY <1>1, <2>1, HeldRow
  <2> QED BY <2>2
<1>4. /\ payload[c].mandate \in Mandates /\ payload[c].version \in Versions
      /\ payload[c] # Unissued
  BY <1>1, ExecutionAssumption DEF PayloadType
<1>5. BoundNow[c] = [mandate |-> payload[c].mandate, version |-> payload[c].version]
  BY <1>4 DEF BoundNow
<1>6. BoundNow[c] # Unissued
  BY <1>4, <1>5, ExecutionAssumption
<1>7. BoundNow[c].version \in InForceNow[BoundNow[c].mandate]
  <2>1. InForce(payload[c].mandate, payload[c].version)
    BY <1>0, <1>1 DEF InFlightConsent, InFlight
  <2> QED BY <1>4, <1>5, <2>1 DEF InForceNow, InForce
<1>8. \A s \in Threads : pc[s] = "granted" <=> s = t
  BY <1>0, GrantedAlone DEF Guarded, InFlight
<1>9. \A s \in Threads : pc'[s] # "granted"
  BY <1>2, <1>8
<1>10. NonceOf[c] \notin SpentNow /\ SpentNow' = SpentNow \union {NonceOf[c]}
  BY <1>1, <1>2, <1>3, <1>8, <1>9 DEF SpentNow
<1>11. OrderedNow' = OrderedNow \union {c}
  BY <1>2 DEF OrderedNow
<1>12. UNCHANGED <<InForceNow, EverNow, BoundNow>>
  BY <1>2 DEF InForceNow, EverNow, BoundNow, Present
<1>13. Gate!Order(c)
  BY <1>6, <1>7, <1>10, <1>11, <1>12
  DEF Gate!Order, InForceNow, EverNow, BoundNow, SpentNow, OrderedNow
<1> QED BY <1>13 DEF Gate!GateNext

\* A process that dies between the reservation and the request loses the nonce.
LEMMA CrashBurnsOrWaits ==
  ASSUME KernelInvariant, NEW k \in Connections, Crash(k)
  PROVE  Gate!GateNext \/ UNCHANGED GateNow
<1>1. /\ \A s \in Threads : IF ConnectionOf[s] = k THEN pc'[s] = "idle"
                            ELSE pc'[s] = pc[s] /\ call'[s] = call[s]
      /\ ledger' = ledger
  BY DEF Crash
<1>2. UNCHANGED <<InForceNow, EverNow, BoundNow, OrderedNow>>
  BY OnlySpent DEF Crash, registryVars
<1>3. ASSUME NEW t \in Threads, ConnectionOf[t] = k, pc[t] = "granted"
      PROVE  Gate!GateNext
  <2>1. PICK n \in Nonces : n = NonceOf[call[t].capability]
    BY <1>3, ExecuteCallType DEF Executing, InFlight, KernelInvariant
  <2>2. ledger[n].status = "RESERVED"
    <3>1. pc[t] \in Holding
      BY <1>3 DEF Holding, InFlight
    <3>2. ledger[n] = [status |-> "RESERVED", request |-> RequestOf[call[t].capability]]
      BY <2>1, <3>1, HeldRow
    <3> QED BY <3>2
  <2>3. \A s \in Threads : pc[s] = "granted" <=> s = t
    BY <1>3, GrantedAlone DEF Guarded, InFlight
  <2>4. \A s \in Threads : pc'[s] # "granted"
    BY <1>1, <1>3, <2>3
  <2>5. n \notin SpentNow /\ SpentNow' = SpentNow \union {n}
    BY <1>1, <2>1, <2>2, <2>3, <2>4 DEF SpentNow
  <2>6. Gate!Burn(n)
    BY <1>2, <2>5 DEF Gate!Burn, InForceNow, EverNow, BoundNow, SpentNow, OrderedNow
  <2> QED BY <2>6 DEF Gate!GateNext
<1>4. CASE \A t \in Threads : ConnectionOf[t] = k => pc[t] # "granted"
  <2>1. SpentNow' = SpentNow
    BY <1>1, <1>4, SpentStays
  <2> QED BY <1>2, <2>1 DEF GateNow
<1> QED BY <1>3, <1>4

\* Settling a row, and whatever else leaves rows, payloads and counters alone.
LEMMA MarkWaits ==
  ASSUME KernelInvariant, NEW t \in Threads, MarkRefused(t) \/ Mark(t)
  PROVE  UNCHANGED GateNow
<1>1. /\ pc \in [Threads -> Pcs] /\ ledger \in [Nonces -> LedgerType]
  BY DEF KernelInvariant, TypeInvariant, TypeOK
<1>2. UNCHANGED <<InForceNow, EverNow, BoundNow, OrderedNow>>
  BY OnlySpent DEF MarkRefused, Mark, registryVars
<1>3. \A s \in Threads : pc'[s] = "granted" <=> pc[s] = "granted"
  BY <1>1 DEF MarkRefused, Mark, Go, Conclude
<1>4. call' = call
  BY DEF MarkRefused, Mark
<1>5. ASSUME NEW n \in Nonces
      PROVE  ledger'[n].status # "FREE" <=> ledger[n].status # "FREE"
  <2>1. CASE n # NonceOf[call[t].capability]
    BY <2>1, RowMoves
  <2>2. CASE n = NonceOf[call[t].capability]
    <3>1. ledger[n].status = "RESERVED"
      <4>1. ~Reserve(t)
        BY DEF MarkRefused, Mark, Reserve
      <4> QED BY <2>2, <4>1, RowMoves
    <3>2. MarkRefused(t) => ledger'[n].status = "REJECTED"
      <4>1. MarkRefused(t) => ledger'[n] =
              [status |-> "REJECTED", request |-> RequestOf[call[t].capability]]
        BY <2>2, RowMoves
      <4> QED BY <4>1
    <3>3. Mark(t) => ledger'[n].status = LedgerStatusFor(result[t])
      <4>1. Mark(t) => ledger'[n] =
              [status |-> LedgerStatusFor(result[t]), request |-> RequestOf[call[t].capability]]
        BY <2>2, RowMoves
      <4> QED BY <4>1
    <3>4. LedgerStatusFor(result[t]) # "FREE"
      BY DEF LedgerStatusFor
    <3> QED BY <3>1, <3>2, <3>3, <3>4
  <2> QED BY <2>1, <2>2
<1>6. SpentNow' = SpentNow
  BY <1>3, <1>4, <1>5, SpentStays
<1> QED BY <1>2, <1>6 DEF GateNow

LEMMA QuietGate ==
  ASSUME UNCHANGED <<states, payload, calls, ledger>>,
         \A s \in Threads : /\ pc'[s] = "granted" <=> pc[s] = "granted"
                            /\ pc[s] = "granted" => call'[s] = call[s]
  PROVE  UNCHANGED GateNow
BY OnlySpent, SpentStays DEF GateNow

LEMMA GateRefinementStep ==
  ASSUME KernelInvariant, InFlightConsent, [Next]_vars
  PROVE  [Gate!GateNext]_(Gate!gateVars)
<1> SUFFICES Gate!GateNext \/ UNCHANGED GateNow
  BY DEF Gate!gateVars, GateNow, InForceNow, EverNow, BoundNow, SpentNow, OrderedNow
<1>1. /\ pc \in [Threads -> Pcs]
      /\ call \in [Threads -> {NoCall} \union ExecuteCall \union TransitionCall]
  BY DEF KernelInvariant, TypeInvariant, TypeOK
<1> USE DEF Go, Leave, Conclude, registryVars
<1>2. ASSUME NEW t \in Threads, Step(t)
      PROVE  Gate!GateNext \/ UNCHANGED GateNow
  <2>1. CASE AcquireLock(t) \/ LockTimeout(t) \/ BeginImmediate(t) \/ BeginFails(t)
    BY <1>1, <2>1, QuietGate DEF AcquireLock, LockTimeout, BeginImmediate, BeginFails
  <2>2. CASE ApplyTransition(t)
    BY <2>2, TransitionIsConsent
  <2>3. CASE RefuseTransition(t) \/ RefusePresentation(t) \/ RefuseUsedNonce(t) \/ Answer(t)
    BY <1>1, <2>3, QuietGate DEF RefuseTransition, RefusePresentation, RefuseUsedNonce, Answer
  <2>4. CASE Reserve(t)
    BY <2>4, ReserveBurnsOrWaits
  <2>5. CASE MarkRefused(t) \/ Mark(t)
    BY <2>5, MarkWaits
  <2>6. CASE Send(t)
    BY <2>6, SendIsOrder
  <2>7. CASE Return(t)
    <3>1. UNCHANGED states
      BY <2>7 DEF Return, RecordExecutionRefusal
    <3> QED BY <1>1, <2>7, <3>1, QuietGate DEF Return
  <2> QED BY <1>2, <2>1, <2>2, <2>3, <2>4, <2>5, <2>6, <2>7 DEF Step
<1>3. ASSUME NEW t \in Threads, LedgerFault(t) \/ CommitFails(t)
      PROVE  UNCHANGED GateNow
  BY <1>1, <1>3, QuietGate DEF LedgerFault, CommitFails
<1>4. ASSUME NEW t \in Threads, BeginExecute(t) \/ BeginTransition(t)
      PROVE  UNCHANGED GateNow
  BY <1>1, <1>4, QuietGate DEF BeginExecute, BeginTransition, Begin
<1>5. ASSUME NEW k \in Connections, Crash(k)
      PROVE  Gate!GateNext \/ UNCHANGED GateNow
  BY <1>5, CrashBurnsOrWaits
<1>6. CASE Tick \/ \E c \in Capabilities : Provider(c)
  BY <1>6, QuietGate DEF Tick, Provider
<1>7. ASSUME NEW c \in Capabilities, NEW k \in Connections, NEW m \in Mandates,
             NEW v \in Versions, NEW now \in Readings, NEW e \in (now + 1)..(now + MaxLifetime),
             Issue(c, k, m, v, now, e)
      PROVE  Gate!GateNext
  BY <1>7, IssueIsBind
<1>8. CASE UNCHANGED vars
  BY <1>8, QuietGate DEF vars, executionVars
<1> QED BY <1>2, <1>3, <1>4, <1>5, <1>6, <1>7, <1>8, ExecutionAssumption DEF Next

\* For any number of processes, threads and crashes the kernel keeps the promise of
\* ConsentGate: an order goes out in one step, while the consent it is bound to is in
\* force, and with a nonce that nobody has spent.
THEOREM ExecutionImplementsGate == Spec => ImplementsGate
<1> DEFINE Inv == KernelInvariant /\ InFlightConsent
<1>1. Init => Inv
  BY KernelStart DEF Init, InFlightConsent, InFlight
<1>2. Inv /\ [Next]_vars => Inv'
  BY KernelStep, ConsentStep DEF KernelInvariant
<1>3. Inv /\ [Next]_vars => [Gate!GateNext]_(Gate!gateVars)
  BY GateRefinementStep
<1> HIDE DEF Inv
<1> QED BY <1>1, <1>2, <1>3, GateStart, PTL DEF Spec, ImplementsGate, Gate!GateSpec
=============================================================================
