----------------------------- MODULE CommerceRun -----------------------------
(***************************************************************************)
(* One authorized run of product/service.py and the HTTP requests about    *)
(* it: execute (attempt_execution), mutate (attempt_mutated_execution),    *)
(* replay and revoke.  The server answers every request on a thread of its *)
(* own; run.lock covers the checks at a request's entry and each write to  *)
(* the run, but not what lies between, so the requests of a visitor        *)
(* interleave at the provider-call counter, at the execution guard and at  *)
(* the run's records.                                                      *)
(*                                                                         *)
(* The execution kernel is taken at what GuardedExecution shows of it: the *)
(* gate and the start of the provider call are one step under the guard,   *)
(* the answer and the ledger's mark another.  Other runs share the guard;  *)
(* to this one they are the MandateStateBusyError that any wait may end in. *)
(***************************************************************************)
EXTENDS Integers, Sequences

CONSTANTS
  Requests,     \* bound: the requests that may arrive, each at most once
  NoRequest

ASSUME RunAssumption == NoRequest \notin Requests

VARIABLES
  runState,      \* run.state
  presented,     \* context.checkout.execution_result: NONE, RECEIPT or a refusal
  altered,       \* context.checkout.transaction is not the authorized one
  actionInFlight, replayInFlight,
  consent,       \* the run's mandate in the registry
  nonce,         \* the capability's nonce in the execution ledger
  expired,       \* the clock has passed the capability's expires_at
  guard,         \* the request under execution_guard
  adapterCalls,  \* context.client.adapter_calls
  execution,     \* the EXECUTION step of run.timeline
  runAudit,      \* run.audit, without the events of authorization
  alarms,        \* history: assertions of the service that were raised
  request        \* where each request is, and its local variables

kernel == <<consent, nonce, expired, guard, adapterCalls>>
records == <<presented, altered, execution, runAudit, alarms>>
flags == <<actionInFlight, replayInFlight>>
vars == <<runState, kernel, records, flags, request>>

-----------------------------------------------------------------------------
StateRefusals == {"MANDATE_REVOKED"}
Refusals == StateRefusals \union
  {"CAPABILITY_EXPIRED", "TRANSACTION_HASH_MISMATCH", "NONCE_ALREADY_USED"}

NonceStatus == {"FREE", "RESERVED", "SUCCEEDED", "REJECTED", "UNCERTAIN"}

Operations == {"execute", "mutate", "replay", "revoke"}

\* Nothing is claimed about provider calls in this step's detail.
NoClaim == -1

Step(status, callsClaimed) == [status |-> status, calls |-> callsClaimed]

Event(name, additional) == [event |-> name, additional |-> additional]

RequestType ==
  [pc : {"new", "entered", "gate", "calling", "counting", "recording", "done"},
   op : Operations \union {"none"},
   altered : BOOLEAN, late : BOOLEAN,
   before : Nat, after : Nat,
   answer : Refusals \union {"NONE", "RECEIPT"}]

NewRequest == [pc |-> "new", op |-> "none", altered |-> FALSE, late |-> FALSE,
               before |-> 0, after |-> 0, answer |-> "NONE"]

Update(q, r) == request' = [request EXCEPT ![q] = r]

AtPc(q, pc) == request[q].pc = pc

\* The flag of the operation, cleared in the finally clause of each method.
ClearFlag(q) ==
  IF request[q].op = "replay"
  THEN replayInFlight' = FALSE /\ UNCHANGED actionInFlight
  ELSE actionInFlight' = FALSE /\ UNCHANGED replayInFlight

\* Faulty: the flag outlives a request that raises.
FinishKeepingFlag(q) ==
  /\ Update(q, [request[q] EXCEPT !.pc = "done"])
  /\ IF AtPc(q, "calling") THEN UNCHANGED flags ELSE ClearFlag(q)

Finish(q) == Update(q, [request[q] EXCEPT !.pc = "done"]) /\ ClearFlag(q)

-----------------------------------------------------------------------------
(* _execute_run, from the ALLOW decision on: until the run is COMPLETE no   *)
(* request gets at its capability, so its own execution is one step.        *)

CompleteDeferred ==
  /\ runState = "RUNNING"
  /\ runState' = "COMPLETE"
  /\ execution' = Step("AUTHORIZED", 0)
  /\ UNCHANGED <<presented, altered, runAudit, alarms, kernel, flags, request>>

CompleteExecuted ==
  /\ runState = "RUNNING"
  /\ nonce = "FREE"
  /\ runState' = "COMPLETE"
  /\ adapterCalls' = 1
  /\ nonce' = "SUCCEEDED"
  /\ presented' = "RECEIPT"
  /\ execution' = Step("PASS", NoClaim)
  /\ runAudit' = << Event("RAZORPAY_ORDER_CREATED", 1) >>
  /\ UNCHANGED <<altered, alarms, consent, expired, guard, flags, request>>

\* run_agentic_checkout turns an ExecutionError into no execution result, which
\* _complete_timeline takes for a capability that was not presented yet.
CompleteFailed ==
  /\ runState = "RUNNING"
  /\ nonce = "FREE"
  /\ runState' = "COMPLETE"
  /\ adapterCalls' = 1
  /\ nonce' \in {"REJECTED", "UNCERTAIN"}
  /\ execution' = Step("AUTHORIZED", 0)
  /\ UNCHANGED <<presented, altered, runAudit, alarms, consent, expired, guard,
                 flags, request>>

\* The nonce is derived from the request_id.  The service forgets that id when it
\* restarts or evicts the run that used it; the ledger does not.
CompleteRefused ==
  /\ runState = "RUNNING"
  /\ nonce # "FREE"
  /\ runState' = "COMPLETE"
  /\ presented' = "NONCE_ALREADY_USED"
  /\ execution' = Step("REJECTED", NoClaim)
  /\ UNCHANGED <<altered, runAudit, alarms, kernel, flags, request>>

\* The guard was busy, or anything else raised: the run keeps no context.
Abandon ==
  /\ runState = "RUNNING"
  /\ runState' = "ERROR"
  /\ execution' = Step("ERROR", NoClaim)
  /\ UNCHANGED <<presented, altered, runAudit, alarms, kernel, flags, request>>

-----------------------------------------------------------------------------
(* A request's entry, under run.lock.  One that is refused raises and has   *)
(* touched nothing: it is not an action.                                    *)

Enter(q, o, transactionAltered) ==
  /\ runState = "COMPLETE"
  /\ AtPc(q, "new")
  /\ Update(q, [NewRequest EXCEPT !.pc = "entered", !.op = o,
                                  !.altered = transactionAltered])

\* A price mutation may hit the very price that was authorized.
EnterExecute(q) ==
  /\ ~actionInFlight
  /\ presented = "NONE"
  /\ \/ Enter(q, "execute", altered)
     \/ \E other \in BOOLEAN : Enter(q, "mutate", other)
  /\ actionInFlight' = TRUE
  /\ UNCHANGED <<runState, kernel, records, replayInFlight>>

\* Faulty: a revocation may enter beside an execution.
EnterRevokeAnytime(q) ==
  /\ presented # "RECEIPT"
  /\ Enter(q, "revoke", FALSE)
  /\ actionInFlight' = TRUE
  /\ UNCHANGED <<runState, kernel, records, replayInFlight>>

EnterRevoke(q) ==
  /\ ~actionInFlight
  /\ presented # "RECEIPT"
  /\ Enter(q, "revoke", FALSE)
  /\ actionInFlight' = TRUE
  /\ UNCHANGED <<runState, kernel, records, replayInFlight>>

EnterReplay(q) ==
  /\ ~replayInFlight
  /\ Enter(q, "replay", altered)
  /\ replayInFlight' = TRUE
  /\ UNCHANGED <<runState, kernel, records, actionInFlight>>

-----------------------------------------------------------------------------
(* execute, mutate and replay: count, present the capability, count again   *)

\* The counter, and then the clock, are read before the guard is waited for.
CountBefore(q) ==
  /\ AtPc(q, "entered")
  /\ request[q].op # "revoke"
  /\ Update(q, [request[q] EXCEPT !.pc = "gate", !.before = adapterCalls,
                                  !.late = expired])
  /\ UNCHANGED <<runState, kernel, records, flags>>

\* Faulty: replays are not asked for consent, and consent comes before the nonce.
VerdictOfConsentFirst(q) ==
  CASE request[q].late    -> "CAPABILITY_EXPIRED"
    [] ~request[q].late /\ request[q].altered -> "TRANSACTION_HASH_MISMATCH"
    [] ~request[q].late /\ ~request[q].altered /\ consent = "REVOKED"
         /\ request[q].op # "replay" -> "MANDATE_REVOKED"
    [] OTHER -> IF nonce # "FREE" THEN "NONCE_ALREADY_USED" ELSE "NONE"

\* validate_and_reserve_execution: the first check that refuses, or NONE.
Verdict(q) ==
  CASE request[q].late    -> "CAPABILITY_EXPIRED"
    [] ~request[q].late /\ request[q].altered -> "TRANSACTION_HASH_MISMATCH"
    [] ~request[q].late /\ ~request[q].altered /\ nonce # "FREE"
                          -> "NONCE_ALREADY_USED"
    [] OTHER -> IF consent = "REVOKED" THEN "MANDATE_REVOKED" ELSE "NONE"

RefuseExecution(q) ==
  /\ AtPc(q, "gate")
  /\ request[q].op # "revoke"
  /\ guard = NoRequest
  /\ Verdict(q) # "NONE"
  /\ nonce' = IF Verdict(q) = "MANDATE_REVOKED" THEN "REJECTED" ELSE nonce
  /\ Update(q, [request[q] EXCEPT !.pc = "counting", !.answer = Verdict(q)])
  /\ UNCHANGED <<runState, consent, expired, guard, adapterCalls, records, flags>>

\* The grant, and ObservedOrdersClient.create_order up to the delegate's call.
StartProviderCall(q) ==
  /\ AtPc(q, "gate")
  /\ request[q].op # "revoke"
  /\ guard = NoRequest
  /\ Verdict(q) = "NONE"
  /\ nonce' = "RESERVED"
  /\ guard' = q
  /\ adapterCalls' = adapterCalls + 1
  /\ execution' = Step("RUNNING", NoClaim)
  /\ Update(q, [request[q] EXCEPT !.pc = "calling"])
  /\ UNCHANGED <<runState, presented, altered, consent, expired, runAudit, alarms, flags>>

ProviderAnswers(q) ==
  /\ AtPc(q, "calling")
  /\ nonce' = "SUCCEEDED"
  /\ guard' = NoRequest
  /\ execution' = Step("PASS", NoClaim)
  /\ Update(q, [request[q] EXCEPT !.pc = "counting", !.answer = "RECEIPT"])
  /\ UNCHANGED <<runState, presented, altered, consent, expired, adapterCalls,
                 runAudit, alarms, flags>>

\* ExecutionError leaves the method: nothing of the attempt is recorded.
ProviderFails(q) ==
  /\ AtPc(q, "calling")
  /\ nonce' \in {"REJECTED", "UNCERTAIN"}
  /\ guard' = NoRequest
  /\ execution' = Step("ERROR", NoClaim)
  /\ Finish(q)
  /\ UNCHANGED <<runState, presented, altered, consent, expired, adapterCalls,
                 runAudit, alarms>>

\* MandateStateBusyError: behind this run's own call, or behind another run's.
GuardTimesOut(q) ==
  /\ AtPc(q, "gate")
  /\ Finish(q)
  /\ UNCHANGED <<runState, kernel, records>>

CountAfter(q) ==
  /\ AtPc(q, "counting")
  /\ Update(q, [request[q] EXCEPT !.pc = "recording", !.after = adapterCalls])
  /\ UNCHANGED <<runState, kernel, records, flags>>

-----------------------------------------------------------------------------
(* What is recorded *)

\* Faulty: the two readings are taken the wrong way round.
AdditionalSwapped(q) == request[q].before - request[q].after

Additional(q) == request[q].after - request[q].before

\* The counter moved during a refusal that must come before the network.
Alarm(q) ==
  CASE request[q].answer \in StateRefusals /\ Additional(q) # 0 -> {"STATE"}
    [] request[q].answer \in Refusals \ StateRefusals /\ Additional(q) # 0
         /\ request[q].op = "mutate" -> {"MUTATION"}
    [] OTHER -> {}

RefusalEvent(q) ==
  IF request[q].answer \in StateRefusals
  THEN "EXECUTION_REFUSED_MANDATE_STATE" ELSE "EXECUTION_REFUSED_BY_GATE"

\* The result and the transaction are replaced first, whatever is raised then.
RecordExecution(q) ==
  /\ AtPc(q, "recording")
  /\ request[q].op \in {"execute", "mutate"}
  /\ presented' = request[q].answer
  /\ altered' = request[q].altered
  /\ alarms' = alarms \union Alarm(q)
  /\ IF Alarm(q) # {}
     THEN UNCHANGED <<execution, runAudit>>
     ELSE IF request[q].answer = "RECEIPT"
     THEN /\ execution' = Step("PASS", NoClaim)
          /\ runAudit' = Append(runAudit, Event("RAZORPAY_ORDER_CREATED", Additional(q)))
     ELSE /\ execution' = Step("REJECTED", request[q].after)
          /\ runAudit' = Append(runAudit, Event(RefusalEvent(q), Additional(q)))
  /\ Finish(q)
  /\ UNCHANGED <<runState, kernel>>

\* Whatever came of it, a replay is recorded as rejected.
RecordReplay(q) ==
  /\ AtPc(q, "recording")
  /\ request[q].op = "replay"
  /\ runAudit' = Append(runAudit, Event("CAPABILITY_REPLAY_REJECTED", Additional(q)))
  /\ Finish(q)
  /\ UNCHANGED <<runState, kernel, presented, altered, execution, alarms>>

-----------------------------------------------------------------------------
(* revoke_mandate *)

\* Faulty: what the registry shows already is not looked at.
FindConsentUnread(q) ==
  /\ AtPc(q, "entered")
  /\ request[q].op = "revoke"
  /\ Update(q, [request[q] EXCEPT !.pc = "gate"])
  /\ UNCHANGED <<runState, kernel, records, flags>>

\* A read without the guard.
FindConsent(q) ==
  /\ AtPc(q, "entered")
  /\ request[q].op = "revoke"
  /\ consent = "ACTIVE"
  /\ Update(q, [request[q] EXCEPT !.pc = "gate"])
  /\ UNCHANGED <<runState, kernel, records, flags>>

FindConsentRevoked(q) ==
  /\ AtPc(q, "entered")
  /\ request[q].op = "revoke"
  /\ consent = "REVOKED"
  /\ Finish(q)
  /\ UNCHANGED <<runState, kernel, records>>

\* registry.revoke, a transaction behind the guard of any execution.
CommitRevocation(q) ==
  /\ AtPc(q, "gate")
  /\ request[q].op = "revoke"
  /\ guard = NoRequest
  /\ consent' = "REVOKED"
  /\ Update(q, [request[q] EXCEPT !.pc = "recording"])
  /\ UNCHANGED <<runState, nonce, expired, guard, adapterCalls, records, flags>>

RecordRevocation(q) ==
  /\ AtPc(q, "recording")
  /\ request[q].op = "revoke"
  /\ runAudit' = Append(runAudit, Event("MANDATE_REVOKED", 0))
  /\ execution' = Step("REVOKED", 0)
  /\ Finish(q)
  /\ UNCHANGED <<runState, kernel, presented, altered, alarms>>

Expire ==
  /\ ~expired
  /\ expired' = TRUE
  /\ UNCHANGED <<runState, consent, nonce, guard, adapterCalls, records, flags, request>>

-----------------------------------------------------------------------------
Init ==
  /\ runState = "RUNNING"
  /\ presented = "NONE"
  /\ altered = FALSE
  /\ actionInFlight = FALSE
  /\ replayInFlight = FALSE
  /\ consent = "ACTIVE"
  /\ nonce \in NonceStatus
  /\ expired = FALSE
  /\ guard = NoRequest
  /\ adapterCalls = 0
  /\ execution = Step("WAITING", NoClaim)
  /\ runAudit = << >>
  /\ alarms = {}
  /\ request = [q \in Requests |-> NewRequest]

Arrive(q) == EnterExecute(q) \/ EnterRevoke(q) \/ EnterReplay(q)

Proceed(q) ==
  \/ CountBefore(q) \/ RefuseExecution(q) \/ StartProviderCall(q)
  \/ ProviderAnswers(q) \/ ProviderFails(q) \/ GuardTimesOut(q)
  \/ CountAfter(q) \/ RecordExecution(q) \/ RecordReplay(q)
  \/ FindConsent(q) \/ FindConsentRevoked(q)
  \/ CommitRevocation(q) \/ RecordRevocation(q)

Next ==
  \/ CompleteDeferred \/ CompleteExecuted \/ CompleteFailed \/ CompleteRefused \/ Abandon
  \/ \E q \in Requests : Arrive(q) \/ Proceed(q)
  \/ Expire

Spec == Init /\ [][Next]_vars

\* A thread of the server keeps running; the provider and the guard both answer
\* within their timeouts.
FairSpec == Spec /\ \A q \in Requests : WF_vars(Proceed(q))

-----------------------------------------------------------------------------
(* Properties *)

\* The run's fields and each request's local variables keep their types; no
\* record ever counts a negative number of additional provider calls.
TypeOK ==
  /\ runState \in {"RUNNING", "COMPLETE", "ERROR"}
  /\ presented \in Refusals \union {"NONE", "RECEIPT"}
  /\ altered \in BOOLEAN /\ actionInFlight \in BOOLEAN
  /\ replayInFlight \in BOOLEAN /\ expired \in BOOLEAN
  /\ consent \in {"ACTIVE", "REVOKED"}
  /\ nonce \in NonceStatus
  /\ guard \in Requests \union {NoRequest}
  /\ adapterCalls \in Nat
  /\ execution \in [status : {"WAITING", "AUTHORIZED", "RUNNING", "PASS", "ERROR",
                              "REJECTED", "REVOKED"},
                    calls : Nat \union {NoClaim}]
  /\ runAudit \in Seq([event : {"RAZORPAY_ORDER_CREATED", "MANDATE_REVOKED",
                                "EXECUTION_REFUSED_MANDATE_STATE",
                                "EXECUTION_REFUSED_BY_GATE",
                                "CAPABILITY_REPLAY_REJECTED"},
                       additional : Nat])
  /\ alarms \subseteq {"STATE", "MUTATION"}
  /\ request \in [Requests -> RequestType]

Logged(name) == {i \in DOMAIN runAudit : runAudit[i].event = name}

\* The assertion of attempt_execution: the counter does not move across a
\* refusal for the mandate's state, although it is read outside the guard and a
\* replay may be calling the provider at the same time.
NoStateAlarm == "STATE" \notin alarms

\* A run that shows a receipt never shows a consent revoked through the run: a
\* revocation is refused after the one, and makes the other impossible.
ReceiptMeansConsent == presented = "RECEIPT" => consent = "ACTIVE"

\* The run's audit tells of the revocation once, and only of one that is
\* committed, whichever requests overlap, repeat or time out.
RevocationIsLoggedOnce ==
  /\ \A i, j \in Logged("MANDATE_REVOKED") : i = j
  /\ Logged("MANDATE_REVOKED") # {} => consent = "REVOKED"
  /\ consent = "REVOKED" /\ ~actionInFlight => Logged("MANDATE_REVOKED") # {}

\* A flag never stays behind: after a refusal, a provider error or a timeout the
\* run accepts requests again.
FlagsAreReleased ==
  /\ actionInFlight ~> ~actionInFlight
  /\ replayInFlight ~> ~replayInFlight

\* The event's name, and COMMERCE_LAB_LOCAL.md: a replay is rejected before
\* another provider call.
RejectedReplayMadeNoCall ==
  \A i \in Logged("CAPABILITY_REPLAY_REJECTED") : runAudit[i].additional = 0

\* "Razorpay calls: 0" on the timeline of a run is true.
TimelineClaimsHold == execution.calls = 0 => adapterCalls = 0
=============================================================================
