------------------------- MODULE CommerceRunProofs -------------------------
(***************************************************************************)
(* Theorems about the requests to one run, for any number of requests.     *)
(*                                                                         *)
(* The argument rests on two things that the code never states.  A nonce   *)
(* that is FREE was never called for, so a refusal that found it so can    *)
(* have no provider call between its two readings of the counter.  And the *)
(* flag of the actions makes the one revocation or execution under way the *)
(* only one, although no lock is held in between.                          *)
(***************************************************************************)
EXTENDS CommerceRun, TLAPS

Revoked == Logged("MANDATE_REVOKED")

Active(q) == request[q].pc \notin {"new", "done"}

\* A request under way, and what it has read or found so far.
FlowOf(q) ==
  LET r == request[q] IN
  /\ r.pc # "new" => runState = "COMPLETE" /\ r.op \in Operations
  /\ Active(q) /\ r.op # "replay" => actionInFlight
  /\ r.pc \in {"calling", "counting"} => r.op # "revoke"

CountsOf(q) ==
  LET r == request[q] IN
  /\ r.before <= adapterCalls
  /\ r.pc = "recording" /\ r.op # "revoke" => r.before <= r.after /\ r.after <= adapterCalls
  /\ r.pc = "calling" => guard = q /\ nonce # "FREE"
  /\ r.pc \in {"counting", "recording"} /\ r.op # "revoke" /\ r.answer = "MANDATE_REVOKED" =>
       nonce # "FREE" /\ adapterCalls = 0

ConsentOf(q) ==
  LET r == request[q] IN
  /\ r.pc = "calling" => consent = "ACTIVE"
  /\ r.pc \in {"counting", "recording"} /\ r.op \in {"execute", "mutate"} /\ r.answer = "RECEIPT" =>
       consent = "ACTIVE"
  /\ Active(q) /\ r.op = "revoke" => presented # "RECEIPT"
  /\ r.pc = "gate" /\ r.op = "revoke" => consent = "ACTIVE"
  /\ r.pc = "recording" /\ r.op = "revoke" => consent = "REVOKED" /\ Revoked = {}

OneAction ==
  \A p, q \in Requests :
    Active(p) /\ Active(q) /\ request[p].op # "replay" /\ request[q].op # "replay" => p = q

\* A run that is not complete has seen no request.
Untouched ==
  runState = "RUNNING" => consent = "ACTIVE" /\ runAudit = << >> /\ adapterCalls = 0

FreeIsUncalled == nonce = "FREE" => adapterCalls = 0

RevocationOnRecord ==
  /\ \A i, j \in Revoked : i = j
  /\ Revoked # {} => consent = "REVOKED"
  /\ consent = "REVOKED" =>
       \/ Revoked # {}
       \/ \E q \in Requests : request[q].pc = "recording" /\ request[q].op = "revoke"

RunInvariant ==
  /\ TypeOK
  /\ \A q \in Requests : FlowOf(q) /\ CountsOf(q) /\ ConsentOf(q)
  /\ OneAction /\ Untouched /\ FreeIsUncalled
  /\ ReceiptMeansConsent /\ RevocationOnRecord /\ NoStateAlarm

AuditType ==
  [event : {"RAZORPAY_ORDER_CREATED", "MANDATE_REVOKED", "EXECUTION_REFUSED_MANDATE_STATE",
            "EXECUTION_REFUSED_BY_GATE", "CAPABILITY_REPLAY_REJECTED"},
   additional : Nat]

StepType ==
  [status : {"WAITING", "AUTHORIZED", "RUNNING", "PASS", "ERROR", "REJECTED", "REVOKED"},
   calls : Nat \union {NoClaim}]

LEMMA LogAppends ==
  ASSUME runAudit \in Seq(AuditType), NEW e \in AuditType, runAudit' = Append(runAudit, e)
  PROVE  /\ runAudit' \in Seq(AuditType)
         /\ e.event # "MANDATE_REVOKED" => Revoked' = Revoked
         /\ e.event = "MANDATE_REVOKED" => Revoked' = Revoked \union {Len(runAudit) + 1}
<1>1. runAudit' \in Seq(AuditType)
  OBVIOUS
<1>2. /\ DOMAIN runAudit = 1..Len(runAudit) /\ DOMAIN runAudit' = 1..(Len(runAudit) + 1)
      /\ \A i \in 1..Len(runAudit) : runAudit'[i] = runAudit[i]
      /\ runAudit'[Len(runAudit) + 1] = e /\ Len(runAudit) \in Nat
  OBVIOUS
<1>3. Revoked' = {i \in DOMAIN runAudit' : runAudit'[i].event = "MANDATE_REVOKED"}
  BY DEF Revoked, Logged
<1>4. Revoked = {i \in DOMAIN runAudit : runAudit[i].event = "MANDATE_REVOKED"}
  BY DEF Revoked, Logged
<1> QED BY <1>1, <1>2, <1>3, <1>4

LEMMA RunStart == Init => RunInvariant
<1> SUFFICES ASSUME Init PROVE RunInvariant
  OBVIOUS
<1>1. Revoked = {}
  BY DEF Init, Revoked, Logged
<1>2. NewRequest \in RequestType /\ NewRequest.pc = "new" /\ NewRequest.before = 0
  BY DEF NewRequest, RequestType
<1>3. TypeOK
  <2>1. request \in [Requests -> RequestType]
    BY <1>2 DEF Init
  <2>2. execution = [status |-> "WAITING", calls |-> -1] /\ runAudit = << >>
    BY DEF Init, Step, NoClaim
  <2>3. execution \in StepType
    BY <2>2 DEF StepType, NoClaim
  <2>4. runAudit \in Seq(AuditType)
    BY <2>2
  <2>5. presented \in Refusals \union {"NONE", "RECEIPT"} /\ alarms \subseteq {"STATE", "MUTATION"}
    BY DEF Init
  <2>6. altered \in BOOLEAN /\ actionInFlight \in BOOLEAN /\ replayInFlight \in BOOLEAN
          /\ expired \in BOOLEAN
    BY DEF Init
  <2>7. runState \in {"RUNNING", "COMPLETE", "ERROR"} /\ consent \in {"ACTIVE", "REVOKED"}
          /\ nonce \in NonceStatus /\ guard \in Requests \union {NoRequest} /\ adapterCalls \in Nat
    BY DEF Init
  <2> QED BY <2>1, <2>3, <2>4, <2>5, <2>6, <2>7 DEF TypeOK, StepType, AuditType
<1>4. ASSUME NEW q \in Requests
      PROVE  FlowOf(q) /\ CountsOf(q) /\ ConsentOf(q)
  <2>1. request[q] = NewRequest
    BY DEF Init
  <2> QED BY <1>2, <2>1 DEF Init, FlowOf, CountsOf, ConsentOf, Active
<1>5. OneAction
  BY <1>2 DEF Init, OneAction, Active
<1>6. Untouched /\ FreeIsUncalled /\ ReceiptMeansConsent /\ NoStateAlarm
  BY DEF Init, Untouched, FreeIsUncalled, ReceiptMeansConsent, NoStateAlarm
<1>7. RevocationOnRecord
  BY <1>1 DEF Init, RevocationOnRecord
<1> QED BY <1>3, <1>4, <1>5, <1>6, <1>7 DEF RunInvariant

(* What a step of one request owes the others *)

LEMMA OthersKeep ==
  ASSUME RunInvariant, NEW q \in Requests, NEW r \in RequestType, Update(q, r),
         runState = "COMPLETE", runState' = runState,
         \/ r.pc = "done" \/ r.op = "replay" \/ ~actionInFlight
         \/ Active(q) /\ r.op = request[q].op,
         actionInFlight => actionInFlight' \/ (Active(q) /\ request[q].op # "replay"),
         adapterCalls' \in Nat, adapterCalls <= adapterCalls',
         guard' = guard \/ guard = NoRequest \/ guard = q,
         nonce # "FREE" => nonce' # "FREE" /\ adapterCalls' = adapterCalls,
         consent' = consent \/ (guard = NoRequest /\ Active(q) /\ request[q].op # "replay"),
         presented' = presented \/ (Active(q) /\ request[q].op # "replay"),
         Revoked' = Revoked \/ (Active(q) /\ request[q].op # "replay"),
         FlowOf(q)', CountsOf(q)', ConsentOf(q)'
  PROVE  /\ request' \in [Requests -> RequestType]
         /\ \A p \in Requests : FlowOf(p)' /\ CountsOf(p)' /\ ConsentOf(p)'
         /\ OneAction'
<1>1. request \in [Requests -> RequestType] /\ adapterCalls \in Nat
  BY DEF RunInvariant, TypeOK
<1>2. request' = [request EXCEPT ![q] = r]
  BY DEF Update
<1>3. request' \in [Requests -> RequestType] /\ request'[q] = r
        /\ \A p \in Requests : p # q => request'[p] = request[p]
  BY <1>1, <1>2
<1>4. ASSUME NEW p \in Requests, p # q
      PROVE  FlowOf(p)' /\ CountsOf(p)' /\ ConsentOf(p)'
  <2>1. request'[p] = request[p] /\ request[p] \in RequestType
    BY <1>1, <1>3, <1>4
  <2>2. FlowOf(p) /\ CountsOf(p) /\ ConsentOf(p)
    BY DEF RunInvariant
  <2>3. p # NoRequest
    BY RunAssumption
  <2>4. Active(p) /\ Active(q) /\ request[q].op # "replay" => request[p].op = "replay"
    BY <1>4 DEF RunInvariant, OneAction
  <2>5. Active(p)' <=> Active(p)
    BY <2>1 DEF Active
  <2>6. FlowOf(p)'
    BY <2>1, <2>2, <2>4, <2>5 DEF FlowOf
  <2>7. request[p].before \in Nat /\ request[p].after \in Nat
    BY <2>1 DEF RequestType
  <2>8. request[p].before <= adapterCalls'
    BY <1>1, <2>2, <2>7 DEF CountsOf
  <2>9. request[p].pc = "recording" /\ request[p].op # "revoke" =>
          request[p].before <= request[p].after /\ request[p].after <= adapterCalls'
    BY <1>1, <2>2, <2>7 DEF CountsOf
  <2>10. request[p].pc = "calling" => guard' = p /\ nonce' # "FREE"
    BY <1>4, <2>2, <2>3 DEF CountsOf
  <2>11. CountsOf(p)'
    BY <2>1, <2>2, <2>8, <2>9, <2>10 DEF CountsOf
  <2>12. request[p].pc = "calling" => consent' = consent
    BY <2>2, <2>3 DEF CountsOf
  <2>13. Active(p) /\ request[p].op # "replay" =>
           consent' = consent /\ presented' = presented /\ Revoked' = Revoked
    BY <2>4
  <2>14. ConsentOf(p)'
    BY <2>1, <2>2, <2>5, <2>12, <2>13 DEF ConsentOf, Active
  <2> QED BY <2>6, <2>11, <2>14
<1>5. OneAction'
  <2> SUFFICES ASSUME NEW p \in Requests, NEW s \in Requests,
                      Active(p)', Active(s)', request'[p].op # "replay", request'[s].op # "replay"
               PROVE  p = s
    BY DEF OneAction
  <2>1. \A a \in Requests : a # q => (Active(a)' <=> Active(a)) /\ request'[a].op = request[a].op
    BY <1>3 DEF Active
  <2>2. ASSUME NEW a \in Requests, a # q, Active(a)', request'[a].op # "replay",
               Active(q)', request'[q].op # "replay"
        PROVE  FALSE
    <3>1. Active(a) /\ request[a].op # "replay"
      BY <2>1, <2>2
    <3>2. actionInFlight
      BY <3>1 DEF RunInvariant, FlowOf
    <3>3. r.pc # "done" /\ r.op # "replay"
      BY <1>3, <2>2 DEF Active
    <3>4. Active(q) /\ request[q].op # "replay"
      BY <3>2, <3>3
    <3> QED BY <2>2, <3>1, <3>4 DEF RunInvariant, OneAction
  <2>3. p # q /\ s # q => p = s
    BY <2>1 DEF RunInvariant, OneAction
  <2> QED BY <2>2, <2>3
<1> QED BY <1>3, <1>4, <1>5

LEMMA ActiveIsComplete ==
  ASSUME RunInvariant, NEW q \in Requests, Active(q)
  PROVE  /\ runState = "COMPLETE" /\ request[q] \in RequestType /\ request[q].op \in Operations
         /\ request \in [Requests -> RequestType] /\ adapterCalls \in Nat
         /\ FlowOf(q) /\ CountsOf(q) /\ ConsentOf(q)
         /\ request[q].op # "replay" => actionInFlight
<1>1. FlowOf(q) /\ CountsOf(q) /\ ConsentOf(q)
  BY DEF RunInvariant
<1>2. request \in [Requests -> RequestType] /\ adapterCalls \in Nat
  BY DEF RunInvariant, TypeOK
<1> QED BY <1>1, <1>2 DEF FlowOf, Active

LEMMA FinishKeeps ==
  ASSUME RunInvariant, NEW q \in Requests, Active(q), Finish(q), runState' = runState,
         adapterCalls' \in Nat, adapterCalls <= adapterCalls'
  PROVE  /\ [request[q] EXCEPT !.pc = "done"] \in RequestType
         /\ Update(q, [request[q] EXCEPT !.pc = "done"])
         /\ [request[q] EXCEPT !.pc = "done"].pc = "done"
         /\ actionInFlight' \in BOOLEAN /\ replayInFlight' \in BOOLEAN
         /\ actionInFlight => actionInFlight' \/ (Active(q) /\ request[q].op # "replay")
         /\ FlowOf(q)' /\ CountsOf(q)' /\ ConsentOf(q)'
<1> DEFINE r == [request[q] EXCEPT !.pc = "done"]
<1>1. request[q] \in RequestType /\ request \in [Requests -> RequestType] /\ adapterCalls \in Nat
        /\ runState = "COMPLETE" /\ FlowOf(q) /\ CountsOf(q) /\ request[q].op \in Operations
  BY ActiveIsComplete
<1>2. r \in RequestType /\ r.pc = "done" /\ r.op = request[q].op /\ r.before = request[q].before
        /\ request[q].before \in Nat
  BY <1>1 DEF RequestType
<1>3. Update(q, r) /\ request'[q] = r
  BY <1>1, <1>2 DEF Finish, Update
<1>4. actionInFlight \in BOOLEAN /\ replayInFlight \in BOOLEAN
  BY DEF RunInvariant, TypeOK
<1>5. CASE request[q].op = "replay"
  <2>1. replayInFlight' = FALSE /\ actionInFlight' = actionInFlight
    BY <1>5 DEF Finish, ClearFlag
  <2>2. FlowOf(q)'
    BY <1>1, <1>2, <1>3 DEF FlowOf, Active
  <2>3. CountsOf(q)' /\ ConsentOf(q)'
    BY <1>1, <1>2, <1>3 DEF CountsOf, ConsentOf, Active
  <2> QED BY <1>2, <1>3, <1>4, <2>1, <2>2, <2>3
<1>6. CASE request[q].op # "replay"
  <2>1. actionInFlight' = FALSE /\ replayInFlight' = replayInFlight
    BY <1>6 DEF Finish, ClearFlag
  <2>2. FlowOf(q)'
    BY <1>1, <1>2, <1>3 DEF FlowOf, Active
  <2>3. CountsOf(q)' /\ ConsentOf(q)'
    BY <1>1, <1>2, <1>3 DEF CountsOf, ConsentOf, Active
  <2> QED BY <1>2, <1>3, <1>4, <1>6, <2>1, <2>2, <2>3
<1> QED BY <1>5, <1>6

\* A step that only moves one request on, and perhaps a flag.
LEMMA QuietStep ==
  ASSUME RunInvariant, NEW q \in Requests, NEW r \in RequestType, Update(q, r),
         runState = "COMPLETE", runState' = runState, UNCHANGED <<kernel, records>>,
         \/ r.pc = "done" \/ r.op = "replay" \/ ~actionInFlight
         \/ Active(q) /\ r.op = request[q].op,
         actionInFlight => actionInFlight' \/ (Active(q) /\ request[q].op # "replay"),
         actionInFlight' \in BOOLEAN, replayInFlight' \in BOOLEAN,
         FlowOf(q)', CountsOf(q)', ConsentOf(q)',
         ~(request[q].pc = "recording" /\ request[q].op = "revoke")
  PROVE  RunInvariant'
<1>1. TypeOK /\ adapterCalls \in Nat
  BY DEF RunInvariant, TypeOK
<1>2. Revoked' = Revoked
  BY DEF Revoked, Logged, records
<1>3. /\ consent' = consent /\ nonce' = nonce /\ expired' = expired /\ guard' = guard
      /\ adapterCalls' = adapterCalls /\ presented' = presented /\ altered' = altered
      /\ execution' = execution /\ runAudit' = runAudit /\ alarms' = alarms
  BY DEF kernel, records
<1>4. /\ request' \in [Requests -> RequestType]
      /\ \A p \in Requests : FlowOf(p)' /\ CountsOf(p)' /\ ConsentOf(p)'
      /\ OneAction'
  BY <1>1, <1>2, <1>3, OthersKeep
<1>5. TypeOK'
  BY <1>1, <1>3, <1>4 DEF TypeOK
<1>6. Untouched' /\ FreeIsUncalled' /\ ReceiptMeansConsent' /\ NoStateAlarm'
  BY <1>3 DEF RunInvariant, Untouched, FreeIsUncalled, ReceiptMeansConsent, NoStateAlarm
<1>7. \A p \in Requests : p # q => request'[p] = request[p]
  BY <1>1 DEF Update, TypeOK
<1>8. RevocationOnRecord'
  BY <1>2, <1>3, <1>7 DEF RunInvariant, RevocationOnRecord
<1> QED BY <1>4, <1>5, <1>6, <1>8 DEF RunInvariant

LEMMA QuietFinish ==
  ASSUME RunInvariant, NEW q \in Requests, Active(q), Finish(q),
         UNCHANGED <<runState, kernel, records>>,
         ~(request[q].pc = "recording" /\ request[q].op = "revoke")
  PROVE  RunInvariant'
<1>1. runState = "COMPLETE" /\ adapterCalls \in Nat
  BY ActiveIsComplete
<1>2. runState' = runState /\ adapterCalls' = adapterCalls /\ UNCHANGED <<kernel, records>>
  BY DEF kernel
<1>3. adapterCalls' \in Nat /\ adapterCalls <= adapterCalls'
  BY <1>1, <1>2
<1> QED BY <1>1, <1>2, <1>3, FinishKeeps, QuietStep

(* The steps that only move one request on *)

\* A new request enters, under the flag of its operation.
LEMMA EnterStep ==
  ASSUME RunInvariant, NEW q \in Requests, NEW o \in Operations, NEW other \in BOOLEAN,
         Enter(q, o, other), UNCHANGED <<runState, kernel, records>>,
         o = "replay" => actionInFlight' = actionInFlight /\ replayInFlight' = TRUE,
         o # "replay" => ~actionInFlight /\ actionInFlight' = TRUE
                           /\ replayInFlight' = replayInFlight,
         o = "revoke" => presented # "RECEIPT"
  PROVE  RunInvariant'
<1> DEFINE r == [NewRequest EXCEPT !.pc = "entered", !.op = o, !.altered = other]
<1>1. /\ r \in RequestType /\ r.pc = "entered" /\ r.op = o /\ r.before = 0
      /\ Update(q, r) /\ runState = "COMPLETE" /\ request[q].pc = "new"
  BY DEF Enter, NewRequest, RequestType, AtPc
<1>2. request \in [Requests -> RequestType] /\ adapterCalls \in Nat
        /\ actionInFlight \in BOOLEAN /\ replayInFlight \in BOOLEAN
  BY DEF RunInvariant, TypeOK
<1>3. request'[q] = r
  BY <1>1, <1>2 DEF Update
<1>4. runState' = runState /\ adapterCalls' = adapterCalls /\ presented' = presented
  BY DEF kernel, records
<1>5. FlowOf(q)'
  BY <1>1, <1>3, <1>4 DEF FlowOf
<1>6. CountsOf(q)'
  BY <1>1, <1>2, <1>3, <1>4 DEF CountsOf
<1>7. ConsentOf(q)'
  BY <1>1, <1>3, <1>4 DEF ConsentOf
<1>8. actionInFlight' \in BOOLEAN /\ replayInFlight' \in BOOLEAN
        /\ (actionInFlight => actionInFlight')
  BY <1>2
<1> HIDE DEF r
<1> QED BY <1>1, <1>4, <1>5, <1>6, <1>7, <1>8, QuietStep

LEMMA ArriveStep ==
  ASSUME RunInvariant, NEW q \in Requests, Arrive(q)
  PROVE  RunInvariant'
<1>1. CASE EnterExecute(q)
  <2>1. altered \in BOOLEAN
    BY DEF RunInvariant, TypeOK
  <2>2. PICK o \in {"execute", "mutate"}, other \in BOOLEAN : Enter(q, o, other)
    BY <1>1, <2>1 DEF EnterExecute
  <2>3. UNCHANGED <<runState, kernel, records>> /\ ~actionInFlight /\ actionInFlight' = TRUE
          /\ replayInFlight' = replayInFlight
    BY <1>1 DEF EnterExecute
  <2>4. o \in Operations /\ o # "replay" /\ o # "revoke"
    BY DEF Operations
  <2> QED BY <2>2, <2>3, <2>4, EnterStep
<1>2. CASE EnterRevoke(q)
  <2>1. UNCHANGED <<runState, kernel, records>> /\ ~actionInFlight /\ actionInFlight' = TRUE
          /\ replayInFlight' = replayInFlight /\ presented # "RECEIPT"
          /\ Enter(q, "revoke", FALSE)
    BY <1>2 DEF EnterRevoke
  <2>2. "revoke" \in Operations /\ FALSE \in BOOLEAN
    BY DEF Operations
  <2> QED BY <2>1, <2>2, EnterStep
<1>3. CASE EnterReplay(q)
  <2>1. UNCHANGED <<runState, kernel, records>> /\ actionInFlight' = actionInFlight
          /\ replayInFlight' = TRUE /\ Enter(q, "replay", altered)
    BY <1>3 DEF EnterReplay
  <2>2. "replay" \in Operations /\ altered \in BOOLEAN
    BY DEF Operations, RunInvariant, TypeOK
  <2> QED BY <2>1, <2>2, EnterStep
<1> QED BY <1>1, <1>2, <1>3 DEF Arrive

LEMMA CountBeforeStep ==
  ASSUME RunInvariant, NEW q \in Requests, CountBefore(q)
  PROVE  RunInvariant'
<1> DEFINE r == [request[q] EXCEPT !.pc = "gate", !.before = adapterCalls, !.late = expired]
<1>1. Active(q) /\ request[q].pc = "entered" /\ request[q].op # "revoke" /\ Update(q, r)
        /\ UNCHANGED <<runState, kernel, records, flags>>
  BY DEF CountBefore, AtPc, Active
<1>2. /\ runState = "COMPLETE" /\ request[q] \in RequestType /\ FlowOf(q)
      /\ request \in [Requests -> RequestType] /\ adapterCalls \in Nat
  BY <1>1, ActiveIsComplete
<1>3. expired \in BOOLEAN /\ actionInFlight \in BOOLEAN /\ replayInFlight \in BOOLEAN
  BY DEF RunInvariant, TypeOK
<1>4. r \in RequestType /\ r.pc = "gate" /\ r.op = request[q].op /\ r.before = adapterCalls
  BY <1>2, <1>3 DEF RequestType
<1>5. request'[q] = r
  BY <1>1, <1>2 DEF Update
<1>6. runState' = runState /\ adapterCalls' = adapterCalls /\ actionInFlight' = actionInFlight
        /\ replayInFlight' = replayInFlight /\ UNCHANGED <<kernel, records>>
  BY <1>1 DEF kernel, flags
<1>7. FlowOf(q)'
  BY <1>1, <1>2, <1>4, <1>5, <1>6 DEF FlowOf, Active
<1>8. CountsOf(q)' /\ ConsentOf(q)'
  BY <1>1, <1>2, <1>4, <1>5, <1>6 DEF CountsOf, ConsentOf, Active
<1> HIDE DEF r
<1> QED BY <1>1, <1>2, <1>3, <1>4, <1>6, <1>7, <1>8, QuietStep

LEMMA CountAfterStep ==
  ASSUME RunInvariant, NEW q \in Requests, CountAfter(q)
  PROVE  RunInvariant'
<1> DEFINE r == [request[q] EXCEPT !.pc = "recording", !.after = adapterCalls]
<1>1. Active(q) /\ request[q].pc = "counting" /\ Update(q, r)
        /\ UNCHANGED <<runState, kernel, records, flags>>
  BY DEF CountAfter, AtPc, Active
<1>2. /\ runState = "COMPLETE" /\ request[q] \in RequestType /\ FlowOf(q) /\ CountsOf(q)
      /\ ConsentOf(q) /\ request \in [Requests -> RequestType] /\ adapterCalls \in Nat
  BY <1>1, ActiveIsComplete
<1>3. actionInFlight \in BOOLEAN /\ replayInFlight \in BOOLEAN /\ request[q].op # "revoke"
  BY <1>1, <1>2 DEF RunInvariant, TypeOK, FlowOf
<1>4. r \in RequestType /\ r.pc = "recording" /\ r.op = request[q].op /\ r.after = adapterCalls
        /\ r.before = request[q].before /\ r.answer = request[q].answer
  BY <1>2 DEF RequestType
<1>5. request'[q] = r
  BY <1>1, <1>2 DEF Update
<1>6. /\ runState' = runState /\ adapterCalls' = adapterCalls /\ actionInFlight' = actionInFlight
      /\ replayInFlight' = replayInFlight /\ nonce' = nonce /\ consent' = consent
      /\ UNCHANGED <<kernel, records>>
  BY <1>1 DEF kernel, flags
<1>7. FlowOf(q)'
  BY <1>1, <1>2, <1>4, <1>5, <1>6 DEF FlowOf, Active
<1>8. CountsOf(q)'
  BY <1>1, <1>2, <1>3, <1>4, <1>5, <1>6 DEF CountsOf
<1>9. ConsentOf(q)'
  BY <1>1, <1>2, <1>3, <1>4, <1>5, <1>6 DEF ConsentOf
<1> HIDE DEF r
<1> QED BY <1>1, <1>2, <1>3, <1>4, <1>6, <1>7, <1>8, <1>9, QuietStep

LEMMA FindConsentStep ==
  ASSUME RunInvariant, NEW q \in Requests, FindConsent(q)
  PROVE  RunInvariant'
<1> DEFINE r == [request[q] EXCEPT !.pc = "gate"]
<1>1. Active(q) /\ request[q].pc = "entered" /\ request[q].op = "revoke" /\ consent = "ACTIVE"
        /\ Update(q, r) /\ UNCHANGED <<runState, kernel, records, flags>>
  BY DEF FindConsent, AtPc, Active
<1>2. /\ runState = "COMPLETE" /\ request[q] \in RequestType /\ FlowOf(q) /\ CountsOf(q)
      /\ ConsentOf(q) /\ request \in [Requests -> RequestType] /\ adapterCalls \in Nat
  BY <1>1, ActiveIsComplete
<1>3. actionInFlight \in BOOLEAN /\ replayInFlight \in BOOLEAN
  BY DEF RunInvariant, TypeOK
<1>4. r \in RequestType /\ r.pc = "gate" /\ r.op = "revoke" /\ r.before = request[q].before
  BY <1>1, <1>2 DEF RequestType
<1>5. request'[q] = r
  BY <1>1, <1>2 DEF Update
<1>6. /\ runState' = runState /\ adapterCalls' = adapterCalls /\ actionInFlight' = actionInFlight
      /\ replayInFlight' = replayInFlight /\ presented' = presented /\ consent' = consent
      /\ UNCHANGED <<kernel, records>>
  BY <1>1 DEF kernel, flags, records
<1>7. FlowOf(q)'
  BY <1>1, <1>2, <1>4, <1>5, <1>6 DEF FlowOf, Active
<1>8. CountsOf(q)' /\ ConsentOf(q)'
  BY <1>1, <1>2, <1>4, <1>5, <1>6 DEF CountsOf, ConsentOf, Active
<1> HIDE DEF r
<1> QED BY <1>1, <1>2, <1>3, <1>4, <1>6, <1>7, <1>8, QuietStep

LEMMA GiveUpStep ==
  ASSUME RunInvariant, NEW q \in Requests, GuardTimesOut(q) \/ FindConsentRevoked(q)
  PROVE  RunInvariant'
<1>1. Active(q) /\ request[q].pc \in {"gate", "entered"} /\ Finish(q)
        /\ UNCHANGED <<runState, kernel, records>>
  BY DEF GuardTimesOut, FindConsentRevoked, AtPc, Active
<1> QED BY <1>1, QuietFinish

(* The steps at the execution guard *)

\* Consent is asked for last: a refusal for its sake has found the nonce unused.
LEMMA VerdictMeans ==
  ASSUME NEW q \in Requests, request[q] \in RequestType
  PROVE  /\ Verdict(q) \in Refusals \union {"NONE"}
         /\ Verdict(q) \in {"NONE", "MANDATE_REVOKED"} => nonce = "FREE"
         /\ Verdict(q) = "NONE" => consent # "REVOKED"
<1>1. request[q].late \in BOOLEAN /\ request[q].altered \in BOOLEAN
  BY DEF RequestType
<1>2. CASE request[q].late
  <2>1. Verdict(q) = "CAPABILITY_EXPIRED"
    BY <1>2 DEF Verdict
  <2> QED BY <2>1 DEF Refusals
<1>3. CASE ~request[q].late /\ request[q].altered
  <2>1. Verdict(q) = "TRANSACTION_HASH_MISMATCH"
    BY <1>3 DEF Verdict
  <2> QED BY <2>1 DEF Refusals
<1>4. CASE ~request[q].late /\ ~request[q].altered /\ nonce # "FREE"
  <2>1. Verdict(q) = "NONCE_ALREADY_USED"
    BY <1>4 DEF Verdict
  <2> QED BY <2>1 DEF Refusals
<1>5. CASE ~request[q].late /\ ~request[q].altered /\ nonce = "FREE"
  <2>1. Verdict(q) = IF consent = "REVOKED" THEN "MANDATE_REVOKED" ELSE "NONE"
    BY <1>5 DEF Verdict
  <2> QED BY <1>5, <2>1 DEF Refusals, StateRefusals
<1> QED BY <1>1, <1>2, <1>3, <1>4, <1>5

LEMMA RefuseExecutionStep ==
  ASSUME RunInvariant, NEW q \in Requests, RefuseExecution(q)
  PROVE  RunInvariant'
<1> DEFINE r == [request[q] EXCEPT !.pc = "counting", !.answer = Verdict(q)]
<1>1. /\ Active(q) /\ request[q].pc = "gate" /\ request[q].op # "revoke" /\ Update(q, r)
      /\ Verdict(q) # "NONE"
      /\ nonce' = IF Verdict(q) = "MANDATE_REVOKED" THEN "REJECTED" ELSE nonce
      /\ UNCHANGED <<runState, consent, expired, guard, adapterCalls, records, flags>>
  BY DEF RefuseExecution, AtPc, Active
<1>2. /\ runState = "COMPLETE" /\ request[q] \in RequestType /\ FlowOf(q) /\ CountsOf(q)
      /\ ConsentOf(q) /\ request \in [Requests -> RequestType] /\ adapterCalls \in Nat
  BY <1>1, ActiveIsComplete
<1>3. TypeOK /\ FreeIsUncalled
  BY DEF RunInvariant
<1>4. Verdict(q) \in Refusals /\ (Verdict(q) = "MANDATE_REVOKED" => nonce = "FREE")
        /\ Verdict(q) # "RECEIPT"
  BY <1>1, <1>2, VerdictMeans DEF Refusals, StateRefusals
<1>5. r \in RequestType /\ r.pc = "counting" /\ r.op = request[q].op
        /\ r.before = request[q].before /\ r.answer = Verdict(q)
  BY <1>2, <1>4 DEF RequestType
<1>6. request'[q] = r
  BY <1>1, <1>2 DEF Update
<1>7. /\ runState' = runState /\ adapterCalls' = adapterCalls /\ actionInFlight' = actionInFlight
      /\ replayInFlight' = replayInFlight /\ consent' = consent /\ guard' = guard
      /\ expired' = expired /\ presented' = presented /\ altered' = altered
      /\ execution' = execution /\ runAudit' = runAudit /\ alarms' = alarms
  BY <1>1 DEF flags, records
<1>8. Revoked' = Revoked
  BY <1>7 DEF Revoked, Logged
<1>9. nonce' \in NonceStatus /\ (nonce' = "FREE" => nonce = "FREE")
  BY <1>1, <1>3 DEF TypeOK, NonceStatus
<1>10. FlowOf(q)'
  BY <1>1, <1>2, <1>5, <1>6, <1>7 DEF FlowOf, Active
<1>11. r.answer = "MANDATE_REVOKED" => nonce' # "FREE" /\ adapterCalls' = 0
  BY <1>1, <1>3, <1>4, <1>5, <1>7 DEF FreeIsUncalled
<1>12. CountsOf(q)'
  BY <1>2, <1>5, <1>6, <1>7, <1>11 DEF CountsOf
<1>13. ConsentOf(q)'
  BY <1>1, <1>2, <1>4, <1>5, <1>6, <1>7 DEF ConsentOf
<1> HIDE DEF r
<1>14. adapterCalls <= adapterCalls'
  BY <1>2, <1>7
<1>15. nonce # "FREE" => nonce' # "FREE" /\ adapterCalls' = adapterCalls
  BY <1>7, <1>9
<1>16. /\ request' \in [Requests -> RequestType]
       /\ \A p \in Requests : FlowOf(p)' /\ CountsOf(p)' /\ ConsentOf(p)'
       /\ OneAction'
  BY <1>1, <1>2, <1>5, <1>7, <1>8, <1>10, <1>12, <1>13, <1>14, <1>15, OthersKeep
<1>17. TypeOK'
  BY <1>3, <1>7, <1>9, <1>16 DEF TypeOK
<1>18. Untouched' /\ FreeIsUncalled' /\ ReceiptMeansConsent' /\ NoStateAlarm'
  BY <1>2, <1>7, <1>9
  DEF RunInvariant, Untouched, FreeIsUncalled, ReceiptMeansConsent, NoStateAlarm
<1>19. \A p \in Requests : p # q => request'[p] = request[p]
  BY <1>1, <1>2 DEF Update
<1>20. RevocationOnRecord'
  BY <1>1, <1>7, <1>8, <1>19 DEF RunInvariant, RevocationOnRecord
<1> QED BY <1>16, <1>17, <1>18, <1>20 DEF RunInvariant

LEMMA StartProviderCallStep ==
  ASSUME RunInvariant, NEW q \in Requests, StartProviderCall(q)
  PROVE  RunInvariant'
<1> DEFINE r == [request[q] EXCEPT !.pc = "calling"]
<1>1. /\ Active(q) /\ request[q].pc = "gate" /\ request[q].op # "revoke" /\ Update(q, r)
      /\ guard = NoRequest /\ Verdict(q) = "NONE" /\ nonce' = "RESERVED" /\ guard' = q
      /\ adapterCalls' = adapterCalls + 1 /\ execution' = Step("RUNNING", NoClaim)
      /\ UNCHANGED <<runState, presented, altered, consent, expired, runAudit, alarms, flags>>
  BY DEF StartProviderCall, AtPc, Active
<1>2. /\ runState = "COMPLETE" /\ request[q] \in RequestType /\ FlowOf(q) /\ CountsOf(q)
      /\ ConsentOf(q) /\ request \in [Requests -> RequestType] /\ adapterCalls \in Nat
  BY <1>1, ActiveIsComplete
<1>3. TypeOK /\ FreeIsUncalled
  BY DEF RunInvariant
<1>4. nonce = "FREE" /\ consent # "REVOKED"
  BY <1>1, <1>2, VerdictMeans
<1>5. consent = "ACTIVE"
  BY <1>3, <1>4 DEF TypeOK
<1>6. r \in RequestType /\ r.pc = "calling" /\ r.op = request[q].op
        /\ r.before = request[q].before /\ r.before \in Nat
  BY <1>2 DEF RequestType
<1>7. request'[q] = r
  BY <1>1, <1>2 DEF Update
<1>8. /\ runState' = runState /\ actionInFlight' = actionInFlight
      /\ replayInFlight' = replayInFlight /\ consent' = consent
      /\ expired' = expired /\ presented' = presented /\ altered' = altered
      /\ runAudit' = runAudit /\ alarms' = alarms
  BY <1>1 DEF flags
<1>9. Revoked' = Revoked
  BY <1>8 DEF Revoked, Logged
<1>10. FlowOf(q)'
  BY <1>1, <1>2, <1>6, <1>7, <1>8 DEF FlowOf, Active
<1>11. adapterCalls' \in Nat /\ adapterCalls <= adapterCalls'
  BY <1>1, <1>2
<1>12. r.before <= adapterCalls'
  BY <1>2, <1>6, <1>11 DEF CountsOf
<1>13. CountsOf(q)'
  BY <1>1, <1>6, <1>7, <1>12 DEF CountsOf
<1>14. ConsentOf(q)'
  BY <1>1, <1>2, <1>5, <1>6, <1>7, <1>8 DEF ConsentOf
<1> HIDE DEF r
<1>15. /\ request' \in [Requests -> RequestType]
       /\ \A p \in Requests : FlowOf(p)' /\ CountsOf(p)' /\ ConsentOf(p)'
       /\ OneAction'
  BY <1>1, <1>2, <1>4, <1>6, <1>8, <1>9, <1>10, <1>11, <1>13, <1>14, OthersKeep
<1>16. execution' \in StepType
  BY <1>1 DEF StepType, Step
<1>17. TypeOK'
  <2>1. nonce' \in NonceStatus /\ guard' \in Requests \union {NoRequest}
    BY <1>1 DEF NonceStatus
  <2> QED BY <1>3, <1>8, <1>11, <1>15, <1>16, <2>1 DEF TypeOK, StepType
<1>18. Untouched' /\ FreeIsUncalled' /\ ReceiptMeansConsent' /\ NoStateAlarm'
  BY <1>1, <1>2, <1>8
  DEF RunInvariant, Untouched, FreeIsUncalled, ReceiptMeansConsent, NoStateAlarm
<1>19. \A p \in Requests : p # q => request'[p] = request[p]
  BY <1>1, <1>2 DEF Update
<1>20. RevocationOnRecord'
  BY <1>1, <1>8, <1>9, <1>19 DEF RunInvariant, RevocationOnRecord
<1> QED BY <1>15, <1>17, <1>18, <1>20 DEF RunInvariant

LEMMA ProviderAnswersStep ==
  ASSUME RunInvariant, NEW q \in Requests, ProviderAnswers(q)
  PROVE  RunInvariant'
<1> DEFINE r == [request[q] EXCEPT !.pc = "counting", !.answer = "RECEIPT"]
<1>1. /\ Active(q) /\ request[q].pc = "calling" /\ Update(q, r)
      /\ nonce' = "SUCCEEDED" /\ guard' = NoRequest /\ execution' = Step("PASS", NoClaim)
      /\ UNCHANGED <<runState, presented, altered, consent, expired, adapterCalls,
                     runAudit, alarms, flags>>
  BY DEF ProviderAnswers, AtPc, Active
<1>2. /\ runState = "COMPLETE" /\ request[q] \in RequestType /\ FlowOf(q) /\ CountsOf(q)
      /\ ConsentOf(q) /\ request \in [Requests -> RequestType] /\ adapterCalls \in Nat
  BY <1>1, ActiveIsComplete
<1>3. TypeOK
  BY DEF RunInvariant
<1>4. request[q].op # "revoke" /\ guard = q /\ consent = "ACTIVE"
  BY <1>1, <1>2 DEF FlowOf, CountsOf, ConsentOf
<1>5. r \in RequestType /\ r.pc = "counting" /\ r.op = request[q].op
        /\ r.before = request[q].before /\ r.answer = "RECEIPT"
  BY <1>2 DEF RequestType
<1>6. request'[q] = r
  BY <1>1, <1>2 DEF Update
<1>7. /\ runState' = runState /\ actionInFlight' = actionInFlight
      /\ replayInFlight' = replayInFlight /\ consent' = consent /\ adapterCalls' = adapterCalls
      /\ expired' = expired /\ presented' = presented /\ altered' = altered
      /\ runAudit' = runAudit /\ alarms' = alarms
  BY <1>1 DEF flags
<1>8. Revoked' = Revoked
  BY <1>7 DEF Revoked, Logged
<1>9. FlowOf(q)'
  BY <1>1, <1>2, <1>4, <1>5, <1>6, <1>7 DEF FlowOf, Active
<1>10. CountsOf(q)'
  BY <1>2, <1>5, <1>6, <1>7 DEF CountsOf
<1>11. ConsentOf(q)'
  BY <1>4, <1>5, <1>6, <1>7 DEF ConsentOf
<1>12. adapterCalls' \in Nat /\ adapterCalls <= adapterCalls'
  BY <1>2, <1>7
<1> HIDE DEF r
<1>13. /\ request' \in [Requests -> RequestType]
       /\ \A p \in Requests : FlowOf(p)' /\ CountsOf(p)' /\ ConsentOf(p)'
       /\ OneAction'
  BY <1>1, <1>2, <1>4, <1>5, <1>7, <1>8, <1>9, <1>10, <1>11, <1>12, OthersKeep
<1>14. execution' \in StepType
  BY <1>1 DEF StepType, Step
<1>15. TypeOK'
  <2>1. nonce' \in NonceStatus /\ guard' \in Requests \union {NoRequest}
    BY <1>1 DEF NonceStatus
  <2> QED BY <1>3, <1>7, <1>12, <1>13, <1>14, <2>1 DEF TypeOK, StepType
<1>16. Untouched' /\ FreeIsUncalled' /\ ReceiptMeansConsent' /\ NoStateAlarm'
  BY <1>1, <1>2, <1>7
  DEF RunInvariant, Untouched, FreeIsUncalled, ReceiptMeansConsent, NoStateAlarm
<1>17. \A p \in Requests : p # q => request'[p] = request[p]
  BY <1>1, <1>2 DEF Update
<1>18. RevocationOnRecord'
  BY <1>1, <1>7, <1>8, <1>17 DEF RunInvariant, RevocationOnRecord
<1> QED BY <1>13, <1>15, <1>16, <1>18 DEF RunInvariant

LEMMA ProviderFailsStep ==
  ASSUME RunInvariant, NEW q \in Requests, ProviderFails(q)
  PROVE  RunInvariant'
<1> DEFINE r == [request[q] EXCEPT !.pc = "done"]
<1>1. /\ Active(q) /\ request[q].pc = "calling" /\ Finish(q)
      /\ nonce' \in {"REJECTED", "UNCERTAIN"} /\ guard' = NoRequest
      /\ execution' = Step("ERROR", NoClaim)
      /\ runState' = runState /\ presented' = presented /\ altered' = altered
      /\ consent' = consent /\ expired' = expired /\ adapterCalls' = adapterCalls
      /\ runAudit' = runAudit /\ alarms' = alarms
  BY DEF ProviderFails, AtPc, Active
<1>2. /\ runState = "COMPLETE" /\ request[q] \in RequestType /\ FlowOf(q) /\ CountsOf(q)
      /\ request \in [Requests -> RequestType] /\ adapterCalls \in Nat
  BY <1>1, ActiveIsComplete
<1>3. TypeOK
  BY DEF RunInvariant
<1>4. guard = q
  BY <1>1, <1>2 DEF CountsOf
<1>5. adapterCalls' \in Nat /\ adapterCalls <= adapterCalls'
  BY <1>1, <1>2
<1>6. /\ r \in RequestType /\ Update(q, r) /\ r.pc = "done"
      /\ actionInFlight' \in BOOLEAN /\ replayInFlight' \in BOOLEAN
      /\ actionInFlight => actionInFlight' \/ (Active(q) /\ request[q].op # "replay")
      /\ FlowOf(q)' /\ CountsOf(q)' /\ ConsentOf(q)'
  BY <1>1, <1>5, FinishKeeps
<1>7. Revoked' = Revoked
  BY <1>1 DEF Revoked, Logged
<1> HIDE DEF r
<1>8. /\ request' \in [Requests -> RequestType]
      /\ \A p \in Requests : FlowOf(p)' /\ CountsOf(p)' /\ ConsentOf(p)'
      /\ OneAction'
  BY <1>1, <1>2, <1>4, <1>5, <1>6, <1>7, OthersKeep
<1>9. execution' \in StepType
  BY <1>1 DEF StepType, Step
<1>10. TypeOK'
  <2>1. nonce' \in NonceStatus /\ guard' \in Requests \union {NoRequest}
    BY <1>1 DEF NonceStatus
  <2> QED BY <1>1, <1>3, <1>5, <1>6, <1>8, <1>9, <2>1 DEF TypeOK, StepType
<1>11. Untouched' /\ FreeIsUncalled' /\ ReceiptMeansConsent' /\ NoStateAlarm'
  BY <1>1, <1>2
  DEF RunInvariant, Untouched, FreeIsUncalled, ReceiptMeansConsent, NoStateAlarm
<1>12. \A p \in Requests : p # q => request'[p] = request[p]
  BY <1>2, <1>6 DEF Update
<1>13. RevocationOnRecord'
  BY <1>1, <1>7, <1>12 DEF RunInvariant, RevocationOnRecord
<1> QED BY <1>8, <1>10, <1>11, <1>13 DEF RunInvariant

LEMMA CommitRevocationStep ==
  ASSUME RunInvariant, NEW q \in Requests, CommitRevocation(q)
  PROVE  RunInvariant'
<1> DEFINE r == [request[q] EXCEPT !.pc = "recording"]
<1>1. /\ Active(q) /\ request[q].pc = "gate" /\ request[q].op = "revoke" /\ Update(q, r)
      /\ guard = NoRequest /\ consent' = "REVOKED"
      /\ UNCHANGED <<runState, nonce, expired, guard, adapterCalls, records, flags>>
  BY DEF CommitRevocation, AtPc, Active
<1>2. /\ runState = "COMPLETE" /\ request[q] \in RequestType /\ FlowOf(q) /\ CountsOf(q)
      /\ ConsentOf(q) /\ request \in [Requests -> RequestType] /\ adapterCalls \in Nat
      /\ actionInFlight
  BY <1>1, ActiveIsComplete
<1>3. TypeOK /\ RevocationOnRecord
  BY DEF RunInvariant
<1>4. consent = "ACTIVE" /\ presented # "RECEIPT"
  BY <1>1, <1>2 DEF ConsentOf
<1>5. Revoked = {}
  BY <1>3, <1>4 DEF RevocationOnRecord
<1>6. r \in RequestType /\ r.pc = "recording" /\ r.op = "revoke" /\ r.before = request[q].before
  BY <1>1, <1>2 DEF RequestType
<1>7. request'[q] = r
  BY <1>1, <1>2 DEF Update
<1>8. /\ runState' = runState /\ actionInFlight' = actionInFlight
      /\ replayInFlight' = replayInFlight /\ adapterCalls' = adapterCalls
      /\ nonce' = nonce /\ guard' = guard /\ execution' = execution
      /\ expired' = expired /\ presented' = presented /\ altered' = altered
      /\ runAudit' = runAudit /\ alarms' = alarms
  BY <1>1 DEF flags, records
<1>9. Revoked' = Revoked
  BY <1>8 DEF Revoked, Logged
<1>10. FlowOf(q)'
  BY <1>1, <1>2, <1>6, <1>7, <1>8 DEF FlowOf, Operations
<1>11. CountsOf(q)'
  BY <1>2, <1>6, <1>7, <1>8 DEF CountsOf
<1>12. ConsentOf(q)'
  BY <1>1, <1>4, <1>5, <1>6, <1>7, <1>8, <1>9 DEF ConsentOf
<1>13. adapterCalls' \in Nat /\ adapterCalls <= adapterCalls'
  BY <1>2, <1>8
<1> HIDE DEF r
<1>14. /\ request' \in [Requests -> RequestType]
       /\ \A p \in Requests : FlowOf(p)' /\ CountsOf(p)' /\ ConsentOf(p)'
       /\ OneAction'
  BY <1>1, <1>2, <1>6, <1>8, <1>9, <1>10, <1>11, <1>12, <1>13, OthersKeep
<1>15. TypeOK'
  BY <1>1, <1>3, <1>8, <1>14 DEF TypeOK
<1>16. Untouched' /\ FreeIsUncalled' /\ ReceiptMeansConsent' /\ NoStateAlarm'
  BY <1>2, <1>4, <1>8
  DEF RunInvariant, Untouched, FreeIsUncalled, ReceiptMeansConsent, NoStateAlarm
<1>17. RevocationOnRecord'
  BY <1>1, <1>5, <1>6, <1>7, <1>9 DEF RevocationOnRecord
<1> QED BY <1>14, <1>15, <1>16, <1>17 DEF RunInvariant

(* The steps that write the run's records *)

LEMMA RecordExecutionStep ==
  ASSUME RunInvariant, NEW q \in Requests, RecordExecution(q)
  PROVE  RunInvariant'
<1> DEFINE r == [request[q] EXCEPT !.pc = "done"]
<1>1. /\ Active(q) /\ request[q].pc = "recording" /\ request[q].op \in {"execute", "mutate"}
      /\ presented' = request[q].answer /\ altered' = request[q].altered
      /\ alarms' = alarms \union Alarm(q) /\ Finish(q)
      /\ runState' = runState /\ consent' = consent /\ nonce' = nonce
      /\ expired' = expired /\ guard' = guard /\ adapterCalls' = adapterCalls
  BY DEF RecordExecution, AtPc, Active, kernel
<1>2. /\ runState = "COMPLETE" /\ request[q] \in RequestType /\ FlowOf(q) /\ CountsOf(q)
      /\ ConsentOf(q) /\ request \in [Requests -> RequestType] /\ adapterCalls \in Nat
  BY <1>1, ActiveIsComplete
<1>3. TypeOK
  BY DEF RunInvariant
<1>4. request[q].before \in Nat /\ request[q].after \in Nat /\ request[q].altered \in BOOLEAN
        /\ request[q].answer \in Refusals \union {"NONE", "RECEIPT"}
  BY <1>2 DEF RequestType
<1>5. Additional(q) \in Nat
  BY <1>1, <1>2, <1>4 DEF CountsOf, Additional
<1>6. request[q].answer = "MANDATE_REVOKED" => Additional(q) = 0
  BY <1>1, <1>2, <1>4 DEF CountsOf, Additional
<1>7. Alarm(q) \subseteq {"MUTATION"}
  <2>1. CASE request[q].answer \in StateRefusals
    <3>1. Additional(q) = 0
      BY <1>6, <2>1 DEF StateRefusals
    <3> QED BY <2>1, <3>1 DEF Alarm
  <2>2. CASE request[q].answer \notin StateRefusals
    BY <2>2 DEF Alarm
  <2> QED BY <2>1, <2>2
<1>8. execution' \in StepType /\ runAudit' \in Seq(AuditType) /\ Revoked' = Revoked
  <2>1. runAudit \in Seq(AuditType) /\ execution \in StepType
    BY <1>3 DEF TypeOK, AuditType, StepType
  <2>2. CASE Alarm(q) # {}
    <3>1. execution' = execution /\ runAudit' = runAudit
      BY <2>2 DEF RecordExecution
    <3> QED BY <2>1, <3>1 DEF Revoked, Logged
  <2>3. CASE Alarm(q) = {} /\ request[q].answer = "RECEIPT"
    <3>1. execution' = Step("PASS", NoClaim)
            /\ runAudit' = Append(runAudit, Event("RAZORPAY_ORDER_CREATED", Additional(q)))
      BY <2>3 DEF RecordExecution
    <3>2. Event("RAZORPAY_ORDER_CREATED", Additional(q)) \in AuditType
            /\ Event("RAZORPAY_ORDER_CREATED", Additional(q)).event # "MANDATE_REVOKED"
      BY <1>5 DEF Event, AuditType
    <3>3. execution' \in StepType
      BY <3>1 DEF Step, StepType
    <3> QED BY <2>1, <3>1, <3>2, <3>3, LogAppends
  <2>4. CASE Alarm(q) = {} /\ request[q].answer # "RECEIPT"
    <3>1. execution' = Step("REJECTED", request[q].after)
            /\ runAudit' = Append(runAudit, Event(RefusalEvent(q), Additional(q)))
      BY <2>4 DEF RecordExecution
    <3>2. RefusalEvent(q) \in {"EXECUTION_REFUSED_MANDATE_STATE", "EXECUTION_REFUSED_BY_GATE"}
      BY DEF RefusalEvent
    <3>3. Event(RefusalEvent(q), Additional(q)) \in AuditType
            /\ Event(RefusalEvent(q), Additional(q)).event # "MANDATE_REVOKED"
      BY <1>5, <3>2 DEF Event, AuditType
    <3>4. execution' \in StepType
      BY <1>4, <3>1 DEF Step, StepType
    <3> QED BY <2>1, <3>1, <3>3, <3>4, LogAppends
  <2> QED BY <2>2, <2>3, <2>4
<1>9. adapterCalls' \in Nat /\ adapterCalls <= adapterCalls'
  BY <1>1, <1>2
<1>10. /\ r \in RequestType /\ Update(q, r) /\ r.pc = "done"
       /\ actionInFlight' \in BOOLEAN /\ replayInFlight' \in BOOLEAN
       /\ actionInFlight => actionInFlight' \/ (Active(q) /\ request[q].op # "replay")
       /\ FlowOf(q)' /\ CountsOf(q)' /\ ConsentOf(q)'
  BY <1>1, <1>9, FinishKeeps
<1> HIDE DEF r
<1>11. /\ request' \in [Requests -> RequestType]
       /\ \A p \in Requests : FlowOf(p)' /\ CountsOf(p)' /\ ConsentOf(p)'
       /\ OneAction'
  BY <1>1, <1>2, <1>8, <1>9, <1>10, OthersKeep
<1>12. TypeOK'
  <2>1. alarms' \subseteq {"STATE", "MUTATION"}
    BY <1>1, <1>3, <1>7 DEF TypeOK
  <2>2. presented' \in Refusals \union {"NONE", "RECEIPT"} /\ altered' \in BOOLEAN
    BY <1>1, <1>4
  <2> QED BY <1>1, <1>3, <1>8, <1>9, <1>10, <1>11, <2>1, <2>2 DEF TypeOK, StepType, AuditType
<1>13. NoStateAlarm'
  BY <1>1, <1>7 DEF RunInvariant, NoStateAlarm
<1>14. ReceiptMeansConsent'
  BY <1>1, <1>2 DEF ConsentOf, ReceiptMeansConsent
<1>15. Untouched' /\ FreeIsUncalled'
  BY <1>1, <1>2 DEF RunInvariant, Untouched, FreeIsUncalled
<1>16. \A p \in Requests : p # q => request'[p] = request[p]
  BY <1>2, <1>10 DEF Update
<1>17. RevocationOnRecord'
  BY <1>1, <1>8, <1>16 DEF RunInvariant, RevocationOnRecord
<1> QED BY <1>11, <1>12, <1>13, <1>14, <1>15, <1>17 DEF RunInvariant

LEMMA RecordReplayStep ==
  ASSUME RunInvariant, NEW q \in Requests, RecordReplay(q)
  PROVE  RunInvariant'
<1> DEFINE r == [request[q] EXCEPT !.pc = "done"]
           ev == Event("CAPABILITY_REPLAY_REJECTED", Additional(q))
<1>1. /\ Active(q) /\ request[q].pc = "recording" /\ request[q].op = "replay" /\ Finish(q)
      /\ runAudit' = Append(runAudit, ev)
      /\ runState' = runState /\ consent' = consent /\ nonce' = nonce
      /\ expired' = expired /\ guard' = guard /\ adapterCalls' = adapterCalls
      /\ presented' = presented /\ altered' = altered /\ execution' = execution
      /\ alarms' = alarms
  BY DEF RecordReplay, AtPc, Active, kernel
<1>2. /\ runState = "COMPLETE" /\ request[q] \in RequestType /\ CountsOf(q)
      /\ request \in [Requests -> RequestType] /\ adapterCalls \in Nat
  BY <1>1, ActiveIsComplete
<1>3. TypeOK
  BY DEF RunInvariant
<1>4. request[q].before \in Nat /\ request[q].after \in Nat
  BY <1>2 DEF RequestType
<1>5. Additional(q) \in Nat
  BY <1>1, <1>2, <1>4 DEF CountsOf, Additional
<1>6. ev \in AuditType /\ ev.event # "MANDATE_REVOKED"
  BY <1>5 DEF Event, AuditType
<1>7. runAudit \in Seq(AuditType)
  BY <1>3 DEF TypeOK, AuditType
<1> HIDE DEF ev
<1>8. runAudit' \in Seq(AuditType) /\ Revoked' = Revoked
  BY <1>1, <1>6, <1>7, LogAppends
<1>9. adapterCalls' \in Nat /\ adapterCalls <= adapterCalls'
  BY <1>1, <1>2
<1>10. /\ r \in RequestType /\ Update(q, r) /\ r.pc = "done"
       /\ actionInFlight' \in BOOLEAN /\ replayInFlight' \in BOOLEAN
       /\ actionInFlight => actionInFlight' \/ (Active(q) /\ request[q].op # "replay")
       /\ FlowOf(q)' /\ CountsOf(q)' /\ ConsentOf(q)'
  BY <1>1, <1>9, FinishKeeps
<1> HIDE DEF r
<1>11. /\ request' \in [Requests -> RequestType]
       /\ \A p \in Requests : FlowOf(p)' /\ CountsOf(p)' /\ ConsentOf(p)'
       /\ OneAction'
  BY <1>1, <1>2, <1>8, <1>9, <1>10, OthersKeep
<1>12. TypeOK'
  BY <1>1, <1>3, <1>8, <1>10, <1>11 DEF TypeOK, AuditType
<1>13. Untouched' /\ FreeIsUncalled' /\ ReceiptMeansConsent' /\ NoStateAlarm'
  BY <1>1, <1>2
  DEF RunInvariant, Untouched, FreeIsUncalled, ReceiptMeansConsent, NoStateAlarm
<1>14. \A p \in Requests : p # q => request'[p] = request[p]
  BY <1>2, <1>10 DEF Update
<1>15. RevocationOnRecord'
  BY <1>1, <1>8, <1>14 DEF RunInvariant, RevocationOnRecord
<1> QED BY <1>11, <1>12, <1>13, <1>15 DEF RunInvariant

LEMMA RecordRevocationStep ==
  ASSUME RunInvariant, NEW q \in Requests, RecordRevocation(q)
  PROVE  RunInvariant'
<1> DEFINE r == [request[q] EXCEPT !.pc = "done"]
           ev == Event("MANDATE_REVOKED", 0)
<1>1. /\ Active(q) /\ request[q].pc = "recording" /\ request[q].op = "revoke" /\ Finish(q)
      /\ runAudit' = Append(runAudit, ev) /\ execution' = Step("REVOKED", 0)
      /\ runState' = runState /\ consent' = consent /\ nonce' = nonce
      /\ expired' = expired /\ guard' = guard /\ adapterCalls' = adapterCalls
      /\ presented' = presented /\ altered' = altered /\ alarms' = alarms
  BY DEF RecordRevocation, AtPc, Active, kernel
<1>2. /\ runState = "COMPLETE" /\ request[q] \in RequestType /\ ConsentOf(q)
      /\ request \in [Requests -> RequestType] /\ adapterCalls \in Nat
  BY <1>1, ActiveIsComplete
<1>3. TypeOK
  BY DEF RunInvariant
<1>4. consent = "REVOKED" /\ Revoked = {}
  BY <1>1, <1>2 DEF ConsentOf
<1>5. ev \in AuditType /\ ev.event = "MANDATE_REVOKED"
  BY DEF Event, AuditType
<1>6. runAudit \in Seq(AuditType)
  BY <1>3 DEF TypeOK, AuditType
<1> HIDE DEF ev
<1>7. runAudit' \in Seq(AuditType) /\ Revoked' = {Len(runAudit) + 1}
  BY <1>1, <1>4, <1>5, <1>6, LogAppends
<1>8. adapterCalls' \in Nat /\ adapterCalls <= adapterCalls'
  BY <1>1, <1>2
<1>9. /\ r \in RequestType /\ Update(q, r) /\ r.pc = "done"
      /\ actionInFlight' \in BOOLEAN /\ replayInFlight' \in BOOLEAN
      /\ actionInFlight => actionInFlight' \/ (Active(q) /\ request[q].op # "replay")
      /\ FlowOf(q)' /\ CountsOf(q)' /\ ConsentOf(q)'
  BY <1>1, <1>8, FinishKeeps
<1> HIDE DEF r
<1>10. /\ request' \in [Requests -> RequestType]
       /\ \A p \in Requests : FlowOf(p)' /\ CountsOf(p)' /\ ConsentOf(p)'
       /\ OneAction'
  BY <1>1, <1>2, <1>8, <1>9, OthersKeep
<1>11. execution' \in StepType
  BY <1>1 DEF Step, StepType
<1>12. TypeOK'
  BY <1>1, <1>3, <1>7, <1>9, <1>10, <1>11 DEF TypeOK, AuditType, StepType
<1>13. Untouched' /\ FreeIsUncalled' /\ ReceiptMeansConsent' /\ NoStateAlarm'
  BY <1>1, <1>2
  DEF RunInvariant, Untouched, FreeIsUncalled, ReceiptMeansConsent, NoStateAlarm
<1>14. RevocationOnRecord'
  BY <1>1, <1>4, <1>7 DEF RevocationOnRecord
<1> QED BY <1>10, <1>12, <1>13, <1>14 DEF RunInvariant

(* The run's own steps *)

\* Nothing has been asked of a run that is still running.
LEMMA CompleteStep ==
  ASSUME RunInvariant,
         CompleteDeferred \/ CompleteExecuted \/ CompleteFailed \/ CompleteRefused \/ Abandon
  PROVE  RunInvariant'
<1>1. /\ runState = "RUNNING" /\ runState' \in {"COMPLETE", "ERROR"} /\ request' = request
      /\ consent' = consent /\ expired' = expired /\ guard' = guard /\ altered' = altered
      /\ alarms' = alarms /\ actionInFlight' = actionInFlight
      /\ replayInFlight' = replayInFlight
  BY DEF CompleteDeferred, CompleteExecuted, CompleteFailed, CompleteRefused, Abandon, kernel, flags
<1>2. TypeOK /\ consent = "ACTIVE" /\ runAudit = << >> /\ adapterCalls = 0 /\ OneAction
  BY <1>1 DEF RunInvariant, Untouched
<1>3. adapterCalls' \in {0, 1} /\ nonce' \in NonceStatus /\ (nonce' = "FREE" => adapterCalls' = 0)
  BY <1>2 DEF CompleteDeferred, CompleteExecuted, CompleteFailed, CompleteRefused, Abandon, kernel,
    NonceStatus, TypeOK, RunInvariant, FreeIsUncalled
<1>4. presented' \in Refusals \union {"NONE", "RECEIPT"}
  BY <1>2 DEF CompleteDeferred, CompleteExecuted, CompleteFailed, CompleteRefused, Abandon,
    TypeOK, Refusals
<1>5. execution' \in StepType
  BY DEF CompleteDeferred, CompleteExecuted, CompleteFailed, CompleteRefused, Abandon,
    Step, StepType
<1>6. runAudit' \in Seq(AuditType) /\ Revoked' = {}
  <2>1. CASE CompleteExecuted
    <3>1. runAudit' = << Event("RAZORPAY_ORDER_CREATED", 1) >>
      BY <2>1 DEF CompleteExecuted
    <3>2. Event("RAZORPAY_ORDER_CREATED", 1) \in AuditType
            /\ Event("RAZORPAY_ORDER_CREATED", 1).event # "MANDATE_REVOKED"
      BY DEF Event, AuditType
    <3>3. runAudit' \in Seq(AuditType) /\ DOMAIN runAudit' = {1}
            /\ runAudit'[1].event # "MANDATE_REVOKED"
      BY <3>1, <3>2
    <3> QED BY <3>3 DEF Revoked, Logged
  <2>2. CASE CompleteDeferred \/ CompleteFailed \/ CompleteRefused \/ Abandon
    <3>1. runAudit' = << >>
      BY <1>2, <2>2 DEF CompleteDeferred, CompleteFailed, CompleteRefused, Abandon
    <3> QED BY <3>1 DEF Revoked, Logged
  <2> QED BY <2>1, <2>2
<1>7. TypeOK'
  BY <1>1, <1>2, <1>3, <1>4, <1>5, <1>6 DEF TypeOK, StepType, AuditType
<1>8. ASSUME NEW p \in Requests
      PROVE  FlowOf(p)' /\ CountsOf(p)' /\ ConsentOf(p)'
  <2>1. request'[p] = request[p] /\ request[p].pc = "new" /\ request[p].before <= 0
          /\ request[p].before \in Nat
    BY <1>1, <1>2 DEF RunInvariant, FlowOf, CountsOf, TypeOK, RequestType
  <2>2. FlowOf(p)'
    BY <2>1 DEF FlowOf, Active
  <2>3. CountsOf(p)'
    BY <1>3, <2>1 DEF CountsOf
  <2>4. ConsentOf(p)'
    BY <2>1 DEF ConsentOf, Active
  <2> QED BY <2>2, <2>3, <2>4
<1>9. OneAction'
  BY <1>1, <1>2 DEF OneAction, Active
<1>10. Untouched' /\ FreeIsUncalled' /\ ReceiptMeansConsent' /\ NoStateAlarm'
  BY <1>1, <1>2, <1>3
  DEF RunInvariant, Untouched, FreeIsUncalled, ReceiptMeansConsent, NoStateAlarm
<1>11. RevocationOnRecord'
  BY <1>1, <1>2, <1>6 DEF RevocationOnRecord
<1> QED BY <1>7, <1>8, <1>9, <1>10, <1>11 DEF RunInvariant

LEMMA ExpireStep ==
  ASSUME RunInvariant, Expire \/ UNCHANGED vars
  PROVE  RunInvariant'
<1>1. /\ runState' = runState /\ presented' = presented /\ altered' = altered
      /\ actionInFlight' = actionInFlight /\ replayInFlight' = replayInFlight
      /\ consent' = consent /\ nonce' = nonce /\ guard' = guard /\ adapterCalls' = adapterCalls
      /\ execution' = execution /\ runAudit' = runAudit /\ alarms' = alarms
      /\ request' = request
  BY DEF Expire, vars, kernel, records, flags
<1>2. TypeOK'
  <2>1. TypeOK
    BY DEF RunInvariant
  <2>2. CASE Expire
    <3>1. expired' \in BOOLEAN
      BY <2>2 DEF Expire
    <3> QED BY <1>1, <2>1, <3>1 DEF TypeOK
  <2>3. CASE UNCHANGED vars
    <3>1. expired' = expired
      BY <2>3 DEF vars, kernel
    <3> QED BY <1>1, <2>1, <3>1 DEF TypeOK
  <2> QED BY <2>2, <2>3
<1>3. Revoked' = Revoked
  BY <1>1 DEF Revoked, Logged
<1>4. ASSUME NEW p \in Requests
      PROVE  FlowOf(p)' /\ CountsOf(p)' /\ ConsentOf(p)'
  <2>1. FlowOf(p) /\ CountsOf(p) /\ ConsentOf(p)
    BY DEF RunInvariant
  <2>2. FlowOf(p)'
    BY <1>1, <2>1 DEF FlowOf, Active
  <2>3. CountsOf(p)'
    BY <1>1, <2>1 DEF CountsOf
  <2>4. ConsentOf(p)'
    BY <1>1, <1>3, <2>1 DEF ConsentOf, Active
  <2> QED BY <2>2, <2>3, <2>4
<1>5. OneAction'
  BY <1>1 DEF RunInvariant, OneAction, Active
<1>6. Untouched' /\ FreeIsUncalled' /\ ReceiptMeansConsent' /\ NoStateAlarm'
  BY <1>1 DEF RunInvariant, Untouched, FreeIsUncalled, ReceiptMeansConsent, NoStateAlarm
<1>7. RevocationOnRecord'
  BY <1>1, <1>3 DEF RunInvariant, RevocationOnRecord
<1> QED BY <1>2, <1>4, <1>5, <1>6, <1>7 DEF RunInvariant

LEMMA RunStep == RunInvariant /\ [Next]_vars => RunInvariant'
<1> SUFFICES ASSUME RunInvariant, [Next]_vars PROVE RunInvariant'
  OBVIOUS
<1>1. CASE CompleteDeferred \/ CompleteExecuted \/ CompleteFailed \/ CompleteRefused \/ Abandon
  BY <1>1, CompleteStep
<1>2. ASSUME NEW q \in Requests, Arrive(q) PROVE RunInvariant'
  BY <1>2, ArriveStep
<1>3. ASSUME NEW q \in Requests, Proceed(q) PROVE RunInvariant'
  BY <1>3, CountBeforeStep, RefuseExecutionStep, StartProviderCallStep, ProviderAnswersStep,
    ProviderFailsStep, GiveUpStep, CountAfterStep, RecordExecutionStep, RecordReplayStep,
    FindConsentStep, CommitRevocationStep, RecordRevocationStep DEF Proceed
<1>4. CASE Expire \/ UNCHANGED vars
  BY <1>4, ExpireStep
<1> QED BY <1>1, <1>2, <1>3, <1>4 DEF Next

LEMMA RunInductive == Spec => []RunInvariant
<1> QED BY RunStart, RunStep, PTL DEF Spec

\* The run's fields and its requests' locals keep their types, whatever the
\* number of requests; no recorded count of additional calls is negative.
THEOREM RunTypeCorrect == Spec => []TypeOK
<1>1. RunInvariant => TypeOK
  BY DEF RunInvariant
<1> QED BY <1>1, RunInductive, PTL

\* The assertion of attempt_execution cannot be raised by a refusal for the
\* mandate's state, although other requests move the counter meanwhile.
THEOREM RunRaisesNoStateAlarm == Spec => []NoStateAlarm
<1>1. RunInvariant => NoStateAlarm
  BY DEF RunInvariant
<1> QED BY <1>1, RunInductive, PTL

\* Of a receipt and a revocation through the run, a run ever shows one.
THEOREM RunReceiptMeansConsent == Spec => []ReceiptMeansConsent
<1>1. RunInvariant => ReceiptMeansConsent
  BY DEF RunInvariant
<1> QED BY <1>1, RunInductive, PTL

\* A committed revocation is in the run's audit, once, as soon as the request
\* that made it is over.
THEOREM RunLogsRevocationOnce == Spec => []RevocationIsLoggedOnce
<1>1. RunInvariant => RevocationIsLoggedOnce
  <2> SUFFICES ASSUME RunInvariant PROVE RevocationIsLoggedOnce
    OBVIOUS
  <2>1. RevocationOnRecord
    BY DEF RunInvariant
  <2>2. ASSUME NEW q \in Requests, request[q].pc = "recording", request[q].op = "revoke"
        PROVE  actionInFlight
    BY <2>2 DEF RunInvariant, FlowOf, Active
  <2> QED BY <2>1, <2>2 DEF RevocationOnRecord, RevocationIsLoggedOnce, Revoked
<1> QED BY <1>1, RunInductive, PTL

-----------------------------------------------------------------------------
(* The run and the kernel.  CommerceRun takes the kernel at its word and    *)
(* makes the gate and the start of a call one step.  Here its steps are     *)
(* shown to be steps of ConsentGate, which GuardedExecution implements: of  *)
(* the one capability of the run, bound to the one version of its mandate.  *)

Gate == INSTANCE ConsentGate WITH
  Mandates <- {"mandate"}, Versions <- {1},
  Nonces <- {"nonce"}, Capabilities <- {"capability"},
  NonceOf <- [c \in {"capability"} |-> "nonce"],
  Unissued <- [mandate |-> "none", version |-> 0],
  inForce <- [m \in {"mandate"} |-> IF consent = "ACTIVE" THEN {1} ELSE {}],
  ever <- [m \in {"mandate"} |-> {1}],
  bound <- [c \in {"capability"} |-> [mandate |-> "mandate", version |-> 1]],
  spent <- IF nonce = "FREE" THEN {} ELSE {"nonce"},
  ordered <- IF adapterCalls = 0 THEN {} ELSE {"capability"}

KernelStands == consent' = consent /\ nonce' = nonce /\ adapterCalls' = adapterCalls

\* A provider call: the nonce was free and consent stands.
CallsOnce ==
  /\ nonce = "FREE" /\ nonce' \in NonceStatus \ {"FREE"}
  /\ adapterCalls = 0 /\ adapterCalls' = 1
  /\ consent = "ACTIVE" /\ consent' = consent

\* A row of the ledger that moves from one end to another is spent before and after.
SpentStays ==
  /\ nonce # "FREE" /\ nonce' # "FREE"
  /\ consent' = consent /\ adapterCalls' = adapterCalls

LosesNonce ==
  /\ nonce = "FREE" /\ nonce' = "REJECTED"
  /\ consent' = consent /\ adapterCalls' = adapterCalls

LosesConsent ==
  /\ consent' = "REVOKED"
  /\ nonce' = nonce /\ adapterCalls' = adapterCalls

\* All that a step of the run does to the kernel.
KernelStep == KernelStands \/ CallsOnce \/ SpentStays \/ LosesNonce \/ LosesConsent

LEMMA RunKernelStep ==
  ASSUME RunInvariant, [Next]_vars
  PROVE  KernelStep
<1>1. TypeOK /\ FreeIsUncalled /\ Untouched
  BY DEF RunInvariant
<1>2. CASE CompleteDeferred \/ CompleteRefused \/ Abandon
  <2>1. KernelStands
    BY <1>2 DEF CompleteDeferred, CompleteRefused, Abandon, kernel, KernelStands
  <2> QED BY <2>1 DEF KernelStep
<1>3. CASE CompleteExecuted \/ CompleteFailed
  <2>1. CallsOnce
    BY <1>1, <1>3 DEF CompleteExecuted, CompleteFailed, Untouched, CallsOnce, NonceStatus
  <2> QED BY <2>1 DEF KernelStep
<1>4. ASSUME NEW q \in Requests, Arrive(q)
      PROVE  KernelStep
  <2>1. KernelStands
    BY <1>4 DEF Arrive, EnterExecute, EnterRevoke, EnterReplay, kernel, KernelStands
  <2> QED BY <2>1 DEF KernelStep
<1>5. ASSUME NEW q \in Requests, Proceed(q)
      PROVE  KernelStep
  <2>1. CASE CountBefore(q) \/ GuardTimesOut(q) \/ CountAfter(q) \/ RecordExecution(q)
              \/ RecordReplay(q) \/ FindConsent(q) \/ FindConsentRevoked(q) \/ RecordRevocation(q)
    <3>1. KernelStands
      BY <2>1 DEF CountBefore, GuardTimesOut, CountAfter, RecordExecution, RecordReplay,
        FindConsent, FindConsentRevoked, RecordRevocation, kernel, KernelStands
    <3> QED BY <3>1 DEF KernelStep
  <2>2. CASE CommitRevocation(q)
    <3>1. LosesConsent
      BY <2>2 DEF CommitRevocation, LosesConsent
    <3> QED BY <3>1 DEF KernelStep
  <2>3. CASE StartProviderCall(q)
    <3>1. request[q] \in RequestType
      BY <2>3, ActiveIsComplete DEF StartProviderCall, AtPc, Active
    <3>2. nonce = "FREE" /\ consent # "REVOKED"
      BY <2>3, <3>1, VerdictMeans DEF StartProviderCall
    <3>3. CallsOnce
      BY <1>1, <2>3, <3>2
      DEF StartProviderCall, FreeIsUncalled, TypeOK, CallsOnce, NonceStatus
    <3> QED BY <3>3 DEF KernelStep
  <2>4. CASE RefuseExecution(q)
    <3>1. request[q] \in RequestType
      BY <2>4, ActiveIsComplete DEF RefuseExecution, AtPc, Active
    <3>2. Verdict(q) = "MANDATE_REVOKED" => nonce = "FREE"
      BY <3>1, VerdictMeans
    <3>3. KernelStands \/ LosesNonce
      BY <2>4, <3>2 DEF RefuseExecution, KernelStands, LosesNonce
    <3> QED BY <3>3 DEF KernelStep
  <2>5. CASE ProviderAnswers(q) \/ ProviderFails(q)
    <3>1. AtPc(q, "calling") /\ nonce' # "FREE" /\ consent' = consent
            /\ adapterCalls' = adapterCalls
      BY <2>5 DEF ProviderAnswers, ProviderFails
    <3>2. nonce # "FREE"
      BY <3>1 DEF RunInvariant, CountsOf, AtPc
    <3>3. SpentStays
      BY <3>1, <3>2 DEF SpentStays
    <3> QED BY <3>3 DEF KernelStep
  <2> QED BY <1>5, <2>1, <2>2, <2>3, <2>4, <2>5 DEF Proceed
<1>6. CASE Expire \/ UNCHANGED vars
  <2>1. KernelStands
    BY <1>6 DEF Expire, vars, kernel, KernelStands
  <2> QED BY <2>1 DEF KernelStep
<1> QED BY <1>2, <1>3, <1>4, <1>5, <1>6 DEF Next

LEMMA KernelStepIsGateStep ==
  ASSUME KernelStep
  PROVE  [Gate!GateNext]_(Gate!gateVars)
<1>1. CASE KernelStands \/ SpentStays
  BY <1>1 DEF KernelStands, SpentStays, Gate!gateVars
<1>2. CASE CallsOnce
  <2>1. Gate!Order("capability")
    BY <1>2 DEF CallsOnce, Gate!Order
  <2> QED BY <2>1 DEF Gate!GateNext
<1>3. CASE LosesNonce
  <2>1. Gate!Burn("nonce")
    BY <1>3 DEF LosesNonce, Gate!Burn
  <2> QED BY <2>1 DEF Gate!GateNext
<1>4. CASE LosesConsent
  <2>1. Gate!Withdraw("mandate")
    BY <1>4 DEF LosesConsent, Gate!Withdraw
  <2> QED BY <2>1 DEF Gate!GateNext
<1> QED BY <1>1, <1>2, <1>3, <1>4 DEF KernelStep

\* Whatever requests overlap, time out and fail, what they do to the run's mandate, its
\* nonce and the provider is what the kernel promises: a call is an order under consent in
\* force with a nonce nobody used, made in one step; all else loses a nonce, withdraws
\* consent, or touches neither.  The capability is issued before the run can be asked.
THEOREM RunKeepsToGate == Spec => [][Gate!GateNext]_(Gate!gateVars)
<1>1. RunInvariant /\ [Next]_vars => [Gate!GateNext]_(Gate!gateVars)
  BY RunKernelStep, KernelStepIsGateStep
<1> QED BY <1>1, RunInductive, PTL DEF Spec

CalledOnce == adapterCalls \in {0, 1} /\ (adapterCalls = 1 => nonce # "FREE")

\* Over all requests to a run, execute, mutate and replay in any order and number, one call
\* at most goes to the provider, and the nonce is not free after it.
THEOREM RunCallsOnce == Spec => []CalledOnce
<1>1. Init => CalledOnce
  BY DEF Init, CalledOnce
<1>2. CalledOnce /\ KernelStep => CalledOnce'
  BY DEF CalledOnce, KernelStep, KernelStands, CallsOnce, SpentStays, LosesNonce,
    LosesConsent, NonceStatus
<1>3. RunInvariant /\ CalledOnce /\ [Next]_vars => CalledOnce'
  BY <1>2, RunKernelStep
<1> QED BY <1>1, <1>3, RunInductive, PTL DEF Spec
=============================================================================
