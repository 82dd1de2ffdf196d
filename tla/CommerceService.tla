---------------------------- MODULE CommerceService ----------------------------
(***************************************************************************)
(* The tables that all visitors of the commerce lab share: the runs and    *)
(* request ids of CommerceLabService (product/service.py), the judge       *)
(* sessions of sandbox/session.py, and the threads of the HTTP server that *)
(* start runs, onboard merchants and act on runs.                          *)
(*                                                                         *)
(* A request takes several steps, each under one lock or none: it opens a  *)
(* session, starts a run under the lock of the service, and records it     *)
(* under that of the sessions.  A request about a run looks it up, asks    *)
(* whether the caller may use it, and looks it up again.  In between,      *)
(* sessions expire, tables evict and runs go on.                           *)
(*                                                                         *)
(* A run object survives its eviction as long as a thread holds it.  Memory*)
(* is lost in a restart; the nonce ledger is not, when the service has a   *)
(* state directory.  What a run decides is a choice here (AgenticCheckout, *)
(* ReviewRecovery), and so is whether a reserved nonce leads to an order   *)
(* (GuardedExecution).                                                     *)
(***************************************************************************)
EXTENDS Integers, Sequences, FiniteSets

CONSTANTS
  Threads,       \* of the HTTP server
  Requests,      \* request ids
  Products,      \* what everybody may buy, with the rest of a request's content
  MaxRetained,   \* _MAX_RETAINED_RUNS
  MaxSessions,   \* MAX_SESSIONS
  MaxWindow,     \* MAX_RUNS_PER_SESSION
  MaxOnboarded,  \* MAX_ONBOARDED_PER_SESSION
  TTL,           \* SESSION_TTL
  MaxRounds,     \* of a recovery
  MaxCalls,      \* bound: HTTP requests
  MaxTime,       \* bound: the clock
  MaxRestarts    \* bound: restarts of the service

ASSUME ServiceAssumption ==
  /\ {MaxRetained, MaxSessions, MaxWindow} \subseteq Nat \ {0}
  /\ {MaxOnboarded, TTL, MaxRounds, MaxCalls, MaxTime, MaxRestarts} \subseteq Nat

VARIABLES
  now,
  calls,     \* HTTP requests so far; each mints at most one session and one run
  restarts,
  live,      \* the keys of JudgeSessionRegistry._sessions
  judge,     \* JudgeSession objects
  retained,  \* CommerceLabService._runs in its order
  runs,      \* CommerceRun objects
  requests,  \* CommerceLabService._requests
  http,      \* the request each thread is serving
  spent,     \* nonces in the execution ledger
  orders     \* history: the runs that called the provider for a purchase

vars == <<now, calls, restarts, live, judge, retained, runs, requests, http, spent, orders>>

-----------------------------------------------------------------------------
Ids == 1..MaxCalls
NoSession == 0
NoRun == 0

\* A merchant is private to the session that onboarded it.
Merchants == [session : Ids, k : 1..MaxOnboarded]
Onboarded == {m \in Merchants : m.session \in DOMAIN judge /\ m.k <= judge[m.session].onboarded}

\* A run is held when it has a capability and no result of its execution, presented
\* when it has both, and done without a capability.
RunStates == {"running", "held", "presented", "review", "done"}
Pcs == {"idle", "onboard", "start", "record", "authorize", "act", "acting", "given", "refused"}

Nonces == Requests \X (0..MaxRounds)
\* decision_nonce: of the first evaluation, or of a round of the recovery.
Nonce(r, round) == <<runs[r].request, round>>

\* What a visitor buys: the first evaluation of a request, or a round of its recovery.
Purchases == Requests \X (0..MaxRounds)
Purchase(r, round) == <<runs[r].request, round>>

SetOf(seq) == {seq[i] : i \in DOMAIN seq}
Retained == SetOf(retained)

NewSession == [seen |-> now, window |-> << >>, onboarded |-> 0]
NewRun(h) ==
  [op |-> h.op, request |-> h.request, content |-> h.content, session |-> h.session,
   state |-> "running", round |-> 0]

\* Any id that was minted may be sent, or none.
Headers == {NoSession} \union DOMAIN judge

\* A scenario of the sandbox is an "authorize" whose listing the server selects;
\* "scenario" is one of the registered presets.
Call(op, session, request, content, pc) ==
  [op |-> op, session |-> session, request |-> request, content |-> content,
   run |-> calls + 1, pc |-> pc]

Entering(session) == [pc |-> "onboard", session |-> session]
Idle == [pc |-> "idle"]
Go(t, pc) == http' = [http EXCEPT ![t].pc = pc]

\* What a caller is answered about a run; the rest of the request is done with.
Answer(pc, caller, r) == [pc |-> pc, caller |-> caller, run |-> r]
Give(t, caller, r) == http' = [http EXCEPT ![t] = Answer("given", caller, r)]
Refuse(t, caller, r) == http' = [http EXCEPT ![t] = Answer("refused", caller, r)]
End(t) == http' = [http EXCEPT ![t] = Idle]

-----------------------------------------------------------------------------
(* JudgeSessionRegistry *)

\* _expire
Unexpired == {s \in live : judge[s].seen >= now - TTL}

\* get
Seen(s) ==
  /\ live' = Unexpired
  /\ judge' = [judge EXCEPT ![s].seen = now]

\* create: at the limit, a least recently seen session makes room.
Created(s) ==
  LET oldest == {o \in Unexpired : \A other \in Unexpired : judge[o].seen <= judge[other].seen}
  IN /\ judge' = [x \in DOMAIN judge \union {s} |-> IF x = s THEN NewSession ELSE judge[x]]
     /\ IF Cardinality(Unexpired) >= MaxSessions
        THEN \E o \in oldest : live' = (Unexpired \ {o}) \union {s}
        ELSE live' = Unexpired \union {s}

-----------------------------------------------------------------------------
(* Requests that start a run *)

Serve(t, call) ==
  /\ http' = [http EXCEPT ![t] = call]
  /\ calls' = calls + 1
Free(t) == http[t].pc \in {"idle", "given", "refused"} /\ calls < MaxCalls

\* POST /runs knows no session.
ArriveStart(t) ==
  /\ Free(t)
  /\ \E q \in Requests, product \in Products :
       Serve(t, Call("commerce", NoSession, q, product, "start"))
  /\ UNCHANGED <<now, restarts, live, judge, retained, runs, requests, spent, orders>>

\* The playground's routes open a session first: that of the header, or a new one
\* (resolve_or_create).
OpenSession(t) ==
  /\ Free(t)
  /\ \E header \in Headers :
       LET found == header \in Unexpired
           session == IF found THEN header ELSE calls + 1
       IN /\ IF found THEN Seen(header) ELSE Created(session)
          /\ \/ \E q \in Requests, content \in Products \union Onboarded :
                  Serve(t, Call("authorize", session, q, content, "start"))
             \/ \E q \in Requests, product \in Products :
                  Serve(t, Call("scenario", session, q, product, "start"))
             \/ Serve(t, Entering(session))
  /\ UNCHANGED <<now, restarts, retained, runs, requests, spent, orders>>

\* The request is malformed, names no spending limit, no available mode, or a merchant
\* that is not this session's.
Reject(t) ==
  /\ http[t].pc \in {"start", "onboard"}
  /\ End(t)
  /\ UNCHANGED <<now, calls, restarts, live, judge, retained, runs, requests, spent, orders>>

\* add_onboarded, into the session object: it may have left the table meanwhile.
Onboard(t) ==
  LET h == http[t] IN
  /\ h.pc = "onboard"
  /\ IF judge[h.session].onboarded < MaxOnboarded
     THEN judge' = [judge EXCEPT ![h.session].onboarded = @ + 1]
     ELSE UNCHANGED judge
  /\ End(t)
  /\ UNCHANGED <<now, calls, restarts, live, retained, runs, requests, spent, orders>>

-----------------------------------------------------------------------------
(* CommerceLabService.start_run *)

\* Faulty: the request ids of an evicted run stay.
ForgottenNone(sequence) == {}

\* _evict_oldest_runs, RUNNING ones and their request ids included.
Kept(sequence) ==
  IF Len(sequence) > MaxRetained
  THEN SubSeq(sequence, Len(sequence) - MaxRetained + 1, Len(sequence)) ELSE sequence
Forgotten(sequence) ==
  {q \in Requests : requests[q] \in SetOf(sequence) \ SetOf(Kept(sequence))}

\* Faulty: whoever repeats the request is given its run.
SameRequestOfAnyone(h, r) == runs[r].op = h.op /\ runs[r].content = h.content

SameRequest(h, r) ==
  runs[r].op = h.op /\ runs[r].content = h.content /\ runs[r].session = h.session

\* plan_for: a listing of the sandbox, or of a merchant of this session.
Known(h) == h.content \in Products \union {m \in Onboarded : m.session = h.session}

\* Planning reads what only grows, so it is one step with the start.  The thread of a
\* new run starts after the lock was released: Decide is free to wait.
StartRun(t) ==
  LET h == http[t]
      existing == requests[h.request]
      grown == Append(retained, h.run)
  IN /\ h.pc = "start"
     /\ Known(h)
     /\ \/ /\ existing # NoRun /\ SameRequest(h, existing)
           /\ IF h.op = "scenario"
              THEN http' = [http EXCEPT ![t].run = existing, ![t].pc = "record"]
              ELSE Give(t, h.session, existing)
           /\ UNCHANGED <<retained, runs, requests>>
        \/ /\ existing # NoRun /\ ~SameRequest(h, existing)
           /\ End(t)
           /\ UNCHANGED <<retained, runs, requests>>
        \/ /\ existing = NoRun
           /\ runs' = [r \in DOMAIN runs \union {h.run} |->
                IF r = h.run THEN NewRun(h) ELSE runs[r]]
           /\ retained' = Kept(grown)
           /\ requests' = [q \in Requests |->
                IF q = h.request THEN h.run
                ELSE IF q \in Forgotten(grown) THEN NoRun ELSE requests[q]]
           /\ IF h.op = "commerce"
              THEN Give(t, NoSession, h.run)
              ELSE http' = [http EXCEPT ![t].run = h.run, ![t].pc = "record"]
     /\ UNCHANGED <<now, calls, restarts, live, judge, spent, orders>>

\* Faulty: the window is cut only when it is already too long.
RecordRunLate(t) ==
  LET h == http[t]
      window == judge[h.session].window
  IN /\ h.pc = "record"
     /\ judge' = [judge EXCEPT ![h.session].window =
          Append(IF Len(window) > MaxWindow THEN Tail(window) ELSE window, h.run)]
     /\ Give(t, h.session, h.run)
     /\ UNCHANGED <<now, calls, restarts, live, retained, runs, requests, spent, orders>>

RecordRun(t) ==
  LET h == http[t]
      window == judge[h.session].window
  IN /\ h.pc = "record"
     /\ judge' = [judge EXCEPT ![h.session].window =
          Append(IF Len(window) >= MaxWindow THEN Tail(window) ELSE window, h.run)]
     /\ Give(t, h.session, h.run)
     /\ UNCHANGED <<now, calls, restarts, live, retained, runs, requests, spent, orders>>

-----------------------------------------------------------------------------
(* Requests about a run *)

\* _guard_run: get_run
GuardRun(t) ==
  /\ Free(t)
  /\ \E header \in Headers, r \in DOMAIN runs :
       Serve(t, Answer(IF r \in Retained THEN "authorize" ELSE "refused", header, r))
  /\ UNCHANGED <<now, restarts, live, judge, retained, runs, requests, spent, orders>>

Owner(header, r) == header = runs[r].session

\* authorize_run_access: a run without a session is everybody's; the session is
\* resolved, and thereby seen, before it is compared.
AuthorizeRunAccess(t) ==
  LET h == http[t] IN
  /\ h.pc = "authorize"
  /\ \/ /\ runs[h.run].session = NoSession
        /\ Go(t, "act")
        /\ UNCHANGED <<live, judge>>
     \/ /\ runs[h.run].session # NoSession
        /\ h.caller \in Unexpired
        /\ Seen(h.caller)
        /\ IF Owner(h.caller, h.run) THEN Go(t, "act") ELSE Refuse(t, h.caller, h.run)
     \/ /\ runs[h.run].session # NoSession
        /\ h.caller \notin Unexpired
        /\ live' = IF h.caller = NoSession THEN live ELSE Unexpired
        /\ Refuse(t, h.caller, h.run)
        /\ UNCHANGED judge
  /\ UNCHANGED <<now, calls, restarts, retained, runs, requests, spent, orders>>

\* The operation looks the run up again, and holds its object from then on.
ActTooLate(t) ==
  /\ http[t].pc = "act"
  /\ http[t].run \notin Retained
  /\ Refuse(t, http[t].caller, http[t].run)
  /\ UNCHANGED <<now, calls, restarts, live, judge, retained, runs, requests, spent, orders>>

ActInTime(t) ==
  /\ http[t].pc = "act"
  /\ http[t].run \in Retained
  /\ Go(t, "acting")
  /\ UNCHANGED <<now, calls, restarts, live, judge, retained, runs, requests, spent, orders>>

\* execute_razorpay_order with the capability of r, issued in that round: refused before
\* the nonce is reserved, or its guard busy; or the nonce is reserved, with an order or
\* without.  A spent nonce is refused.
Present(r, round) ==
  \/ UNCHANGED <<spent, orders>>
  \/ /\ Nonce(r, round) \notin spent
     /\ spent' = spent \union {Nonce(r, round)}
     /\ \/ orders' = [orders EXCEPT ![Purchase(r, round)] = Append(@, r)]
        \/ UNCHANGED orders

\* What only reads or revokes, and an operation the run is not in a state for.
ActElse(t) ==
  /\ http[t].pc = "acting"
  /\ Give(t, http[t].caller, http[t].run)
  /\ UNCHANGED <<now, calls, restarts, live, judge, retained, runs, requests, spent, orders>>

\* attempt_execution, and attempt_mutated_execution: a mutated price may be the
\* authorized one.  A call that raises leaves no result, and the run executable.
ActExecute(t) ==
  LET r == http[t].run IN
  /\ http[t].pc = "acting"
  /\ runs[r].state = "held"
  /\ Present(r, runs[r].round)
  /\ \E s \in {"presented", "held"} : runs' = [runs EXCEPT ![r].state = s]
  /\ Give(t, http[t].caller, r)
  /\ UNCHANGED <<now, calls, restarts, live, judge, retained, requests>>

\* replay, of an executed run or of one that never was.
ActReplay(t) ==
  LET r == http[t].run IN
  /\ http[t].pc = "acting"
  /\ runs[r].state \in {"held", "presented"}
  /\ Present(r, runs[r].round)
  /\ Give(t, http[t].caller, r)
  /\ UNCHANGED <<now, calls, restarts, live, judge, retained, runs, requests>>

\* Faulty: the review counts as open until its capability was executed.
RecoverableUntilExecuted(r) ==
  runs[r].state \in {"review", "held"} /\ runs[r].round < MaxRounds

Recoverable(r) == runs[r].state = "review" /\ runs[r].round < MaxRounds

Recovered(r, state) ==
  runs' = [runs EXCEPT ![r].round = @ + 1, ![r].state = state]

\* recover: a round, and what follows when it allows.  A presentation that raises leaves
\* the review resolved and the run without the capability.
ActRecover(t) ==
  LET r == http[t].run IN
  /\ http[t].pc = "acting"
  /\ Recoverable(r)
  /\ \/ /\ \E s \in {"presented", "done"} : Recovered(r, s)
        /\ Present(r, runs[r].round + 1)
     \/ /\ \E s \in {"held", "review", "done"} : Recovered(r, s)
        /\ UNCHANGED <<spent, orders>>
  /\ Give(t, http[t].caller, r)
  /\ UNCHANGED <<now, calls, restarts, live, judge, retained, requests>>

-----------------------------------------------------------------------------
(* The threads of the runs, which hold their run objects *)

\* ALLOW with a deferred execution, REVIEW, or the end.
Decide(r) ==
  /\ runs[r].state = "running"
  /\ \E s \in {"held", "review", "done"} : runs' = [runs EXCEPT ![r].state = s]
  /\ UNCHANGED <<now, calls, restarts, live, judge, retained, requests, http, spent, orders>>

\* ALLOW: the execution gives a result, raises into none, or ends the run.
Pay(r) ==
  /\ runs[r].state = "running"
  /\ Present(r, 0)
  /\ \E s \in {"presented", "held", "done"} : runs' = [runs EXCEPT ![r].state = s]
  /\ UNCHANGED <<now, calls, restarts, live, judge, retained, requests, http>>

-----------------------------------------------------------------------------
\* A session is live, and a request may still read the clock to expire it.
ClockMatters ==
  live # {} /\ (calls < MaxCalls \/ \E t \in Threads : http[t].pc = "authorize")

Tick ==
  /\ now < MaxTime
  /\ ClockMatters
  /\ now' = now + 1
  /\ UNCHANGED <<calls, restarts, live, judge, retained, runs, requests, http, spent, orders>>

\* Every table and thread is gone.
Forget ==
  /\ live' = {}
  /\ retained' = << >>
  /\ requests' = [q \in Requests |-> NoRun]
  /\ http' = [t \in Threads |-> Idle]
  /\ runs' = << >>
  /\ judge' = << >>

Restart ==
  /\ restarts < MaxRestarts /\ calls > 0
  /\ restarts' = restarts + 1
  /\ Forget
  /\ UNCHANGED <<now, calls, spent, orders>>

-----------------------------------------------------------------------------
Init ==
  /\ now = 0 /\ calls = 0 /\ restarts = 0
  /\ live = {}
  /\ judge = << >>
  /\ retained = << >>
  /\ runs = << >>
  /\ requests = [q \in Requests |-> NoRun]
  /\ http = [t \in Threads |-> Idle]
  /\ spent = {}
  /\ orders = [p \in Purchases |-> << >>]

Next ==
  \/ \E t \in Threads :
       \/ ArriveStart(t) \/ OpenSession(t) \/ Reject(t) \/ Onboard(t)
       \/ StartRun(t) \/ RecordRun(t)
       \/ GuardRun(t) \/ AuthorizeRunAccess(t)
       \/ ActTooLate(t) \/ ActInTime(t) \/ ActElse(t)
       \/ ActExecute(t) \/ ActReplay(t) \/ ActRecover(t)
  \/ \E r \in DOMAIN runs : Decide(r) \/ Pay(r)
  \/ Tick \/ Restart

Spec == Init /\ [][Next]_vars

-----------------------------------------------------------------------------
(* Properties *)

\* The type invariant: the tables have their types and keep their limits.
TablesKeepLimits ==
  /\ now \in 0..MaxTime /\ calls \in 0..MaxCalls /\ restarts \in 0..MaxRestarts
  /\ Cardinality(live) <= MaxSessions
  /\ live \subseteq DOMAIN judge
  /\ \A s \in DOMAIN judge :
       /\ judge[s].seen \in 0..now
       /\ Len(judge[s].window) <= MaxWindow
       /\ judge[s].onboarded \in 0..MaxOnboarded
  /\ DOMAIN runs \subseteq Ids
  /\ \A r \in DOMAIN runs : runs[r].state \in RunStates /\ runs[r].round \in 0..MaxRounds
  /\ Len(retained) <= MaxRetained /\ Retained \subseteq DOMAIN runs
  /\ requests \in [Requests -> Ids \union {NoRun}]
  /\ \A t \in Threads : http[t].pc \in Pcs
  /\ spent \subseteq Nonces

\* Idempotence has a memory as long as the run's: a request id leads to a retained
\* run of that request, and a retained run can be found by its request id.  So two
\* runs of one request id are never retained together, and a retry never finds the
\* id of a run that is gone.
RequestsNameRetainedRuns ==
  /\ \A q \in Requests :
       requests[q] # NoRun => requests[q] \in Retained /\ runs[requests[q]].request = q
  /\ \A r \in Retained : requests[runs[r].request] = r

\* Who is given a run of a session is that session, also by a retry and after the
\* session left its table, and the run is about a listing that session may name.
\* Who is refused a run is not its owner: a live session reaches its retained runs,
\* however many later ones it has.
RunsAreTheirOwners ==
  \A t \in Threads :
    LET h == http[t] IN
      /\ h.pc = "given" =>
           /\ runs[h.run].session \in {NoSession, h.caller}
           /\ runs[h.run].content \in Products \/ runs[h.run].content.session = h.caller
      /\ h.pc = "refused" =>
           ~ /\ h.run \in Retained
             /\ runs[h.run].session \in {NoSession} \union ({h.caller} \intersect live)

\* Whatever is retried, evicted or restarted, the first evaluation of a request pays
\* once, and so does each round of its recovery: the run that repeats the request has
\* the nonce of the run that is gone, and the ledger remembers it.  And a run pays once
\* in its life, over its own execution, deferred executions that failed, mutations,
\* replays and recoveries, in whatever round its capability was issued.
PaidOnce ==
  /\ \A p \in Purchases : Len(orders[p]) <= 1
  /\ \A p, other \in Purchases : SetOf(orders[p]) \intersect SetOf(orders[other]) # {} => p = other
=============================================================================
