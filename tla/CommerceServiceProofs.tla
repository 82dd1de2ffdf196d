------------------------ MODULE CommerceServiceProofs ------------------------
(***************************************************************************)
(* Theorems about the shared tables of the commerce lab, for any number of *)
(* threads, sessions, runs, retries and restarts, and for any limits.      *)
(*                                                                         *)
(* Every session and every run has an id of its own, minted by the request *)
(* that made it, so nothing that was evicted comes back.  A nonce is spent *)
(* before its order is created, which pays for a request id over all its   *)
(* runs.  A run gets one capability, of the round it has then, and has     *)
(* that round for good: whatever executes it spends the same nonce.        *)
(***************************************************************************)
EXTENDS CommerceService, FiniteSetTheorems, TLAPS

SessionType == [seen : Nat, window : Seq(Ids), onboarded : 0..MaxOnboarded]

RunType ==
  [op : {"commerce", "authorize", "scenario"}, request : Requests,
   content : Products \union Merchants, session : Ids \union {NoSession},
   state : RunStates, round : 0..MaxRounds]

EnteringType == [pc : {"onboard"}, session : Ids]

CallType ==
  [op : {"commerce", "authorize", "scenario"}, session : Ids \union {NoSession},
   request : Requests, content : Products \union Merchants, run : Ids, pc : Pcs]

AnswerType == [pc : Pcs, caller : Ids \union {NoSession}, run : Ids]

Counters ==
  /\ now \in Nat /\ calls \in Nat /\ restarts \in Nat
  /\ now <= MaxTime /\ calls <= MaxCalls /\ restarts <= MaxRestarts

Sessions ==
  /\ DOMAIN judge \subseteq 1..calls
  /\ \A s \in DOMAIN judge :
       judge[s] \in SessionType /\ judge[s].seen <= now /\ Len(judge[s].window) <= MaxWindow
  /\ live \subseteq DOMAIN judge /\ IsFiniteSet(live) /\ Cardinality(live) <= MaxSessions

\* A run's listing is everybody's or of the session that started it, and its rounds
\* come after its first evaluation.
RunRows ==
  /\ DOMAIN runs \subseteq 1..calls
  /\ \A r \in DOMAIN runs :
       /\ runs[r] \in RunType
       /\ runs[r].content \in Products \/ runs[r].content \in Merchants
       /\ runs[r].content \in Products \/ runs[r].content.session = runs[r].session
       /\ runs[r].state = "running" => runs[r].round = 0

Tables ==
  /\ retained \in Seq(Ids) /\ Len(retained) <= MaxRetained /\ Retained \subseteq DOMAIN runs
  /\ requests \in [Requests -> Ids \union {NoRun}]
  /\ RequestsNameRetainedRuns

\* A run that is evaluated for good, in the round of this purchase.
PaidUnder(row, purchase) ==
  row.state \in {"held", "presented", "done"} /\ purchase = <<row.request, row.round>>

\* A run pays once it is resolved, in the round it was resolved in, with the nonce of
\* that request and round, which is spent.
Payments ==
  /\ spent \subseteq Nonces /\ DOMAIN orders = Purchases
  /\ \A n \in Purchases :
       /\ orders[n] \in Seq(Ids) /\ Len(orders[n]) <= 1
       /\ n \notin spent => orders[n] = << >>
       /\ \A r \in SetOf(orders[n]) :
            r \in 1..calls /\ (r \in DOMAIN runs => PaidUnder(runs[r], n))
  /\ \A n, m \in Purchases : SetOf(orders[n]) \intersect SetOf(orders[m]) # {} => n = m

Unpaid(r) == \A n \in Purchases : r \notin SetOf(orders[n])

Reaches(caller, r) ==
  r \in Retained /\ runs[r].session \in {NoSession} \union ({caller} \intersect live)

Serving(t) ==
  LET h == http[t] IN
  /\ h.pc \in Pcs
  /\ h.pc = "onboard" => h \in EnteringType /\ h.session \in DOMAIN judge
  /\ h.pc \in {"start", "record"} =>
       /\ h \in CallType
       /\ h.op = "commerce" => h.session = NoSession
       /\ h.op # "commerce" => h.session \in DOMAIN judge
  /\ h.pc = "start" => h.run \in 1..calls /\ h.run \notin DOMAIN runs /\ Unpaid(h.run)
  /\ h.pc = "record" =>
       h.op # "commerce" /\ h.run \in DOMAIN runs /\ runs[h.run].session = h.session
  /\ h.pc \in {"authorize", "act", "acting", "given", "refused"} =>
       h \in AnswerType /\ h.run \in DOMAIN runs /\ h.caller \in {NoSession} \union DOMAIN judge
  /\ h.pc \in {"act", "acting", "given"} => runs[h.run].session \in {NoSession, h.caller}
  /\ h.pc = "refused" => ~Reaches(h.caller, h.run)

OwnRuns ==
  \A t, u \in Threads :
    http[t].pc = "start" /\ http[u].pc = "start" /\ http[t].run = http[u].run => t = u

Servers == DOMAIN http = Threads /\ (\A t \in Threads : Serving(t)) /\ OwnRuns

ServiceInvariant == Counters /\ Sessions /\ RunRows /\ Tables /\ Payments /\ Servers

(* How the threads that do not move fare *)

LEMMA ServingKept ==
  ASSUME ServiceInvariant, NEW u \in Threads, http'[u] = http[u],
         calls' \in Nat, calls <= calls',
         DOMAIN judge \subseteq DOMAIN judge', DOMAIN runs \subseteq DOMAIN runs',
         \A r \in DOMAIN runs : runs'[r].session = runs[r].session,
         http[u].pc = "start" => http[u].run \notin DOMAIN runs' /\ Unpaid(http[u].run)',
         \A s \in DOMAIN judge : s \in live' => s \in live,
         NoSession \notin live',
         \A r \in DOMAIN runs : r \in Retained' => r \in Retained
  PROVE  Serving(u)'
<1> DEFINE h == http[u]
<1>1. Serving(u) /\ calls \in Nat
  BY DEF ServiceInvariant, Servers, Counters
<1>2. http'[u] = h
  OBVIOUS
<1>3. h.pc \in Pcs
  BY <1>1 DEF Serving
<1>4. h.pc = "onboard" => h \in EnteringType /\ h.session \in DOMAIN judge'
  BY <1>1 DEF Serving
<1>5. h.pc \in {"start", "record"} =>
        /\ h \in CallType
        /\ h.op = "commerce" => h.session = NoSession
        /\ h.op # "commerce" => h.session \in DOMAIN judge'
  BY <1>1 DEF Serving
<1>6. h.pc = "start" => h.run \in 1..calls' /\ h.run \notin DOMAIN runs' /\ Unpaid(h.run)'
  <2>1. h.pc = "start" => h.run \in 1..calls
    BY <1>1 DEF Serving
  <2>2. 1..calls \subseteq 1..calls'
    BY <1>1
  <2> QED BY <2>1, <2>2
<1>7. h.pc = "record" =>
        h.op # "commerce" /\ h.run \in DOMAIN runs' /\ runs'[h.run].session = h.session
  BY <1>1 DEF Serving
<1>8. h.pc \in {"authorize", "act", "acting", "given", "refused"} =>
        /\ h \in AnswerType /\ h.run \in DOMAIN runs /\ h.run \in DOMAIN runs'
        /\ h.caller \in {NoSession} \union DOMAIN judge
        /\ h.caller \in {NoSession} \union DOMAIN judge'
        /\ runs'[h.run].session = runs[h.run].session
  BY <1>1 DEF Serving
<1>9. h.pc \in {"act", "acting", "given"} => runs'[h.run].session \in {NoSession, h.caller}
  BY <1>1, <1>8 DEF Serving
<1>10. h.pc = "refused" => ~Reaches(h.caller, h.run)'
  <2> SUFFICES ASSUME h.pc = "refused", Reaches(h.caller, h.run)' PROVE FALSE
    OBVIOUS
  <2>1. h.run \in Retained' /\ runs'[h.run].session \in {NoSession} \union ({h.caller} \intersect live')
    BY DEF Reaches
  <2>2. h.run \in Retained /\ (h.caller \in live' => h.caller \in live)
    BY <1>8, <2>1
  <2>3. Reaches(h.caller, h.run)
    BY <1>8, <2>1, <2>2 DEF Reaches
  <2> QED BY <1>1, <2>3 DEF Serving
<1> QED BY <1>2, <1>3, <1>4, <1>5, <1>6, <1>7, <1>8, <1>9, <1>10 DEF Serving

\* A thread goes on; what it does to the tables is bounded by what it holds.
LEMMA ServersKept ==
  ASSUME ServiceInvariant, NEW t \in Threads, NEW g, http' = [http EXCEPT ![t] = g],
         calls' \in Nat, calls <= calls',
         DOMAIN judge \subseteq DOMAIN judge', DOMAIN runs \subseteq DOMAIN runs',
         \A r \in DOMAIN runs : runs'[r].session = runs[r].session,
         \A r \in DOMAIN runs' : r \in DOMAIN runs \/ (http[t].pc = "start" /\ r = http[t].run),
         \A r : Unpaid(r)' \/ ~Unpaid(r) \/ r \in DOMAIN runs,
         \A s \in DOMAIN judge : s \in live' => s \in live,
         NoSession \notin live',
         \A r \in DOMAIN runs : r \in Retained' => r \in Retained,
         g.pc = "start" => g.run = calls + 1,
         Serving(t)'
  PROVE  Servers'
<1>1. DOMAIN http = Threads /\ OwnRuns /\ calls \in Nat /\ \A u \in Threads : Serving(u)
  BY DEF ServiceInvariant, Servers, Counters
<1>2. DOMAIN http' = Threads /\ http'[t] = g /\ \A u \in Threads : u # t => http'[u] = http[u]
  BY <1>1
<1>3. ASSUME NEW u \in Threads, u # t
      PROVE  Serving(u)'
  <2>1. http'[u] = http[u]
    BY <1>2, <1>3
  <2>2. ASSUME http[u].pc = "start"
        PROVE  http[u].run \notin DOMAIN runs' /\ Unpaid(http[u].run)'
    <3>1. http[u].run \notin DOMAIN runs /\ Unpaid(http[u].run)
      BY <1>1, <2>2 DEF Serving
    <3>2. http[t].pc = "start" => http[t].run # http[u].run
      BY <1>1, <1>3, <2>2 DEF OwnRuns
    <3>3. http[u].run \notin DOMAIN runs'
      BY <3>1, <3>2
    <3>4. ASSUME NEW r, r = http[u].run
          PROVE  Unpaid(r)'
      BY <3>1, <3>4
    <3> QED BY <2>1, <3>3, <3>4
  <2> QED BY <2>1, <2>2, ServingKept
<1>4. \A u \in Threads : http[u].pc = "start" => http[u].run \in 1..calls
  BY <1>1 DEF Serving
<1>5. OwnRuns'
  <2>1. \A u \in Threads : http[u].pc = "start" => http[u].run # calls + 1
    BY <1>1, <1>4
  <2> SUFFICES ASSUME NEW a \in Threads, NEW b \in Threads, http'[a].pc = "start",
                      http'[b].pc = "start", http'[a].run = http'[b].run
               PROVE  a = b
    BY DEF OwnRuns
  <2>2. CASE a # t /\ b # t
    BY <1>1, <1>2, <2>2 DEF OwnRuns
  <2>3. CASE a = t /\ b # t
    BY <1>2, <2>1, <2>3
  <2>4. CASE a # t /\ b = t
    BY <1>2, <2>1, <2>4
  <2> QED BY <2>2, <2>3, <2>4
<1> QED BY <1>2, <1>3, <1>5 DEF Servers

(* The tables of the sessions *)

LEMMA UnexpiredIsLive ==
  ASSUME Sessions
  PROVE  /\ Unexpired \subseteq live /\ Unexpired \subseteq DOMAIN judge
         /\ IsFiniteSet(Unexpired) /\ Cardinality(Unexpired) \in Nat
         /\ Cardinality(Unexpired) <= MaxSessions
<1>1. Unexpired \subseteq live /\ live \subseteq DOMAIN judge /\ IsFiniteSet(live)
        /\ Cardinality(live) <= MaxSessions
  BY DEF Unexpired, Sessions
<1>2. IsFiniteSet(Unexpired) /\ Cardinality(Unexpired) <= Cardinality(live)
  BY <1>1, FS_Subset
<1>3. Cardinality(Unexpired) \in Nat /\ Cardinality(live) \in Nat /\ MaxSessions \in Nat
  BY <1>1, <1>2, FS_CardinalityType, ServiceAssumption
<1> QED BY <1>1, <1>2, <1>3

LEMMA ExpiryKeepsSessions ==
  ASSUME Counters, Sessions, live' \in {live, Unexpired}, judge' = judge, now' = now,
         calls' \in Nat, calls <= calls'
  PROVE  Sessions' /\ \A s \in DOMAIN judge : s \in live' => s \in live
<1>1. 1..calls \subseteq 1..calls'
  BY DEF Counters
<1>2. live' \subseteq live /\ live' \subseteq DOMAIN judge /\ IsFiniteSet(live')
        /\ Cardinality(live') <= MaxSessions
  BY UnexpiredIsLive DEF Sessions
<1> QED BY <1>1, <1>2 DEF Sessions

LEMMA SeenKeepsSessions ==
  ASSUME Counters, Sessions, NEW s \in Unexpired, Seen(s), now' = now,
         calls' \in Nat, calls <= calls'
  PROVE  /\ Sessions' /\ DOMAIN judge' = DOMAIN judge
         /\ \A x \in DOMAIN judge : x \in live' => x \in live
<1> DEFINE row == [judge[s] EXCEPT !.seen = now]
<1>1. 1..calls \subseteq 1..calls' /\ now \in Nat
  BY DEF Counters
<1>2. live' = Unexpired /\ judge' = [judge EXCEPT ![s] = row] /\ s \in DOMAIN judge
  BY UnexpiredIsLive DEF Seen
<1>3. live' \subseteq live /\ live' \subseteq DOMAIN judge /\ IsFiniteSet(live')
        /\ Cardinality(live') <= MaxSessions
  BY <1>2, UnexpiredIsLive
<1>4. judge[s] \in SessionType /\ Len(judge[s].window) <= MaxWindow
  BY <1>2 DEF Sessions
<1>5. row \in SessionType /\ row.seen = now /\ row.window = judge[s].window
  BY <1>1, <1>4 DEF SessionType
<1> HIDE DEF row
<1>6. DOMAIN judge' = DOMAIN judge /\ judge'[s] = row
        /\ \A x \in DOMAIN judge : x # s => judge'[x] = judge[x]
  BY <1>2
<1>7. \A x \in DOMAIN judge :
        judge'[x] \in SessionType /\ judge'[x].seen <= now /\ Len(judge'[x].window) <= MaxWindow
  <2> SUFFICES ASSUME NEW x \in DOMAIN judge
               PROVE  judge'[x] \in SessionType /\ judge'[x].seen <= now
                        /\ Len(judge'[x].window) <= MaxWindow
    OBVIOUS
  <2>1. CASE x = s
    BY <1>1, <1>4, <1>5, <1>6, <2>1
  <2>2. CASE x # s
    BY <1>6, <2>2 DEF Sessions
  <2> QED BY <2>1, <2>2
<1>8. DOMAIN judge \subseteq 1..calls'
  BY <1>1 DEF Sessions
<1>9. Sessions'
  BY <1>3, <1>6, <1>7, <1>8 DEF Sessions
<1> QED BY <1>3, <1>6, <1>9

\* At the limit a session leaves before the new one enters.
LEMMA CreatedKeepsSessions ==
  ASSUME Counters, Sessions, Created(calls + 1), now' = now, calls' = calls + 1
  PROVE  /\ Sessions' /\ DOMAIN judge' = DOMAIN judge \union {calls + 1}
         /\ \A x \in DOMAIN judge : x \in live' => x \in live
<1> DEFINE s == calls + 1
<1>1. calls \in Nat /\ now \in Nat /\ MaxSessions \in Nat /\ MaxSessions # 0 /\ MaxOnboarded \in Nat
        /\ MaxWindow \in Nat
  BY ServiceAssumption DEF Counters
<1>2. 1..calls \subseteq 1..calls' /\ s \in 1..calls' /\ s \notin 1..calls
  BY <1>1
<1>3. s \notin DOMAIN judge /\ DOMAIN judge \subseteq 1..calls
  BY <1>2 DEF Sessions
<1>4. /\ Unexpired \subseteq live /\ Unexpired \subseteq DOMAIN judge /\ IsFiniteSet(Unexpired)
      /\ Cardinality(Unexpired) \in Nat /\ Cardinality(Unexpired) <= MaxSessions
  BY UnexpiredIsLive
<1>5. judge' = [x \in DOMAIN judge \union {s} |-> IF x = s THEN NewSession ELSE judge[x]]
  BY DEF Created
<1>6. NewSession \in SessionType /\ NewSession.seen = now /\ NewSession.window = << >>
  BY <1>1 DEF NewSession, SessionType
<1>7. DOMAIN judge' = DOMAIN judge \union {s} /\ judge'[s] = NewSession
        /\ \A x \in DOMAIN judge : judge'[x] = judge[x]
  BY <1>3, <1>5
<1>8. \A x \in DOMAIN judge' :
        judge'[x] \in SessionType /\ judge'[x].seen <= now /\ Len(judge'[x].window) <= MaxWindow
  <2> SUFFICES ASSUME NEW x \in DOMAIN judge'
               PROVE  judge'[x] \in SessionType /\ judge'[x].seen <= now
                        /\ Len(judge'[x].window) <= MaxWindow
    OBVIOUS
  <2>1. CASE x = s
    BY <1>1, <1>6, <1>7, <2>1
  <2>2. CASE x \in DOMAIN judge
    BY <1>7, <2>2 DEF Sessions
  <2> QED BY <1>7, <2>1, <2>2
<1>9. PICK rest \in SUBSET Unexpired :
        live' = rest \union {s} /\ Cardinality(rest) + 1 <= MaxSessions
  <2>1. CASE Cardinality(Unexpired) >= MaxSessions
    <3>1. PICK o \in Unexpired : live' = (Unexpired \ {o}) \union {s}
      BY <2>1 DEF Created
    <3>2. Cardinality(Unexpired \ {o}) = Cardinality(Unexpired) - 1
      BY <1>4, <3>1, FS_RemoveElement
    <3>3. Cardinality(Unexpired \ {o}) + 1 <= MaxSessions
      BY <1>1, <1>4, <3>2
    <3> QED BY <3>1, <3>3
  <2>2. CASE ~(Cardinality(Unexpired) >= MaxSessions)
    <3>1. live' = Unexpired \union {s}
      BY <2>2 DEF Created
    <3>2. Cardinality(Unexpired) + 1 <= MaxSessions
      BY <1>1, <1>4, <2>2
    <3> QED BY <3>1, <3>2
  <2> QED BY <2>1, <2>2
<1>10. IsFiniteSet(rest) /\ Cardinality(rest) \in Nat /\ s \notin rest
  BY <1>3, <1>4, <1>9, FS_Subset, FS_CardinalityType
<1>11. IsFiniteSet(live') /\ Cardinality(live') = Cardinality(rest) + 1
  BY <1>9, <1>10, FS_AddElement
<1>12. live' \subseteq DOMAIN judge' /\ Cardinality(live') <= MaxSessions
  BY <1>4, <1>7, <1>9, <1>11
<1>13. DOMAIN judge' \subseteq 1..calls'
  BY <1>2, <1>3, <1>7
<1>14. Sessions'
  BY <1>8, <1>11, <1>12, <1>13 DEF Sessions
<1>15. \A x \in DOMAIN judge : x \in live' => x \in live
  BY <1>3, <1>4, <1>9
<1> QED BY <1>7, <1>14, <1>15

(* Steps that leave runs, request ids and payments alone *)

LEMMA TablesKept ==
  ASSUME Counters, RunRows, Tables, Payments, UNCHANGED <<retained, runs, requests, spent, orders>>,
         calls' \in Nat, calls <= calls'
  PROVE  RunRows' /\ Tables' /\ Payments'
<1>1. 1..calls \subseteq 1..calls'
  BY DEF Counters
<1>2. RunRows'
  BY <1>1 DEF RunRows
<1>3. Tables'
  BY DEF Tables, Retained, SetOf, RequestsNameRetainedRuns
<1>4. Payments'
  <2>1. runs' = runs /\ spent' = spent /\ orders' = orders
    OBVIOUS
  <2>2. ASSUME NEW n \in Purchases
        PROVE  /\ orders[n] \in Seq(Ids) /\ Len(orders[n]) <= 1
               /\ n \notin spent => orders[n] = << >>
               /\ \A r \in SetOf(orders[n]) :
                    r \in 1..calls' /\ (r \in DOMAIN runs => PaidUnder(runs[r], n))
    BY <1>1 DEF Payments
  <2>3. ASSUME NEW n
        PROVE  SetOf(orders[n])' = SetOf(orders[n])
    BY <2>1 DEF SetOf
  <2> QED BY <2>1, <2>2, <2>3 DEF Payments
<1> QED BY <1>2, <1>3, <1>4

LEMMA SessionsMove ==
  ASSUME ServiceInvariant, NEW t \in Threads, NEW g, http' = [http EXCEPT ![t] = g],
         UNCHANGED <<now, restarts, retained, runs, requests, spent, orders>>,
         calls' \in {calls, calls + 1}, calls' <= MaxCalls,
         Sessions', DOMAIN judge \subseteq DOMAIN judge',
         \A s \in DOMAIN judge : s \in live' => s \in live,
         g.pc = "start" => g.run = calls + 1,
         Serving(t)'
  PROVE  ServiceInvariant'
<1>1. Counters /\ RunRows /\ Tables /\ Payments
  BY DEF ServiceInvariant
<1>2. calls \in Nat /\ calls' \in Nat /\ calls <= calls'
  BY <1>1 DEF Counters
<1>3. Counters'
  BY <1>1, <1>2 DEF Counters
<1>4. RunRows' /\ Tables' /\ Payments'
  BY <1>1, <1>2, TablesKept
<1>5. NoSession \notin live'
  BY <1>2 DEF Sessions, NoSession
<1>6. Retained' = Retained /\ runs' = runs
  BY DEF Retained, SetOf
<1>7. \A r : Unpaid(r)' \/ ~Unpaid(r) \/ r \in DOMAIN runs
  BY DEF Unpaid, SetOf
<1>8. Servers'
  BY <1>2, <1>5, <1>6, <1>7, ServersKept
<1> QED BY <1>3, <1>4, <1>8 DEF ServiceInvariant

\* Only the thread moves.
LEMMA ThreadMoves ==
  ASSUME ServiceInvariant, NEW t \in Threads, NEW g, http' = [http EXCEPT ![t] = g],
         UNCHANGED <<now, restarts, live, judge, retained, runs, requests, spent, orders>>,
         calls' \in {calls, calls + 1}, calls' <= MaxCalls,
         g.pc = "start" => g.run = calls + 1,
         Serving(t)'
  PROVE  ServiceInvariant'
<1>1. Counters /\ Sessions
  BY DEF ServiceInvariant
<1>2. calls' \in Nat /\ calls <= calls'
  BY <1>1 DEF Counters
<1>3. Sessions' /\ \A s \in DOMAIN judge : s \in live' => s \in live
  BY <1>1, <1>2, ExpiryKeepsSessions
<1> QED BY <1>3, SessionsMove

(* What a thread holds next *)

LEMMA AnswerServes ==
  ASSUME NEW t \in Threads, NEW pc \in {"authorize", "act", "acting", "given", "refused"},
         NEW caller \in Ids \union {NoSession}, NEW r \in Ids,
         http'[t] = Answer(pc, caller, r), r \in DOMAIN runs',
         caller \in {NoSession} \union DOMAIN judge',
         pc \in {"act", "acting", "given"} => runs'[r].session \in {NoSession, caller},
         pc = "refused" => ~Reaches(caller, r)'
  PROVE  Serving(t)'
<1>1. http'[t].pc = pc /\ http'[t].caller = caller /\ http'[t].run = r /\ http'[t] \in AnswerType
  BY DEF Answer, AnswerType, Pcs
<1>2. pc \in Pcs /\ pc \notin {"onboard", "start", "record"}
  BY DEF Pcs
<1>3. pc = "refused" => ~Reaches(http[t].caller, http[t].run)'
  BY <1>1 DEF Reaches
<1> QED BY <1>1, <1>2, <1>3 DEF Serving

LEMMA CallServes ==
  ASSUME NEW t \in Threads, NEW g \in CallType, http'[t] = g,
         g.op = "commerce" => g.session = NoSession,
         g.op # "commerce" => g.session \in DOMAIN judge',
         \/ g.pc = "start" /\ g.run \in 1..calls' /\ g.run \notin DOMAIN runs' /\ Unpaid(g.run)'
         \/ /\ g.pc = "record" /\ g.op # "commerce" /\ g.run \in DOMAIN runs'
            /\ runs'[g.run].session = g.session
  PROVE  Serving(t)'
<1>1. g.pc \in {"start", "record"} /\ g.pc \in Pcs
  BY DEF Pcs
<1>2. g.pc = "start" => Unpaid(http[t].run)'
  BY DEF Unpaid
<1> QED BY <1>1, <1>2 DEF Serving

LEMMA IdleServes ==
  ASSUME NEW t \in Threads, http'[t] = Idle
  PROVE  Serving(t)'
<1>1. http'[t].pc = "idle"
  BY DEF Idle
<1> QED BY <1>1 DEF Serving, Pcs

LEMMA Holds ==
  ASSUME ServiceInvariant, NEW t \in Threads
  PROVE  /\ DOMAIN http = Threads /\ Serving(t)
         /\ calls \in Nat /\ calls <= MaxCalls /\ MaxCalls \in Nat
         /\ DOMAIN judge \subseteq Ids /\ DOMAIN runs \subseteq Ids
         /\ calls < MaxCalls => calls + 1 \in Ids /\ calls + 1 \notin DOMAIN runs
                                 /\ calls + 1 \notin DOMAIN judge
<1>1. /\ DOMAIN http = Threads /\ Serving(t) /\ calls \in Nat /\ calls <= MaxCalls
      /\ DOMAIN judge \subseteq 1..calls /\ DOMAIN runs \subseteq 1..calls
  BY DEF ServiceInvariant, Servers, Counters, Sessions, RunRows
<1>2. MaxCalls \in Nat
  BY ServiceAssumption
<1> QED BY <1>1, <1>2 DEF Ids

\* A run that was never minted has paid for nothing.
LEMMA FreshIsUnpaid ==
  ASSUME ServiceInvariant
  PROVE  Unpaid(calls + 1)
<1>1. calls \in Nat /\ calls + 1 \notin 1..calls
  BY DEF ServiceInvariant, Counters
<1> QED BY <1>1 DEF ServiceInvariant, Payments, Unpaid

(* Steps of a thread that move nothing else *)

LEMMA ArriveStartStep ==
  ASSUME ServiceInvariant, NEW t \in Threads, ArriveStart(t)
  PROVE  ServiceInvariant'
<1>1. PICK q \in Requests, product \in Products :
        Serve(t, Call("commerce", NoSession, q, product, "start"))
  BY DEF ArriveStart
<1>1a. PICK g : g = Call("commerce", NoSession, q, product, "start")
  OBVIOUS
<1>2. http' = [http EXCEPT ![t] = g] /\ calls' = calls + 1 /\ calls < MaxCalls
        /\ UNCHANGED <<now, restarts, live, judge, retained, runs, requests, spent, orders>>
  BY <1>1, <1>1a DEF Serve, ArriveStart, Free
<1>3. /\ DOMAIN http = Threads /\ calls \in Nat /\ MaxCalls \in Nat
      /\ calls + 1 \in Ids /\ calls + 1 \notin DOMAIN runs
  BY <1>2, Holds
<1>4. /\ g \in CallType /\ g.pc = "start" /\ g.op = "commerce" /\ g.session = NoSession
      /\ g.run = calls + 1
  BY <1>3, <1>1a DEF Call, CallType, Pcs
<1>5. http'[t] = g
  BY <1>2, <1>3
<1>6. Unpaid(g.run)
  BY <1>4, FreshIsUnpaid
<1>7. Unpaid(g.run)' /\ g.run \in 1..calls' /\ g.run \notin DOMAIN runs'
  BY <1>2, <1>3, <1>4, <1>6 DEF Unpaid, SetOf
<1>8. Serving(t)'
  BY <1>4, <1>5, <1>7, CallServes
<1>9. calls' \in {calls, calls + 1} /\ calls' <= MaxCalls
  BY <1>2, <1>3
<1> QED BY <1>2, <1>4, <1>8, <1>9, ThreadMoves

LEMMA RejectStep ==
  ASSUME ServiceInvariant, NEW t \in Threads, Reject(t)
  PROVE  ServiceInvariant'
<1>1. http' = [http EXCEPT ![t] = Idle] /\ calls' = calls
        /\ UNCHANGED <<now, restarts, live, judge, retained, runs, requests, spent, orders>>
  BY DEF Reject, End
<1>2. DOMAIN http = Threads /\ calls \in {calls, calls + 1} /\ calls <= MaxCalls
  BY Holds
<1>3. http'[t] = Idle /\ Idle.pc # "start"
  BY <1>1, <1>2 DEF Idle
<1>4. Serving(t)'
  BY <1>3, IdleServes
<1> QED BY <1>1, <1>2, <1>3, <1>4, ThreadMoves

\* An answer, or the next step, where the thread may act, or a refusal where the run left.
LEMMA AnswerStep ==
  ASSUME ServiceInvariant, NEW t \in Threads, ActTooLate(t) \/ ActInTime(t) \/ ActElse(t)
  PROVE  ServiceInvariant'
<1> DEFINE h == http[t]
<1>1. /\ h.pc \in {"act", "acting"} /\ calls' = calls
      /\ UNCHANGED <<now, restarts, live, judge, retained, runs, requests, spent, orders>>
  BY DEF ActTooLate, ActInTime, ActElse
<1>2. /\ DOMAIN http = Threads /\ Serving(t) /\ calls \in {calls, calls + 1} /\ calls <= MaxCalls
      /\ DOMAIN judge \subseteq Ids /\ DOMAIN runs \subseteq Ids
  BY Holds
<1>3. /\ h.run \in DOMAIN runs /\ h.run \in Ids /\ h.caller \in {NoSession} \union DOMAIN judge
      /\ h.caller \in Ids \union {NoSession} /\ runs[h.run].session \in {NoSession, h.caller}
      /\ h \in AnswerType
  BY <1>1, <1>2 DEF Serving, AnswerType
<1>4. PICK pc \in {"acting", "given", "refused"} :
        /\ http' = [http EXCEPT ![t] = Answer(pc, h.caller, h.run)]
        /\ pc = "refused" => h.run \notin Retained
  <2>1. CASE ActInTime(t)
    <3>1. http' = [http EXCEPT ![t] = [h EXCEPT !.pc = "acting"]]
      BY <2>1 DEF ActInTime, Go
    <3>2. [h EXCEPT !.pc = "acting"] = Answer("acting", h.caller, h.run)
      BY <1>3 DEF Answer, AnswerType
    <3> QED BY <3>1, <3>2
  <2>2. CASE ActTooLate(t) \/ ActElse(t)
    BY <2>2 DEF ActTooLate, ActElse, Give, Refuse
  <2> QED BY <2>1, <2>2
<1> DEFINE g == Answer(pc, h.caller, h.run)
<1>5. http'[t] = g /\ g.pc # "start"
  BY <1>2, <1>4 DEF Answer
<1>6. ASSUME NEW c, NEW r, c = h.caller, r = h.run, pc = "refused"
      PROVE  ~Reaches(c, r)'
  BY <1>1, <1>4, <1>6 DEF Reaches, Retained, SetOf
<1>7. ASSUME NEW c, NEW r, c = h.caller, r = h.run
      PROVE  Serving(t)'
  BY <1>1, <1>3, <1>5, <1>6, <1>7, AnswerServes
<1> HIDE DEF g
<1> QED BY <1>1, <1>2, <1>4, <1>5, <1>7, ThreadMoves DEF g

LEMMA GuardRunStep ==
  ASSUME ServiceInvariant, NEW t \in Threads, GuardRun(t)
  PROVE  ServiceInvariant'
<1>1. PICK header \in Headers, r \in DOMAIN runs :
        Serve(t, Answer(IF r \in Retained THEN "authorize" ELSE "refused", header, r))
  BY DEF GuardRun
<1> DEFINE pc == IF r \in Retained THEN "authorize" ELSE "refused"
           g == Answer(pc, header, r)
<1>2. http' = [http EXCEPT ![t] = g] /\ calls' = calls + 1 /\ calls < MaxCalls
        /\ UNCHANGED <<now, restarts, live, judge, retained, runs, requests, spent, orders>>
  BY <1>1 DEF Serve, GuardRun, Free
<1>3. /\ DOMAIN http = Threads /\ calls \in Nat /\ MaxCalls \in Nat
      /\ DOMAIN judge \subseteq Ids /\ DOMAIN runs \subseteq Ids
  BY Holds
<1>4. header \in {NoSession} \union DOMAIN judge /\ header \in Ids \union {NoSession} /\ r \in Ids
  BY <1>3 DEF Headers
<1>5. http'[t] = g /\ g.pc # "start" /\ pc \in {"authorize", "refused"}
  BY <1>2, <1>3 DEF Answer
<1>6. pc = "refused" => ~Reaches(header, r)'
  BY <1>2 DEF Reaches, Retained, SetOf
<1>7. Serving(t)'
  BY <1>2, <1>4, <1>5, <1>6, AnswerServes
<1>8. calls' \in {calls, calls + 1} /\ calls' <= MaxCalls
  BY <1>2, <1>3
<1> HIDE DEF g
<1> QED BY <1>2, <1>5, <1>7, <1>8, ThreadMoves

(* Steps that touch the sessions *)

LEMMA OpenSessionStep ==
  ASSUME ServiceInvariant, NEW t \in Threads, OpenSession(t)
  PROVE  ServiceInvariant'
<1>1. PICK header \in Headers :
        LET found == header \in Unexpired
            session == IF found THEN header ELSE calls + 1
        IN /\ IF found THEN Seen(header) ELSE Created(session)
           /\ \/ \E q \in Requests, content \in Products \union Onboarded :
                   Serve(t, Call("authorize", session, q, content, "start"))
              \/ \E q \in Requests, product \in Products :
                   Serve(t, Call("scenario", session, q, product, "start"))
              \/ Serve(t, Entering(session))
  BY DEF OpenSession
<1>2. PICK session : session = IF header \in Unexpired THEN header ELSE calls + 1
  OBVIOUS
<1>3. /\ IF header \in Unexpired THEN Seen(header) ELSE Created(session)
      /\ \/ \E q \in Requests, content \in Products \union Onboarded :
              Serve(t, Call("authorize", session, q, content, "start"))
         \/ \E q \in Requests, product \in Products :
              Serve(t, Call("scenario", session, q, product, "start"))
         \/ Serve(t, Entering(session))
  BY <1>1, <1>2
<1>4. PICK g : /\ Serve(t, g)
               /\ \/ \E q \in Requests, content \in Products \union Onboarded :
                       g = Call("authorize", session, q, content, "start")
                  \/ \E q \in Requests, product \in Products :
                       g = Call("scenario", session, q, product, "start")
                  \/ g = Entering(session)
  BY <1>3
<1>5. http' = [http EXCEPT ![t] = g] /\ calls' = calls + 1 /\ calls < MaxCalls
        /\ UNCHANGED <<now, restarts, retained, runs, requests, spent, orders>>
  BY <1>4 DEF Serve, OpenSession, Free
<1>6. /\ DOMAIN http = Threads /\ calls \in Nat /\ MaxCalls \in Nat
      /\ calls + 1 \in Ids /\ calls + 1 \notin DOMAIN runs /\ DOMAIN judge \subseteq Ids
  BY <1>5, Holds
<1>7. Counters /\ Sessions /\ now' = now /\ calls' \in Nat /\ calls <= calls'
  BY <1>5, <1>6 DEF ServiceInvariant
<1>8. /\ Sessions' /\ DOMAIN judge \subseteq DOMAIN judge' /\ session \in DOMAIN judge'
      /\ session \in Ids /\ \A x \in DOMAIN judge : x \in live' => x \in live
  <2>1. CASE header \in Unexpired
    <3>1. session \in Unexpired /\ Seen(session)
      BY <1>2, <1>3, <2>1
    <3>2. session \in DOMAIN judge
      BY <1>7, <3>1, UnexpiredIsLive
    <3>3. /\ Sessions' /\ DOMAIN judge' = DOMAIN judge
          /\ \A x \in DOMAIN judge : x \in live' => x \in live
      BY <1>7, <3>1, SeenKeepsSessions
    <3> QED BY <1>6, <3>2, <3>3
  <2>2. CASE header \notin Unexpired
    <3>1. session = calls + 1 /\ Created(session)
      BY <1>2, <1>3, <2>2
    <3>2. Created(calls + 1)
      BY <3>1
    <3>3. /\ Sessions' /\ DOMAIN judge' = DOMAIN judge \union {calls + 1}
          /\ \A x \in DOMAIN judge : x \in live' => x \in live
      BY <1>5, <1>7, <3>2, CreatedKeepsSessions
    <3> QED BY <1>6, <3>1, <3>3
  <2> QED BY <2>1, <2>2
<1>9. http'[t] = g
  BY <1>5, <1>6
<1>10. Serving(t)' /\ (g.pc = "start" => g.run = calls + 1)
  <2>1. CASE g = Entering(session)
    <3>1. g \in EnteringType /\ g.pc = "onboard" /\ g.session = session
      BY <1>8, <2>1 DEF Entering, EnteringType
    <3>2. Serving(t)'
      BY <1>8, <1>9, <3>1 DEF Serving, Pcs
    <3> QED BY <3>1, <3>2
  <2>2. CASE \/ \E q \in Requests, content \in Products \union Onboarded :
                  g = Call("authorize", session, q, content, "start")
             \/ \E q \in Requests, product \in Products :
                  g = Call("scenario", session, q, product, "start")
    <3>1. PICK op \in {"authorize", "scenario"}, q \in Requests,
               content \in Products \union Onboarded :
            g = Call(op, session, q, content, "start")
      BY <2>2
    <3>2. content \in Products \union Merchants
      BY DEF Onboarded
    <3>3. /\ g \in CallType /\ g.pc = "start" /\ g.op # "commerce" /\ g.session = session
          /\ g.run = calls + 1
      BY <1>6, <1>8, <3>1, <3>2 DEF Call, CallType, Pcs
    <3>4. Unpaid(g.run)
      BY <3>3, FreshIsUnpaid
    <3>5. Unpaid(g.run)' /\ g.run \in 1..calls' /\ g.run \notin DOMAIN runs'
      BY <1>5, <1>6, <3>3, <3>4 DEF Unpaid, SetOf
    <3>6. Serving(t)'
      BY <1>8, <1>9, <3>3, <3>5, CallServes
    <3> QED BY <3>3, <3>6
  <2> QED BY <1>4, <2>1, <2>2
<1>11. calls' \in {calls, calls + 1} /\ calls' <= MaxCalls
  BY <1>5, <1>6
<1> QED BY <1>5, <1>8, <1>10, <1>11, SessionsMove

\* A session's row is rewritten by the thread that holds its object.
LEMMA RowKeepsSessions ==
  ASSUME Counters, Sessions, NEW s \in DOMAIN judge, NEW row \in SessionType,
         judge' = [judge EXCEPT ![s] = row], row.seen <= now, Len(row.window) <= MaxWindow,
         live' = live, now' = now, calls' = calls
  PROVE  /\ Sessions' /\ DOMAIN judge' = DOMAIN judge
         /\ \A x \in DOMAIN judge : x \in live' => x \in live
<1>1. DOMAIN judge' = DOMAIN judge /\ judge'[s] = row
        /\ \A x \in DOMAIN judge : x # s => judge'[x] = judge[x]
  OBVIOUS
<1>2. \A x \in DOMAIN judge :
        judge'[x] \in SessionType /\ judge'[x].seen <= now /\ Len(judge'[x].window) <= MaxWindow
  <2> SUFFICES ASSUME NEW x \in DOMAIN judge
               PROVE  judge'[x] \in SessionType /\ judge'[x].seen <= now
                        /\ Len(judge'[x].window) <= MaxWindow
    OBVIOUS
  <2>1. CASE x = s
    BY <1>1, <2>1
  <2>2. CASE x # s
    BY <1>1, <2>2 DEF Sessions
  <2> QED BY <2>1, <2>2
<1> QED BY <1>1, <1>2 DEF Sessions

LEMMA OnboardStep ==
  ASSUME ServiceInvariant, NEW t \in Threads, Onboard(t)
  PROVE  ServiceInvariant'
<1> DEFINE h == http[t]
<1>1. /\ h.pc = "onboard" /\ http' = [http EXCEPT ![t] = Idle]
      /\ calls' = calls /\ live' = live
      /\ UNCHANGED <<now, restarts, retained, runs, requests, spent, orders>>
  BY DEF Onboard, End
<1>2. DOMAIN http = Threads /\ calls \in {calls, calls + 1} /\ calls <= MaxCalls /\ Serving(t)
  BY Holds
<1>3. PICK s : s = h.session /\ s \in DOMAIN judge
  BY <1>1, <1>2 DEF Serving
<1>4. http'[t] = Idle /\ Idle.pc # "start"
  BY <1>1, <1>2 DEF Idle
<1>5. Serving(t)'
  BY <1>4, IdleServes
<1>6. Counters /\ Sessions
  BY DEF ServiceInvariant
<1>7. judge[s] \in SessionType /\ judge[s].seen <= now /\ Len(judge[s].window) <= MaxWindow
  BY <1>3, <1>6 DEF Sessions
<1>8. CASE judge[s].onboarded < MaxOnboarded
  <2>1. PICK row : row = [judge[s] EXCEPT !.onboarded = judge[s].onboarded + 1]
    OBVIOUS
  <2>2. row \in SessionType /\ row.seen = judge[s].seen /\ row.window = judge[s].window
    BY <1>7, <1>8, <2>1, ServiceAssumption DEF SessionType
  <2>3. judge' = [judge EXCEPT ![s] = row]
    BY <1>3, <1>8, <2>1 DEF Onboard
  <2>4. row.seen <= now /\ Len(row.window) <= MaxWindow /\ now' = now
    BY <1>1, <1>7, <2>2
  <2>5. /\ Sessions' /\ DOMAIN judge' = DOMAIN judge
        /\ \A x \in DOMAIN judge : x \in live' => x \in live
    BY <1>1, <1>3, <1>6, <2>2, <2>3, <2>4, RowKeepsSessions
  <2> QED BY <1>1, <1>2, <1>4, <1>5, <2>5, SessionsMove
<1>9. CASE ~(judge[s].onboarded < MaxOnboarded)
  <2>1. judge' = judge
    BY <1>3, <1>9 DEF Onboard
  <2>2. UNCHANGED <<now, restarts, live, judge, retained, runs, requests, spent, orders>>
    BY <1>1, <2>1
  <2> QED BY <1>1, <1>2, <1>4, <1>5, <2>2, ThreadMoves
<1> QED BY <1>8, <1>9

LEMMA RecordRunStep ==
  ASSUME ServiceInvariant, NEW t \in Threads, RecordRun(t)
  PROVE  ServiceInvariant'
<1> DEFINE h == http[t]
<1>1. PICK s, run : s = h.session /\ run = h.run
  OBVIOUS
<1>2. /\ h.pc = "record" /\ calls' = calls /\ live' = live
      /\ UNCHANGED <<now, restarts, retained, runs, requests, spent, orders>>
      /\ http' = [http EXCEPT ![t] = Answer("given", s, run)]
      /\ judge' = [judge EXCEPT ![s].window =
           Append(IF Len(judge[s].window) >= MaxWindow THEN Tail(judge[s].window)
                  ELSE judge[s].window, run)]
  BY <1>1 DEF RecordRun, Give
<1>3. /\ DOMAIN http = Threads /\ calls \in {calls, calls + 1} /\ calls <= MaxCalls /\ Serving(t)
      /\ DOMAIN judge \subseteq Ids /\ DOMAIN runs \subseteq Ids
  BY Holds
<1>4. /\ s \in DOMAIN judge /\ s \in Ids /\ run \in DOMAIN runs /\ run \in Ids
      /\ runs[run].session = s
  BY <1>1, <1>2, <1>3 DEF Serving
<1>5. Counters /\ Sessions
  BY DEF ServiceInvariant
<1>6. judge[s] \in SessionType /\ judge[s].seen <= now /\ Len(judge[s].window) <= MaxWindow
  BY <1>4, <1>5 DEF Sessions
<1>7. PICK w : w = Append(IF Len(judge[s].window) >= MaxWindow THEN Tail(judge[s].window)
                          ELSE judge[s].window, run)
  OBVIOUS
<1>8. w \in Seq(Ids) /\ Len(w) <= MaxWindow
  <2>1. MaxWindow \in Nat /\ MaxWindow # 0
    BY ServiceAssumption
  <2>2. judge[s].window \in Seq(Ids) /\ Len(judge[s].window) \in Nat
    BY <1>6 DEF SessionType
  <2>3. CASE Len(judge[s].window) >= MaxWindow
    <3>1. judge[s].window # << >>
      BY <2>1, <2>2, <2>3
    <3>2. Tail(judge[s].window) \in Seq(Ids)
            /\ Len(Tail(judge[s].window)) = Len(judge[s].window) - 1
      BY <2>2, <3>1
    <3>3. w = Append(Tail(judge[s].window), run)
      BY <1>7, <2>3
    <3>4. w \in Seq(Ids) /\ Len(w) = Len(judge[s].window)
      BY <1>4, <2>2, <3>2, <3>3
    <3> QED BY <1>6, <3>4
  <2>4. CASE ~(Len(judge[s].window) >= MaxWindow)
    <3>1. w = Append(judge[s].window, run)
      BY <1>7, <2>4
    <3>2. w \in Seq(Ids) /\ Len(w) = Len(judge[s].window) + 1
      BY <1>4, <2>2, <3>1
    <3> QED BY <2>1, <2>2, <2>4, <3>2
  <2> QED BY <2>3, <2>4
<1>9. PICK row : row = [judge[s] EXCEPT !.window = w]
  OBVIOUS
<1>10. row \in SessionType /\ row.seen = judge[s].seen /\ row.window = w
  BY <1>6, <1>8, <1>9 DEF SessionType
<1>11. judge' = [judge EXCEPT ![s] = row]
  BY <1>2, <1>7, <1>9
<1>12. row.seen <= now /\ Len(row.window) <= MaxWindow /\ now' = now
  BY <1>2, <1>6, <1>8, <1>10
<1>13. /\ Sessions' /\ DOMAIN judge' = DOMAIN judge
       /\ \A x \in DOMAIN judge : x \in live' => x \in live
  BY <1>2, <1>4, <1>5, <1>10, <1>11, <1>12, RowKeepsSessions
<1>14. http'[t] = Answer("given", s, run) /\ Answer("given", s, run).pc # "start"
  BY <1>2, <1>3 DEF Answer
<1>15. Serving(t)'
  BY <1>2, <1>4, <1>13, <1>14, AnswerServes
<1> QED BY <1>2, <1>3, <1>13, <1>14, <1>15, SessionsMove

LEMMA AuthorizeRunAccessStep ==
  ASSUME ServiceInvariant, NEW t \in Threads, AuthorizeRunAccess(t)
  PROVE  ServiceInvariant'
<1> DEFINE h == http[t]
<1>1. PICK c, r : c = h.caller /\ r = h.run
  OBVIOUS
<1>2. /\ h.pc = "authorize" /\ calls' = calls
      /\ UNCHANGED <<now, restarts, retained, runs, requests, spent, orders>>
  BY DEF AuthorizeRunAccess
<1>3. /\ DOMAIN http = Threads /\ calls \in {calls, calls + 1} /\ calls <= MaxCalls /\ Serving(t)
      /\ DOMAIN judge \subseteq Ids /\ DOMAIN runs \subseteq Ids /\ calls \in Nat
  BY Holds
<1>4. /\ h \in AnswerType /\ r \in DOMAIN runs /\ r \in Ids /\ c \in {NoSession} \union DOMAIN judge
      /\ c \in Ids \union {NoSession}
  BY <1>1, <1>2, <1>3 DEF Serving
<1>5. Counters /\ Sessions /\ now' = now /\ calls' \in Nat /\ calls <= calls'
  BY <1>2, <1>3 DEF ServiceInvariant
<1>6. /\ [h EXCEPT !.pc = "act"] = Answer("act", c, r)
      /\ http' = [http EXCEPT ![t].pc = "act"] =>
           http' = [http EXCEPT ![t] = Answer("act", c, r)]
  <2>1. [h EXCEPT !.pc = "act"] = Answer("act", c, r)
    BY <1>1, <1>4 DEF Answer, AnswerType
  <2> QED BY <2>1
<1>7. Answer("act", c, r).pc # "start" /\ Answer("refused", c, r).pc # "start"
  BY DEF Answer
<1>8. CASE runs[r].session = NoSession
  <2>1. Go(t, "act") /\ live' = live /\ judge' = judge
    BY <1>1, <1>8 DEF AuthorizeRunAccess
  <2>2. http' = [http EXCEPT ![t] = Answer("act", c, r)]
    BY <1>6, <2>1 DEF Go
  <2>3. http'[t] = Answer("act", c, r)
    BY <1>3, <2>2
  <2>4. Serving(t)'
    BY <1>2, <1>4, <1>8, <2>1, <2>3, AnswerServes
  <2>5. UNCHANGED <<now, restarts, live, judge, retained, runs, requests, spent, orders>>
    BY <1>2, <2>1
  <2> QED BY <1>2, <1>3, <1>7, <2>2, <2>4, <2>5, ThreadMoves
<1>9. CASE runs[r].session # NoSession /\ c \in Unexpired
  <2>1. Seen(c) /\ IF Owner(c, r) THEN Go(t, "act") ELSE Refuse(t, c, r)
    BY <1>1, <1>9 DEF AuthorizeRunAccess
  <2>2. /\ Sessions' /\ DOMAIN judge' = DOMAIN judge
        /\ \A x \in DOMAIN judge : x \in live' => x \in live
    BY <1>5, <1>9, <2>1, SeenKeepsSessions
  <2>3. CASE Owner(c, r)
    <3>1. http' = [http EXCEPT ![t] = Answer("act", c, r)]
      BY <1>6, <2>1, <2>3 DEF Go
    <3>2. http'[t] = Answer("act", c, r) /\ runs[r].session = c
      BY <1>3, <2>3, <3>1 DEF Owner
    <3>3. Serving(t)'
      BY <1>2, <1>4, <2>2, <3>2, AnswerServes
    <3> QED BY <1>2, <1>3, <1>7, <2>2, <3>1, <3>3, SessionsMove
  <2>4. CASE ~Owner(c, r)
    <3>1. http' = [http EXCEPT ![t] = Answer("refused", c, r)]
      BY <2>1, <2>4 DEF Refuse
    <3>2. http'[t] = Answer("refused", c, r) /\ runs[r].session # c
      BY <1>3, <2>4, <3>1 DEF Owner
    <3>3. ~Reaches(c, r)'
      BY <1>2, <1>9, <3>2 DEF Reaches
    <3>4. Serving(t)'
      BY <1>2, <1>4, <2>2, <3>2, <3>3, AnswerServes
    <3> QED BY <1>2, <1>3, <1>7, <2>2, <3>1, <3>4, SessionsMove
  <2> QED BY <2>3, <2>4
<1>10. CASE runs[r].session # NoSession /\ c \notin Unexpired
  <2>1. Refuse(t, c, r) /\ judge' = judge /\ live' = IF c = NoSession THEN live ELSE Unexpired
    BY <1>1, <1>10 DEF AuthorizeRunAccess
  <2>2. live' \in {live, Unexpired}
    BY <2>1
  <2>3. Sessions' /\ \A x \in DOMAIN judge : x \in live' => x \in live
    BY <1>5, <2>1, <2>2, ExpiryKeepsSessions
  <2>4. c # NoSession => c \notin live'
    BY <1>10, <2>1
  <2>5. ~Reaches(c, r)'
    BY <1>2, <1>10, <2>4 DEF Reaches
  <2>6. http' = [http EXCEPT ![t] = Answer("refused", c, r)]
    BY <2>1 DEF Refuse
  <2>7. http'[t] = Answer("refused", c, r)
    BY <1>3, <2>6
  <2>8. Serving(t)'
    BY <1>2, <1>4, <2>1, <2>5, <2>7, AnswerServes
  <2> QED BY <1>2, <1>3, <1>7, <2>1, <2>3, <2>6, <2>8, SessionsMove
<1> QED BY <1>8, <1>9, <1>10

(* Starting a run *)

\* The table of runs at its limit: the newest stays, and at most the oldest goes.
LEMMA KeptSequence ==
  ASSUME retained \in Seq(Ids), Len(retained) <= MaxRetained, NEW r \in Ids,
         NEW grown, grown = Append(retained, r), NEW k, k = Kept(grown)
  PROVE  /\ SetOf(grown) = Retained \union {r}
         /\ k \in Seq(Ids) /\ Len(k) <= MaxRetained
         /\ r \in SetOf(k) /\ SetOf(k) \subseteq Retained \union {r}
<1>1. MaxRetained \in Nat /\ MaxRetained # 0 /\ Len(retained) \in Nat
  BY ServiceAssumption
<1>2. /\ grown \in Seq(Ids) /\ Len(grown) = Len(retained) + 1 /\ grown[Len(retained) + 1] = r
      /\ DOMAIN grown = 1..(Len(retained) + 1) /\ DOMAIN retained = 1..Len(retained)
      /\ \A i \in 1..Len(retained) : grown[i] = retained[i]
  OBVIOUS
<1>3. SetOf(grown) = Retained \union {r}
  <2>1. ASSUME NEW x \in SetOf(grown)
        PROVE  x \in Retained \union {r}
    <3>1. PICK i \in 1..(Len(retained) + 1) : x = grown[i]
      BY <1>2 DEF SetOf
    <3>2. CASE i = Len(retained) + 1
      BY <1>2, <3>1, <3>2
    <3>3. CASE i \in 1..Len(retained)
      BY <1>2, <3>1, <3>3 DEF Retained, SetOf
    <3> QED BY <1>1, <3>1, <3>2, <3>3
  <2>2. ASSUME NEW x \in Retained
        PROVE  x \in SetOf(grown)
    <3>1. PICK i \in 1..Len(retained) : x = retained[i]
      BY <1>2 DEF Retained, SetOf
    <3>2. i \in DOMAIN grown /\ grown[i] = x
      BY <1>1, <1>2, <3>1
    <3> QED BY <3>2 DEF SetOf
  <2>3. r \in SetOf(grown)
    <3>1. Len(retained) + 1 \in DOMAIN grown
      BY <1>1, <1>2
    <3> QED BY <1>2, <3>1 DEF SetOf
  <2> QED BY <2>1, <2>2, <2>3
<1>4. CASE Len(grown) > MaxRetained
  <2>1. Len(grown) = MaxRetained + 1 /\ Len(retained) = MaxRetained
    <3> DEFINE n == Len(retained)
    <3>1. n \in Nat /\ n <= MaxRetained /\ n + 1 > MaxRetained
      BY <1>1, <1>2, <1>4
    <3> HIDE DEF n
    <3>2. n = MaxRetained
      BY <1>1, <3>1
    <3> QED BY <1>2, <3>2 DEF n
  <2>2. k = SubSeq(grown, 2, MaxRetained + 1)
    <3>1. k = SubSeq(grown, Len(grown) - MaxRetained + 1, Len(grown))
      BY <1>4 DEF Kept
    <3>2. Len(grown) - MaxRetained + 1 = 2
      BY <1>1, <2>1
    <3> QED BY <2>1, <3>1, <3>2
  <2>3. k \in Seq(Ids) /\ Len(k) = MaxRetained /\ DOMAIN k = 1..MaxRetained
          /\ \A i \in 1..MaxRetained : k[i] = grown[i + 1]
    BY <1>1, <1>2, <2>1, <2>2
  <2>4. r \in SetOf(k)
    <3>1. MaxRetained \in DOMAIN k /\ k[MaxRetained] = r
      BY <1>1, <1>2, <2>1, <2>3
    <3> QED BY <3>1 DEF SetOf
  <2>5. ASSUME NEW x \in SetOf(k)
        PROVE  x \in SetOf(grown)
    <3>1a. PICK i \in DOMAIN k : x = k[i]
      BY <2>5 DEF SetOf
    <3>1. i \in 1..MaxRetained /\ x = grown[i + 1]
      BY <2>3, <3>1a
    <3>2. i + 1 \in DOMAIN grown
      BY <1>1, <1>2, <2>1, <3>1
    <3> QED BY <3>1, <3>2 DEF SetOf
  <2> QED BY <1>1, <1>3, <2>3, <2>4, <2>5
<1>5. CASE ~(Len(grown) > MaxRetained)
  <2>1. k = grown
    BY <1>5 DEF Kept
  <2>2. Len(k) <= MaxRetained
    BY <1>1, <1>2, <1>5, <2>1
  <2> QED BY <1>2, <1>3, <2>1, <2>2
<1> QED BY <1>4, <1>5

\* What a new run changes in the tables.
LEMMA NewRunTables ==
  ASSUME ServiceInvariant, NEW t \in Threads, http[t].pc = "start", Known(http[t]),
         requests[http[t].request] = NoRun, calls' = calls,
         runs' = [r \in DOMAIN runs \union {http[t].run} |->
                    IF r = http[t].run THEN NewRun(http[t]) ELSE runs[r]],
         retained' = Kept(Append(retained, http[t].run)),
         requests' = [q \in Requests |->
                        IF q = http[t].request THEN http[t].run
                        ELSE IF q \in Forgotten(Append(retained, http[t].run)) THEN NoRun
                        ELSE requests[q]],
         UNCHANGED <<spent, orders>>
  PROVE  /\ RunRows' /\ Tables' /\ Payments'
         /\ DOMAIN runs' = DOMAIN runs \union {http[t].run}
         /\ \A r \in DOMAIN runs : runs'[r] = runs[r]
         /\ runs'[http[t].run].session = http[t].session
         /\ \A r \in DOMAIN runs : r \in Retained' => r \in Retained
<1> DEFINE h == http[t]
<1>1. PICK x, q0 : x = h.run /\ q0 = h.request
  OBVIOUS
<1>2. Serving(t) /\ DOMAIN runs \subseteq Ids /\ calls \in Nat /\ calls <= MaxCalls
  BY Holds
<1>3. h \in CallType /\ x \in 1..calls /\ x \notin DOMAIN runs /\ Unpaid(x) /\ x \in Ids
        /\ q0 \in Requests /\ x # NoRun
  BY <1>1, <1>2 DEF Serving, CallType, Ids, NoRun
<1>4. PICK row : row = NewRun(h)
  OBVIOUS
<1>5. /\ row \in RunType /\ row.request = q0 /\ row.session = h.session
      /\ row.content = h.content /\ row.state = "running" /\ row.round = 0
  BY <1>1, <1>3, <1>4, ServiceAssumption DEF NewRun, RunType, CallType, RunStates
<1>6. DOMAIN runs' = DOMAIN runs \union {x} /\ runs'[x] = row
        /\ \A r \in DOMAIN runs : runs'[r] = runs[r]
  BY <1>1, <1>3, <1>4
<1>7. row.content \in Products \/ (row.content \in Merchants /\ row.content.session = row.session)
  BY <1>5 DEF Known, Onboarded
<1>8. RunRows
  BY DEF ServiceInvariant
<1>9. RunRows'
  <2>1. DOMAIN runs' \subseteq 1..calls'
    BY <1>3, <1>6, <1>8 DEF RunRows
  <2>2. ASSUME NEW r \in DOMAIN runs'
        PROVE  /\ runs'[r] \in RunType
               /\ runs'[r].content \in Products \/ runs'[r].content \in Merchants
               /\ runs'[r].content \in Products \/ runs'[r].content.session = runs'[r].session
               /\ runs'[r].state = "running" => runs'[r].round = 0
    <3>1. CASE r = x
      BY <1>5, <1>6, <1>7, <3>1
    <3>2. CASE r \in DOMAIN runs
      BY <1>6, <1>8, <3>2 DEF RunRows
    <3> QED BY <1>6, <3>1, <3>2
  <2> QED BY <2>1, <2>2 DEF RunRows
<1>10. /\ retained \in Seq(Ids) /\ Len(retained) <= MaxRetained /\ Retained \subseteq DOMAIN runs
       /\ requests \in [Requests -> Ids \union {NoRun}]
       /\ \A q \in Requests :
            requests[q] # NoRun => requests[q] \in Retained /\ runs[requests[q]].request = q
       /\ \A r \in Retained : requests[runs[r].request] = r
  BY DEF ServiceInvariant, Tables, RequestsNameRetainedRuns
<1>11. PICK grown, k : grown = Append(retained, x) /\ k = Kept(grown)
  OBVIOUS
<1>12. /\ SetOf(grown) = Retained \union {x} /\ k \in Seq(Ids) /\ Len(k) <= MaxRetained
       /\ x \in SetOf(k) /\ SetOf(k) \subseteq Retained \union {x}
  BY <1>3, <1>10, <1>11, KeptSequence
<1>13. retained' = k /\ Retained' = SetOf(k)
  <2>1. retained' = k
    BY <1>1, <1>11
  <2> QED BY <2>1 DEF Retained, SetOf
<1>14. /\ requests' \in [Requests -> Ids \union {NoRun}]
       /\ \A q \in Requests : requests'[q] =
            IF q = q0 THEN x
            ELSE IF requests[q] \in SetOf(grown) \ SetOf(k) THEN NoRun ELSE requests[q]
  <2>1. Forgotten(grown) = {q \in Requests : requests[q] \in SetOf(grown) \ SetOf(k)}
    BY <1>11 DEF Forgotten
  <2>2. requests' = [q \in Requests |->
          IF q = q0 THEN x ELSE IF q \in Forgotten(grown) THEN NoRun ELSE requests[q]]
    BY <1>1, <1>11
  <2> QED BY <1>3, <1>10, <2>1, <2>2
<1>15. ASSUME NEW q \in Requests, requests'[q] # NoRun
       PROVE  requests'[q] \in Retained' /\ runs'[requests'[q]].request = q
  <2>1. CASE q = q0
    <3>1. requests'[q] = x
      BY <1>14, <2>1
    <3> QED BY <1>5, <1>6, <1>12, <1>13, <2>1, <3>1
  <2>2. CASE q # q0
    <3>1. requests'[q] = requests[q] /\ requests[q] \notin SetOf(grown) \ SetOf(k)
      BY <1>14, <1>15, <2>2
    <3>2. requests[q] \in Retained /\ runs[requests[q]].request = q
      BY <1>10, <1>15, <3>1
    <3>3. requests[q] \in SetOf(k) /\ requests[q] \in DOMAIN runs
      BY <1>10, <1>12, <3>1, <3>2
    <3> QED BY <1>6, <1>13, <3>1, <3>2, <3>3
  <2> QED BY <2>1, <2>2
<1>16. ASSUME NEW r \in Retained'
       PROVE  requests'[runs'[r].request] = r
  <2>1. CASE r = x
    BY <1>3, <1>5, <1>6, <1>14, <2>1
  <2>2. CASE r # x
    <3>1. r \in SetOf(k) /\ r \in Retained /\ r \in DOMAIN runs
      BY <1>10, <1>12, <1>13, <1>16, <2>2
    <3>2. runs'[r] = runs[r] /\ requests[runs[r].request] = r /\ runs[r].request \in Requests
      BY <1>6, <1>8, <1>10, <3>1 DEF RunRows, RunType
    <3>3. runs[r].request # q0
      <4>1. r # NoRun
        BY <1>2, <3>1 DEF Ids, NoRun
      <4> QED BY <1>1, <3>2, <4>1
    <3>4. requests'[runs[r].request] = requests[runs[r].request]
      BY <1>14, <3>1, <3>2, <3>3
    <3> QED BY <3>2, <3>4
  <2> QED BY <2>1, <2>2
<1>17. Tables'
  <2>1. Retained' \subseteq DOMAIN runs'
    BY <1>6, <1>10, <1>12, <1>13
  <2>2. retained' \in Seq(Ids) /\ Len(retained') <= MaxRetained
    BY <1>12, <1>13
  <2> QED BY <1>14, <1>15, <1>16, <2>1, <2>2 DEF Tables, RequestsNameRetainedRuns
<1>18. Payments'
  <2>1. Payments
    BY DEF ServiceInvariant
  <2>2. spent' = spent /\ orders' = orders
    OBVIOUS
  <2>3. ASSUME NEW n
        PROVE  SetOf(orders[n])' = SetOf(orders[n])
    BY <2>2 DEF SetOf
  <2>4. ASSUME NEW n \in Purchases, NEW r \in SetOf(orders[n])
        PROVE  r \in 1..calls' /\ (r \in DOMAIN runs' => PaidUnder(runs'[r], n))
    <3>1. r # x
      BY <1>3 DEF Unpaid
    <3>2. r \in 1..calls /\ (r \in DOMAIN runs => PaidUnder(runs[r], n))
      BY <2>1 DEF Payments
    <3> QED BY <1>6, <3>1, <3>2
  <2> QED BY <2>1, <2>2, <2>3, <2>4 DEF Payments
<1>19. \A r \in DOMAIN runs : r \in Retained' => r \in Retained
  BY <1>3, <1>12, <1>13
<1> QED BY <1>1, <1>5, <1>6, <1>9, <1>17, <1>18, <1>19

LEMMA StartRunStep ==
  ASSUME ServiceInvariant, NEW t \in Threads, StartRun(t)
  PROVE  ServiceInvariant'
<1> DEFINE h == http[t]
<1>1. PICK existing, s, x : existing = requests[h.request] /\ s = h.session /\ x = h.run
  OBVIOUS
<1>2. /\ h.pc = "start" /\ Known(h) /\ calls' = calls
      /\ UNCHANGED <<now, calls, restarts, live, judge, spent, orders>>
  BY DEF StartRun
<1>3. /\ DOMAIN http = Threads /\ Serving(t) /\ calls \in Nat /\ calls \in {calls, calls + 1}
      /\ calls <= MaxCalls /\ DOMAIN judge \subseteq Ids /\ DOMAIN runs \subseteq Ids
  BY Holds
<1>4. /\ h \in CallType /\ (h.op = "commerce" => s = NoSession)
      /\ (h.op # "commerce" => s \in DOMAIN judge)
      /\ s \in {NoSession} \union DOMAIN judge /\ s \in Ids \union {NoSession} /\ x \in Ids
      /\ x \in 1..calls /\ x \notin DOMAIN runs
  BY <1>1, <1>2, <1>3 DEF Serving, CallType
<1>5. PICK recording : recording = [h EXCEPT !.run = existing, !.pc = "record"]
  OBVIOUS
<1>6. PICK minted : minted = [h EXCEPT !.run = x, !.pc = "record"]
  OBVIOUS
<1>7. CASE existing # NoRun /\ SameRequest(h, existing)
  <2>1. /\ UNCHANGED <<now, restarts, live, judge, retained, runs, requests, spent, orders>>
        /\ IF h.op = "scenario"
           THEN http' = [http EXCEPT ![t].run = existing, ![t].pc = "record"]
           ELSE Give(t, s, existing)
    BY <1>1, <1>2, <1>7 DEF StartRun
  <2>2. existing \in DOMAIN runs /\ existing \in Ids /\ runs[existing].session = s
    <3>1. h.request \in Requests
      BY <1>4 DEF CallType
    <3>2. existing \in Retained /\ Retained \subseteq DOMAIN runs
      BY <1>1, <1>7, <3>1 DEF ServiceInvariant, Tables, RequestsNameRetainedRuns
    <3> QED BY <1>1, <1>3, <1>7, <3>2 DEF SameRequest
  <2>3. CASE h.op = "scenario"
    <3>1. http' = [http EXCEPT ![t] = recording]
      BY <1>5, <2>1, <2>3
    <3>2. /\ recording \in CallType /\ recording.pc = "record" /\ recording.op = "scenario"
          /\ recording.run = existing /\ recording.session = s
      BY <1>1, <1>4, <1>5, <2>2, <2>3 DEF CallType, Pcs
    <3>3. http'[t] = recording
      BY <1>3, <3>1
    <3>4. Serving(t)'
      BY <1>4, <2>1, <2>2, <2>3, <3>2, <3>3, CallServes
    <3> QED BY <1>2, <1>3, <2>1, <3>1, <3>2, <3>4, ThreadMoves
  <2>4. CASE h.op # "scenario"
    <3>1. http' = [http EXCEPT ![t] = Answer("given", s, existing)]
      BY <2>1, <2>4 DEF Give
    <3>2. http'[t] = Answer("given", s, existing) /\ Answer("given", s, existing).pc # "start"
      BY <1>3, <3>1 DEF Answer
    <3>3. Serving(t)'
      BY <1>4, <2>1, <2>2, <3>2, AnswerServes
    <3> QED BY <1>2, <1>3, <2>1, <3>1, <3>2, <3>3, ThreadMoves
  <2> QED BY <2>3, <2>4
<1>8. CASE existing # NoRun /\ ~SameRequest(h, existing)
  <2>1. /\ UNCHANGED <<now, restarts, live, judge, retained, runs, requests, spent, orders>>
        /\ http' = [http EXCEPT ![t] = Idle]
    BY <1>1, <1>2, <1>8 DEF StartRun, End
  <2>2. http'[t] = Idle /\ Idle.pc # "start"
    BY <1>3, <2>1 DEF Idle
  <2>3. Serving(t)'
    BY <2>2, IdleServes
  <2> QED BY <1>2, <1>3, <2>1, <2>2, <2>3, ThreadMoves
<1>9. CASE existing = NoRun
  <2>1. /\ runs' = [r \in DOMAIN runs \union {h.run} |-> IF r = h.run THEN NewRun(h) ELSE runs[r]]
        /\ retained' = Kept(Append(retained, h.run))
        /\ requests' = [q \in Requests |->
             IF q = h.request THEN h.run
             ELSE IF q \in Forgotten(Append(retained, h.run)) THEN NoRun ELSE requests[q]]
        /\ IF h.op = "commerce"
           THEN Give(t, NoSession, h.run)
           ELSE http' = [http EXCEPT ![t].run = h.run, ![t].pc = "record"]
    BY <1>1, <1>9 DEF StartRun
  <2>2. /\ RunRows' /\ Tables' /\ Payments'
        /\ DOMAIN runs' = DOMAIN runs \union {x}
        /\ \A r \in DOMAIN runs : runs'[r] = runs[r]
        /\ runs'[x].session = s
        /\ \A r \in DOMAIN runs : r \in Retained' => r \in Retained
    BY <1>1, <1>2, <1>9, <2>1, NewRunTables
  <2>3. PICK g : /\ http' = [http EXCEPT ![t] = g]
                 /\ g = IF h.op = "commerce" THEN Answer("given", NoSession, x) ELSE minted
    BY <1>1, <1>6, <2>1 DEF Give
  <2>4. http'[t] = g
    BY <1>3, <2>3
  <2>5. Serving(t)' /\ g.pc # "start"
    <3>1. CASE h.op = "commerce"
      <4>1. http'[t] = Answer("given", NoSession, x) /\ g.pc = "given"
        BY <2>3, <2>4, <3>1 DEF Answer
      <4>2. runs'[x].session = NoSession /\ x \in DOMAIN runs' /\ NoSession \in Ids \union {NoSession}
        BY <1>4, <2>2, <3>1
      <4> QED BY <1>4, <4>1, <4>2, AnswerServes
    <3>2. CASE h.op # "commerce"
      <4>1. /\ minted \in CallType /\ minted.pc = "record" /\ minted.op = h.op
            /\ minted.run = x /\ minted.session = s
        BY <1>1, <1>4, <1>6 DEF CallType, Pcs
      <4>2. http'[t] = minted /\ g.pc = "record"
        BY <2>3, <2>4, <3>2, <4>1
      <4>3. judge' = judge
        BY <1>2
      <4> QED BY <1>4, <2>2, <3>2, <4>1, <4>2, <4>3, CallServes
    <3> QED BY <3>1, <3>2
  <2>6. Counters' /\ Sessions'
    BY <1>2 DEF ServiceInvariant, Counters, Sessions
  <2>7. \A r : Unpaid(r)' \/ ~Unpaid(r) \/ r \in DOMAIN runs
    BY <1>2 DEF Unpaid, SetOf
  <2>8. NoSession \notin live'
    BY <2>6 DEF Sessions, NoSession
  <2>9. Servers'
    <3>1. /\ http' = [http EXCEPT ![t] = g] /\ calls' \in Nat /\ calls <= calls'
          /\ DOMAIN judge \subseteq DOMAIN judge' /\ DOMAIN runs \subseteq DOMAIN runs'
      BY <1>2, <1>3, <2>2, <2>3
    <3>2. \A r \in DOMAIN runs : runs'[r].session = runs[r].session
      BY <2>2
    <3>3. \A r \in DOMAIN runs' : r \in DOMAIN runs \/ (http[t].pc = "start" /\ r = http[t].run)
      BY <1>1, <1>2, <2>2
    <3>4. \A s0 \in DOMAIN judge : s0 \in live' => s0 \in live
      BY <1>2
    <3>5. g.pc = "start" => g.run = calls + 1
      BY <2>5
    <3>6. Serving(t)' /\ \A r \in DOMAIN runs : r \in Retained' => r \in Retained
      BY <2>2, <2>5
    <3> HIDE DEF h
    <3> QED BY <2>7, <2>8, <3>1, <3>2, <3>3, <3>4, <3>5, <3>6, ServersKept
  <2> QED BY <2>2, <2>6, <2>9 DEF ServiceInvariant
<1> QED BY <1>7, <1>8, <1>9

(* Runs that go on, and pay *)

\* A run's state and round change; what it is stays, and so do the other runs.
RunBecomes(r, row) ==
  /\ DOMAIN runs' = DOMAIN runs /\ runs'[r] = row
  /\ \A x \in DOMAIN runs : x # r => runs'[x] = runs[x]
  /\ row.request = runs[r].request /\ row.session = runs[r].session
  /\ row.content = runs[r].content
  /\ row.state = "running" => row.round = 0

LEMMA RunGoesOn ==
  ASSUME ServiceInvariant, NEW r \in DOMAIN runs, NEW row \in RunType, RunBecomes(r, row),
         UNCHANGED <<now, calls, restarts, live, judge, retained, requests>>
  PROVE  /\ Counters' /\ Sessions' /\ RunRows' /\ Tables'
         /\ DOMAIN runs' = DOMAIN runs
         /\ \A x \in DOMAIN runs : runs'[x].session = runs[x].session
         /\ Retained' = Retained /\ NoSession \notin live'
<1>1. /\ DOMAIN runs' = DOMAIN runs /\ runs'[r] = row
      /\ \A x \in DOMAIN runs : x # r => runs'[x] = runs[x]
  BY DEF RunBecomes
<1>2. \A x \in DOMAIN runs : /\ runs'[x].session = runs[x].session
                           /\ runs'[x].request = runs[x].request
                           /\ runs'[x].content = runs[x].content
  BY <1>1 DEF RunBecomes
<1>3. Counters' /\ Sessions'
  BY DEF ServiceInvariant, Counters, Sessions
<1>4. RunRows
  BY DEF ServiceInvariant
<1>5. RunRows'
  <2>1. ASSUME NEW x \in DOMAIN runs
        PROVE  runs'[x] \in RunType
    BY <1>1, <1>4 DEF RunRows
  <2>2. ASSUME NEW x \in DOMAIN runs, runs'[x].state = "running"
        PROVE  runs'[x].round = 0
    BY <1>1, <1>4, <2>2 DEF RunRows, RunBecomes
  <2> QED BY <1>1, <1>2, <1>4, <2>1, <2>2 DEF RunRows
<1>6. Retained' = Retained
  BY DEF Retained, SetOf
<1>7. Tables
  BY DEF ServiceInvariant
<1>8. Tables'
  <2>1. retained' = retained /\ requests' = requests
    OBVIOUS
  <2>2. RequestsNameRetainedRuns
    BY <1>7 DEF Tables
  <2>3. RequestsNameRetainedRuns'
    <3>1. ASSUME NEW q \in Requests, requests[q] # NoRun
          PROVE  requests[q] \in Retained /\ runs'[requests[q]].request = q
      BY <1>2, <1>7, <2>2, <3>1 DEF Tables, RequestsNameRetainedRuns
    <3>2. ASSUME NEW x \in Retained
          PROVE  requests[runs'[x].request] = x
      BY <1>2, <1>7, <2>2 DEF Tables, RequestsNameRetainedRuns
    <3> QED BY <1>6, <2>1, <3>1, <3>2 DEF RequestsNameRetainedRuns
  <2> QED BY <1>1, <1>6, <1>7, <2>1, <2>3 DEF Tables
<1>9. NoSession \notin live'
  BY <1>3 DEF Sessions, NoSession, ServiceInvariant, Counters
<1> QED BY <1>1, <1>2, <1>3, <1>5, <1>6, <1>8, <1>9

\* A run is not yet evaluated for good.
Open(r) == runs[r].state \in {"running", "review"}

LEMMA OpenIsUnpaid ==
  ASSUME Payments, NEW r \in DOMAIN runs, Open(r)
  PROVE  Unpaid(r)
BY DEF Payments, Unpaid, PaidUnder, Open

LEMMA WaitKeepsPayments ==
  ASSUME Payments, NEW r \in DOMAIN runs, Open(r), NEW row,
         RunBecomes(r, row), calls' = calls, UNCHANGED <<spent, orders>>
  PROVE  Payments' /\ \A x : Unpaid(x)' \/ ~Unpaid(x) \/ x \in DOMAIN runs
<1>1. Unpaid(r)
  BY OpenIsUnpaid
<1>2. DOMAIN runs' = DOMAIN runs /\ \A x \in DOMAIN runs : x # r => runs'[x] = runs[x]
  BY DEF RunBecomes
<1>3. spent' = spent /\ orders' = orders
  OBVIOUS
<1>4. ASSUME NEW n
      PROVE  SetOf(orders[n])' = SetOf(orders[n])
  BY <1>3 DEF SetOf
<1>5. ASSUME NEW n \in Purchases, NEW x \in SetOf(orders[n])
      PROVE  x \in 1..calls' /\ (x \in DOMAIN runs' => PaidUnder(runs'[x], n))
  <2>1. x # r
    BY <1>1 DEF Unpaid
  <2> QED BY <1>2, <2>1 DEF Payments
<1>6. Payments'
  BY <1>3, <1>4, <1>5 DEF Payments
<1>7. \A x : Unpaid(x)' \/ ~Unpaid(x) \/ x \in DOMAIN runs
  BY DEF Unpaid, SetOf
<1> QED BY <1>6, <1>7

\* The capability of a run is presented: its first one by a run that is still open, or
\* again by a run that was resolved in this round.
Presenting(r, row, round) ==
  /\ Open(r) \/ round = runs[r].round
  /\ row.state \in {"held", "presented", "done"} /\ row.round = round
  /\ Present(r, round)

\* The nonce is spent before the order is made, and no other nonce is left to the run.
LEMMA PresentKeepsPayments ==
  ASSUME Counters, Payments, RunRows, NEW r \in DOMAIN runs, NEW row,
         RunBecomes(r, row), calls' = calls,
         NEW round \in 0..MaxRounds, Presenting(r, row, round)
  PROVE  Payments' /\ \A x : Unpaid(x)' \/ ~Unpaid(x) \/ x \in DOMAIN runs
<1>1. PICK n0 : n0 = Nonce(r, round) /\ n0 = Purchase(r, round)
  BY DEF Nonce, Purchase
<1>2. /\ DOMAIN runs' = DOMAIN runs /\ runs'[r] = row
      /\ \A x \in DOMAIN runs : x # r => runs'[x] = runs[x]
  BY DEF RunBecomes
<1>3. PaidUnder(runs'[r], n0)
  BY <1>1, <1>2 DEF PaidUnder, Presenting, Purchase, RunBecomes
<1>4. runs[r].request \in Requests /\ r \in Ids /\ r \in 1..calls
  <2>1. runs[r] \in RunType /\ r \in 1..calls
    BY DEF RunRows
  <2>2. runs[r].request \in Requests
    BY <2>1 DEF RunType
  <2>3. r \in Ids
    BY <2>1, ServiceAssumption DEF Ids, Counters
  <2> QED BY <2>1, <2>2, <2>3
<1>5. n0 \in Nonces /\ n0 \in Purchases
  BY <1>1, <1>4 DEF Nonce, Nonces, Purchases
<1>6. ASSUME NEW n \in Purchases, r \in SetOf(orders[n])
      PROVE  n = n0
  <2>1. ~Open(r)
    BY <1>6, OpenIsUnpaid DEF Unpaid
  <2>2. n = <<runs[r].request, runs[r].round>> /\ round = runs[r].round
    BY <1>6, <2>1 DEF Payments, PaidUnder, Presenting
  <2> QED BY <1>1, <2>2 DEF Purchase
<1>7. ASSUME NEW n \in Purchases, NEW x \in SetOf(orders[n])
      PROVE  x \in 1..calls' /\ (x \in DOMAIN runs' => PaidUnder(runs'[x], n))
  <2>1. CASE x = r
    BY <1>3, <1>4, <1>6, <2>1
  <2>2. CASE x # r
    BY <1>2, <2>2 DEF Payments
  <2> QED BY <2>1, <2>2
<1>8. CASE orders' = orders /\ spent' \in {spent, spent \union {n0}}
  <2>1. ASSUME NEW n
        PROVE  SetOf(orders[n])' = SetOf(orders[n])
    BY <1>8 DEF SetOf
  <2>2. spent' \subseteq Nonces /\ \A n \in Purchases : n \notin spent' => n \notin spent
    BY <1>5, <1>8 DEF Payments
  <2>3. Payments'
    BY <1>7, <1>8, <2>1, <2>2 DEF Payments
  <2>4. \A x : Unpaid(x)' \/ ~Unpaid(x) \/ x \in DOMAIN runs
    BY <1>8 DEF Unpaid, SetOf
  <2> QED BY <2>3, <2>4
<1>9. CASE /\ n0 \notin spent /\ spent' = spent \union {n0}
           /\ orders' = [orders EXCEPT ![n0] = Append(orders[n0], r)]
  <2>1. DOMAIN orders = Purchases /\ orders[n0] = << >>
    BY <1>5, <1>9 DEF Payments
  <2>2. /\ DOMAIN orders' = Purchases /\ orders'[n0] = << r >>
        /\ \A n \in Purchases : n # n0 => orders'[n] = orders[n]
    <3>1. Append(orders[n0], r) = << r >>
      BY <2>1
    <3> QED BY <1>5, <1>9, <2>1, <3>1
  <2>3. SetOf(orders'[n0]) = {r}
    BY <2>2 DEF SetOf
  <2>4. ASSUME NEW n \in Purchases, n # n0
        PROVE  SetOf(orders'[n]) = SetOf(orders[n]) /\ r \notin SetOf(orders[n])
    BY <1>6, <2>2, <2>4 DEF SetOf
  <2>5. ASSUME NEW n \in Purchases
        PROVE  /\ orders'[n] \in Seq(Ids) /\ Len(orders'[n]) <= 1
               /\ n \notin spent' => orders'[n] = << >>
               /\ \A x \in SetOf(orders'[n]) :
                    x \in 1..calls' /\ (x \in DOMAIN runs' => PaidUnder(runs'[x], n))
    <3>1. CASE n = n0
      <4>1. ASSUME NEW x \in SetOf(orders'[n])
            PROVE  x \in 1..calls' /\ (x \in DOMAIN runs' => PaidUnder(runs'[x], n))
        <5>1. x = r
          BY <2>3, <3>1
        <5> QED BY <1>3, <1>4, <3>1, <5>1
      <4>2. n \in spent' /\ orders'[n] = << r >>
        BY <1>9, <2>2, <3>1
      <4>3. << r >> \in Seq(Ids) /\ Len(<< r >>) = 1
        BY <1>4
      <4> QED BY <4>1, <4>2, <4>3
    <3>2. CASE n # n0
      <4>1. orders'[n] = orders[n] /\ (n \notin spent' => n \notin spent)
        BY <1>9, <2>2, <3>2
      <4> QED BY <1>7, <4>1, <2>4, <3>2 DEF Payments
    <3> QED BY <3>1, <3>2
  <2>6. ASSUME NEW n \in Purchases, NEW m \in Purchases,
               SetOf(orders'[n]) \intersect SetOf(orders'[m]) # {}
        PROVE  n = m
    <3>1. CASE n # n0 /\ m # n0
      BY <2>4, <2>6, <3>1 DEF Payments
    <3>2. CASE n = n0 /\ m # n0
      BY <2>3, <2>4, <2>6, <3>2
    <3>3. CASE n # n0 /\ m = n0
      BY <2>3, <2>4, <2>6, <3>3
    <3> QED BY <3>1, <3>2, <3>3
  <2>7. spent' \subseteq Nonces
    BY <1>5, <1>9 DEF Payments
  <2>8. Payments'
    <3>1. ASSUME NEW n PROVE SetOf(orders[n])' = SetOf(orders'[n])
      BY DEF SetOf
    <3> QED BY <2>2, <2>5, <2>6, <2>7, <3>1 DEF Payments
  <2>9. ASSUME NEW x, Unpaid(x), x \notin DOMAIN runs
        PROVE  Unpaid(x)'
    <3>1. x # r
      BY <2>9
    <3>2. \A n \in Purchases : x \notin SetOf(orders'[n])
      BY <2>3, <2>4, <2>9, <3>1 DEF Unpaid
    <3> QED BY <3>2 DEF Unpaid, SetOf
  <2> QED BY <2>8, <2>9
<1>10. \/ orders' = orders /\ spent' \in {spent, spent \union {n0}}
       \/ /\ n0 \notin spent /\ spent' = spent \union {n0}
          /\ orders' = [orders EXCEPT ![n0] = Append(orders[n0], r)]
  BY <1>1 DEF Presenting, Present
<1> QED BY <1>8, <1>9, <1>10

\* A run waits with what it decided, or presents its capability.
Pays(r, row) ==
  \/ Open(r) /\ UNCHANGED <<spent, orders>>
  \/ Presenting(r, row, row.round)

LEMMA PaysOnce ==
  ASSUME ServiceInvariant, NEW r \in DOMAIN runs, NEW row \in RunType,
         RunBecomes(r, row), calls' = calls, Pays(r, row)
  PROVE  Payments' /\ \A x : Unpaid(x)' \/ ~Unpaid(x) \/ x \in DOMAIN runs
<1>1. Counters /\ RunRows /\ Payments /\ row.round \in 0..MaxRounds
  BY DEF ServiceInvariant, RunType
<1>2. CASE Open(r) /\ UNCHANGED <<spent, orders>>
  BY <1>1, <1>2, WaitKeepsPayments
<1>3. CASE Presenting(r, row, row.round)
  <2>1. PICK round \in 0..MaxRounds : round = row.round
    BY <1>1
  <2>2. Presenting(r, row, round)
    BY <1>3, <2>1
  <2> QED BY <1>1, <2>2, PresentKeepsPayments
<1> QED BY <1>2, <1>3 DEF Pays

\* A run's thread goes on, and no thread of the server moves.
LEMMA RunThreadMoves ==
  ASSUME ServiceInvariant, NEW r \in DOMAIN runs, NEW row \in RunType, RunBecomes(r, row),
         UNCHANGED <<now, calls, restarts, live, judge, retained, requests, http>>,
         Pays(r, row)
  PROVE  ServiceInvariant'
<1>1. /\ Counters' /\ Sessions' /\ RunRows' /\ Tables' /\ DOMAIN runs' = DOMAIN runs
      /\ \A x \in DOMAIN runs : runs'[x].session = runs[x].session
      /\ Retained' = Retained /\ NoSession \notin live'
  BY RunGoesOn
<1>2. Counters /\ Servers
  BY DEF ServiceInvariant
<1>4. Payments' /\ \A x : Unpaid(x)' \/ ~Unpaid(x) \/ x \in DOMAIN runs
  BY PaysOnce
<1>5. /\ http' = http /\ calls \in Nat /\ calls' = calls /\ DOMAIN judge' = DOMAIN judge
      /\ live' = live
  BY <1>2 DEF Counters
<1>6. ASSUME NEW u \in Threads
      PROVE  Serving(u)'
  <2>1. http'[u] = http[u]
    BY <1>5
  <2>2. ASSUME http[u].pc = "start"
        PROVE  http[u].run \notin DOMAIN runs' /\ Unpaid(http[u].run)'
    <3>1. http[u].run \notin DOMAIN runs /\ Unpaid(http[u].run)
      BY <1>2, <2>2 DEF Servers, Serving
    <3>2. ASSUME NEW x, x = http[u].run
          PROVE  Unpaid(x)'
      BY <1>4, <3>1, <3>2
    <3> QED BY <1>1, <2>1, <3>1, <3>2
  <2>3. calls' \in Nat /\ calls <= calls'
    BY <1>5
  <2> QED BY <1>1, <1>5, <2>1, <2>2, <2>3, ServingKept
<1>7. Servers'
  BY <1>2, <1>5, <1>6 DEF Servers, OwnRuns
<1> QED BY <1>1, <1>4, <1>7 DEF ServiceInvariant

\* A run changes its state, and keeps its round.
LEMMA StateBecomes ==
  ASSUME ServiceInvariant, NEW r \in DOMAIN runs, NEW s \in RunStates, s # "running",
         runs' = [runs EXCEPT ![r].state = s]
  PROVE  \E row \in RunType : /\ RunBecomes(r, row) /\ row.state = s
                              /\ row.round = runs[r].round
<1>1. runs[r] \in RunType /\ runs[r].round \in 0..MaxRounds
  BY DEF ServiceInvariant, RunRows, RunType
<1>2. PICK row : row = [runs[r] EXCEPT !.state = s]
  OBVIOUS
<1>3. /\ row \in RunType /\ row.state = s /\ row.round = runs[r].round
      /\ row.request = runs[r].request /\ row.session = runs[r].session
      /\ row.content = runs[r].content
  BY <1>1, <1>2 DEF RunType
<1>4. runs' = [runs EXCEPT ![r] = row]
  BY <1>2
<1>5. RunBecomes(r, row)
  BY <1>3, <1>4 DEF RunBecomes
<1> QED BY <1>3, <1>5

LEMMA DecideStep ==
  ASSUME ServiceInvariant, NEW r \in DOMAIN runs, Decide(r) \/ Pay(r)
  PROVE  ServiceInvariant'
<1>1. PICK s \in RunStates :
        /\ runs' = [runs EXCEPT ![r].state = s] /\ s # "running"
        /\ \/ UNCHANGED <<spent, orders>>
           \/ s \in {"held", "presented", "done"} /\ Present(r, 0)
  BY DEF Decide, Pay, RunStates
<1>2. PICK row \in RunType : RunBecomes(r, row) /\ row.state = s /\ row.round = runs[r].round
  BY <1>1, StateBecomes
<1>3. UNCHANGED <<now, calls, restarts, live, judge, retained, requests, http>> /\ Open(r)
  BY DEF Decide, Pay, Open
<1>4. runs[r].state = "running" => runs[r].round = 0
  BY DEF ServiceInvariant, RunRows
<1>5. Pays(r, row)
  BY <1>1, <1>2, <1>3, <1>4 DEF Pays, Presenting, Decide, Pay
<1> QED BY <1>2, <1>3, <1>5, RunThreadMoves

\* A request that moves a run on, and is answered.
LEMMA ActMoves ==
  ASSUME ServiceInvariant, NEW t \in Threads, http[t].pc = "acting",
         NEW r \in DOMAIN runs, r = http[t].run, NEW row \in RunType, RunBecomes(r, row),
         UNCHANGED <<now, calls, restarts, live, judge, retained, requests>>,
         Give(t, http[t].caller, r), Pays(r, row)
  PROVE  ServiceInvariant'
<1>1. /\ Counters' /\ Sessions' /\ RunRows' /\ Tables' /\ DOMAIN runs' = DOMAIN runs
      /\ \A x \in DOMAIN runs : runs'[x].session = runs[x].session
      /\ Retained' = Retained /\ NoSession \notin live'
  BY RunGoesOn
<1>2. Payments' /\ \A x : Unpaid(x)' \/ ~Unpaid(x) \/ x \in DOMAIN runs
  BY PaysOnce
<1>4. PICK c, g : c = http[t].caller /\ g = Answer("given", c, r)
  OBVIOUS
<1>5. DOMAIN http = Threads /\ Serving(t) /\ calls \in Nat /\ DOMAIN judge \subseteq Ids
        /\ DOMAIN runs \subseteq Ids
  BY Holds
<1>6. /\ c \in Ids \union {NoSession} /\ c \in {NoSession} \union DOMAIN judge
      /\ runs[r].session \in {NoSession, c}
  BY <1>4, <1>5 DEF Serving, AnswerType
<1>7. http' = [http EXCEPT ![t] = g]
  BY <1>4 DEF Give
<1>8. http'[t] = Answer("given", c, r) /\ g.pc # "start"
  BY <1>4, <1>5, <1>7 DEF Answer
<1>9. /\ calls' \in Nat /\ calls <= calls' /\ judge' = judge /\ live' = live
      /\ DOMAIN judge \subseteq DOMAIN judge'
      /\ DOMAIN runs \subseteq DOMAIN runs' /\ r \in Ids
      /\ \A x \in DOMAIN judge : x \in live' => x \in live
  BY <1>1, <1>5
<1>10. Serving(t)'
  BY <1>1, <1>6, <1>8, <1>9, AnswerServes
<1>11. \A x \in DOMAIN runs' : x \in DOMAIN runs \/ (http[t].pc = "start" /\ x = http[t].run)
  BY <1>1
<1>12. \A x \in DOMAIN runs : x \in Retained' => x \in Retained
  BY <1>1
<1>13. Servers'
  BY <1>1, <1>2, <1>7, <1>8, <1>9, <1>10, <1>11, <1>12, ServersKept
<1> QED BY <1>1, <1>2, <1>13 DEF ServiceInvariant

\* What a thread acts on.
LEMMA ActsOnRun ==
  ASSUME ServiceInvariant, NEW t \in Threads, http[t].pc = "acting"
  PROVE  http[t].run \in DOMAIN runs
BY Holds DEF Serving

LEMMA ActExecuteStep ==
  ASSUME ServiceInvariant, NEW t \in Threads, ActExecute(t)
  PROVE  ServiceInvariant'
<1>1. PICK r : r = http[t].run
  OBVIOUS
<1>2. /\ http[t].pc = "acting" /\ runs[r].state = "held" /\ Present(r, runs[r].round)
      /\ Give(t, http[t].caller, r)
      /\ UNCHANGED <<now, calls, restarts, live, judge, retained, requests>>
  BY <1>1 DEF ActExecute
<1>3. r \in DOMAIN runs
  BY <1>1, <1>2, ActsOnRun
<1>4. PICK s \in {"presented", "held"} : runs' = [runs EXCEPT ![r].state = s]
  BY <1>1 DEF ActExecute
<1>5. PICK row \in RunType : RunBecomes(r, row) /\ row.state = s /\ row.round = runs[r].round
  BY <1>3, <1>4, StateBecomes DEF RunStates
<1>6. Pays(r, row)
  BY <1>2, <1>4, <1>5 DEF Pays, Presenting
<1> QED BY <1>1, <1>2, <1>3, <1>5, <1>6, ActMoves

LEMMA ActReplayStep ==
  ASSUME ServiceInvariant, NEW t \in Threads, ActReplay(t)
  PROVE  ServiceInvariant'
<1>1. PICK r, row : r = http[t].run /\ row = runs[r]
  OBVIOUS
<1>2. /\ http[t].pc = "acting" /\ row.state \in {"held", "presented"} /\ Present(r, row.round)
      /\ Give(t, http[t].caller, r)
      /\ UNCHANGED <<now, calls, restarts, live, judge, retained, runs, requests>>
  BY <1>1 DEF ActReplay
<1>3. r \in DOMAIN runs
  BY <1>1, <1>2, ActsOnRun
<1>4. row \in RunType
  BY <1>1, <1>3 DEF ServiceInvariant, RunRows
<1>5. RunBecomes(r, row)
  BY <1>1, <1>2 DEF RunBecomes
<1>6. Pays(r, row)
  BY <1>1, <1>2 DEF Pays, Presenting
<1> QED BY <1>1, <1>2, <1>3, <1>4, <1>5, <1>6, ActMoves

LEMMA ActRecoverStep ==
  ASSUME ServiceInvariant, NEW t \in Threads, ActRecover(t)
  PROVE  ServiceInvariant'
<1>1. PICK r, round : r = http[t].run /\ round = runs[r].round + 1
  OBVIOUS
<1>2. /\ http[t].pc = "acting" /\ runs[r].state = "review" /\ runs[r].round < MaxRounds
      /\ Give(t, http[t].caller, r)
      /\ UNCHANGED <<now, calls, restarts, live, judge, retained, requests>>
  BY <1>1 DEF ActRecover, Recoverable
<1>3. r \in DOMAIN runs /\ Open(r)
  BY <1>1, <1>2, ActsOnRun DEF Open
<1>4. PICK s \in RunStates :
        /\ Recovered(r, s) /\ s # "running"
        /\ UNCHANGED <<spent, orders>> \/ (s \in {"presented", "done"} /\ Present(r, round))
  BY <1>1 DEF ActRecover, RunStates
<1>5. runs[r] \in RunType
  BY <1>3 DEF ServiceInvariant, RunRows
<1>6. round \in 0..MaxRounds
  BY <1>1, <1>2, <1>5, ServiceAssumption DEF RunType
<1>7. PICK row : row = [runs[r] EXCEPT !.round = round, !.state = s]
  OBVIOUS
<1>8. /\ row \in RunType /\ row.state = s /\ row.round = round
      /\ row.request = runs[r].request /\ row.session = runs[r].session
      /\ row.content = runs[r].content
  BY <1>5, <1>6, <1>7 DEF RunType
<1>9. runs' = [runs EXCEPT ![r] = row]
  BY <1>1, <1>4, <1>7 DEF Recovered
<1>10. RunBecomes(r, row)
  BY <1>3, <1>4, <1>8, <1>9 DEF RunBecomes
<1>11. Pays(r, row)
  BY <1>3, <1>4, <1>8 DEF Pays, Presenting
<1> QED BY <1>1, <1>2, <1>3, <1>8, <1>10, <1>11, ActMoves

(* The clock, a restart and the start *)

LEMMA TickStep ==
  ASSUME ServiceInvariant, Tick
  PROVE  ServiceInvariant'
<1>1. /\ now \in Nat /\ now < MaxTime /\ now' = now + 1
      /\ UNCHANGED <<calls, restarts, live, judge, retained, runs, requests, http, spent, orders>>
  BY DEF Tick, ServiceInvariant, Counters
<1>2. Counters'
  BY <1>1, ServiceAssumption DEF ServiceInvariant, Counters
<1>3. Sessions'
  <2>1. ASSUME NEW s \in DOMAIN judge
        PROVE  judge[s] \in SessionType /\ judge[s].seen <= now' /\ Len(judge[s].window) <= MaxWindow
    <3>1. judge[s] \in SessionType /\ judge[s].seen <= now /\ Len(judge[s].window) <= MaxWindow
      BY DEF ServiceInvariant, Sessions
    <3>2. judge[s].seen \in Nat
      BY <3>1 DEF SessionType
    <3>3. judge[s].seen <= now'
      BY <1>1, <3>1, <3>2
    <3> QED BY <3>1, <3>3
  <2> QED BY <1>1, <2>1 DEF ServiceInvariant, Sessions
<1>4. RunRows' /\ Tables' /\ Payments'
  BY <1>1, TablesKept DEF ServiceInvariant, Counters
<1>5. Servers'
  <2>1. Servers
    BY DEF ServiceInvariant
  <2>2. ASSUME NEW u \in Threads
        PROVE  Serving(u)'
    <3>1. /\ http' = http /\ calls' = calls /\ judge' = judge /\ runs' = runs /\ live' = live
          /\ Retained' = Retained
      BY <1>1 DEF Retained, SetOf
    <3>2. calls \in Nat /\ NoSession \notin live
      BY DEF ServiceInvariant, Counters, Sessions, NoSession
    <3>3. http[u].pc = "start" => http[u].run \notin DOMAIN runs' /\ Unpaid(http[u].run)'
      BY <1>1, <2>1, <3>1 DEF Servers, Serving, Unpaid, SetOf
    <3> QED BY <3>1, <3>2, <3>3, ServingKept
  <2> QED BY <1>1, <2>1, <2>2 DEF Servers, OwnRuns
<1> QED BY <1>2, <1>3, <1>4, <1>5 DEF ServiceInvariant

\* What memory is when the service starts.
LEMMA EmptyMemory ==
  ASSUME live' = {}, retained' = << >>, requests' = [q \in Requests |-> NoRun],
         http' = [t \in Threads |-> Idle], runs' = << >>, judge' = << >>
  PROVE  Sessions' /\ RunRows' /\ Tables' /\ Servers' /\ DOMAIN runs' = {}
<1>1. DOMAIN runs' = {} /\ DOMAIN judge' = {}
  OBVIOUS
<1>2. Sessions'
  <2>1. IsFiniteSet(live') /\ Cardinality(live') = 0
    BY FS_EmptySet
  <2>2. Cardinality(live') <= MaxSessions
    BY <2>1, ServiceAssumption
  <2> QED BY <1>1, <2>1, <2>2 DEF Sessions
<1>3. RunRows'
  BY <1>1 DEF RunRows
<1>4. Tables'
  <2>1. Retained' = {}
    BY DEF Retained, SetOf
  <2>2. RequestsNameRetainedRuns'
    BY <2>1 DEF RequestsNameRetainedRuns
  <2>3. retained' \in Seq(Ids) /\ Len(retained') <= MaxRetained
    BY ServiceAssumption
  <2>4. requests' \in [Requests -> Ids \union {NoRun}]
    OBVIOUS
  <2> QED BY <1>1, <2>1, <2>2, <2>3, <2>4 DEF Tables
<1>5. Servers'
  <2>1. \A t \in Threads : Serving(t)'
    BY IdleServes
  <2>2. DOMAIN http' = Threads /\ \A t \in Threads : http'[t].pc = "idle"
    BY DEF Idle
  <2> QED BY <2>1, <2>2 DEF Servers, OwnRuns
<1> QED BY <1>1, <1>2, <1>3, <1>4, <1>5

LEMMA RestartStep ==
  ASSUME ServiceInvariant, Restart
  PROVE  ServiceInvariant'
<1>1. /\ restarts < MaxRestarts /\ restarts' = restarts + 1 /\ Forget
      /\ now' = now /\ calls' = calls /\ spent' = spent /\ orders' = orders
  BY DEF Restart
<1>2. Sessions' /\ RunRows' /\ Tables' /\ Servers' /\ DOMAIN runs' = {}
  BY <1>1, EmptyMemory DEF Forget
<1>3. Counters'
  BY <1>1, ServiceAssumption DEF ServiceInvariant, Counters
<1>4. Payments'
  <2>1. Payments
    BY DEF ServiceInvariant
  <2>2. ASSUME NEW n
        PROVE  SetOf(orders[n])' = SetOf(orders[n])
    BY <1>1 DEF SetOf
  <2> QED BY <1>1, <1>2, <2>1, <2>2 DEF Payments
<1> QED BY <1>2, <1>3, <1>4 DEF ServiceInvariant

LEMMA ServiceStart == Init => ServiceInvariant
<1> SUFFICES ASSUME Init PROVE ServiceInvariant
  OBVIOUS
<1>1. Counters
  BY ServiceAssumption DEF Init, Counters
<1>2. DOMAIN runs = {} /\ DOMAIN judge = {} /\ live = {} /\ retained = << >>
  BY DEF Init
<1>3. Sessions
  <2>1. IsFiniteSet(live) /\ Cardinality(live) = 0
    BY <1>2, FS_EmptySet
  <2>2. Cardinality(live) <= MaxSessions
    BY <2>1, ServiceAssumption
  <2> QED BY <1>2, <2>1, <2>2 DEF Sessions
<1>4. RunRows
  BY <1>2 DEF RunRows
<1>5. Tables
  <2>1. Retained = {}
    BY <1>2 DEF Retained, SetOf
  <2>2. RequestsNameRetainedRuns
    BY <2>1 DEF Init, RequestsNameRetainedRuns
  <2>3. retained \in Seq(Ids) /\ Len(retained) <= MaxRetained
    BY <1>2, ServiceAssumption
  <2>4. requests \in [Requests -> Ids \union {NoRun}]
    BY DEF Init
  <2> QED BY <1>2, <2>1, <2>2, <2>3, <2>4 DEF Tables
<1>6. Payments
  <2>1. spent = {} /\ DOMAIN orders = Purchases /\ \A n \in Purchases : orders[n] = << >>
    BY DEF Init
  <2>2. \A n \in Purchases : SetOf(orders[n]) = {} /\ orders[n] \in Seq(Ids) /\ Len(orders[n]) = 0
    <3>1. SetOf(<< >>) = {} /\ << >> \in Seq(Ids) /\ Len(<< >>) = 0
      BY DEF SetOf
    <3> QED BY <2>1, <3>1
  <2> QED BY <2>1, <2>2 DEF Payments
<1>7. Servers
  <2>1. DOMAIN http = Threads /\ \A t \in Threads : http[t].pc = "idle"
    BY DEF Init, Idle
  <2>2. \A t \in Threads : Serving(t)
    BY <2>1 DEF Serving, Pcs
  <2> QED BY <2>1, <2>2 DEF Servers, OwnRuns
<1> QED BY <1>1, <1>3, <1>4, <1>5, <1>6, <1>7 DEF ServiceInvariant

LEMMA ServiceStep == ServiceInvariant /\ [Next]_vars => ServiceInvariant'
<1> SUFFICES ASSUME ServiceInvariant, [Next]_vars PROVE ServiceInvariant'
  OBVIOUS
<1>1. ASSUME NEW t \in Threads,
             \/ ArriveStart(t) \/ OpenSession(t) \/ Reject(t) \/ Onboard(t)
             \/ StartRun(t) \/ RecordRun(t)
             \/ GuardRun(t) \/ AuthorizeRunAccess(t)
             \/ ActTooLate(t) \/ ActInTime(t) \/ ActElse(t)
             \/ ActExecute(t) \/ ActReplay(t) \/ ActRecover(t)
      PROVE  ServiceInvariant'
  BY <1>1, ArriveStartStep, OpenSessionStep, RejectStep, OnboardStep, StartRunStep, RecordRunStep,
    GuardRunStep, AuthorizeRunAccessStep, AnswerStep, ActExecuteStep, ActReplayStep,
    ActRecoverStep
<1>2. ASSUME NEW r \in DOMAIN runs, Decide(r) \/ Pay(r)
      PROVE  ServiceInvariant'
  BY <1>2, DecideStep
<1>3. CASE Tick
  BY <1>3, TickStep
<1>4. CASE Restart
  BY <1>4, RestartStep
<1>5. CASE UNCHANGED vars
  <2>1. UNCHANGED <<now, calls, restarts, live, judge, retained, runs, requests, http, spent, orders>>
    BY <1>5 DEF vars
  <2>2. Counters' /\ Sessions'
    BY <2>1 DEF ServiceInvariant, Counters, Sessions
  <2>3. RunRows' /\ Tables' /\ Payments'
    BY <2>1, TablesKept DEF ServiceInvariant, Counters
  <2>4. Servers'
    <3>1. Servers
      BY DEF ServiceInvariant
    <3>2. ASSUME NEW u \in Threads
          PROVE  Serving(u)'
      <4>1. /\ http' = http /\ calls' = calls /\ judge' = judge /\ runs' = runs /\ live' = live
            /\ Retained' = Retained
        BY <2>1 DEF Retained, SetOf
      <4>2. calls \in Nat /\ NoSession \notin live
        BY DEF ServiceInvariant, Counters, Sessions, NoSession
      <4>3. http[u].pc = "start" => http[u].run \notin DOMAIN runs' /\ Unpaid(http[u].run)'
        BY <2>1, <3>1, <4>1 DEF Servers, Serving, Unpaid, SetOf
      <4> QED BY <4>1, <4>2, <4>3, ServingKept
    <3> QED BY <2>1, <3>1, <3>2 DEF Servers, OwnRuns
  <2> QED BY <2>2, <2>3, <2>4 DEF ServiceInvariant
<1> QED BY <1>1, <1>2, <1>3, <1>4, <1>5 DEF Next

LEMMA ServiceInductive == Spec => []ServiceInvariant
<1> QED BY ServiceStart, ServiceStep, PTL DEF Spec

\* The tables keep their types and their limits, whatever those are.
THEOREM ServiceTypeCorrect == Spec => []TablesKeepLimits
<1>1. ServiceInvariant => TablesKeepLimits
  <2> SUFFICES ASSUME ServiceInvariant PROVE TablesKeepLimits
    OBVIOUS
  <2>1. now \in 0..MaxTime /\ calls \in 0..MaxCalls /\ restarts \in 0..MaxRestarts
    BY ServiceAssumption DEF ServiceInvariant, Counters
  <2>2. Cardinality(live) <= MaxSessions /\ live \subseteq DOMAIN judge
    BY DEF ServiceInvariant, Sessions
  <2>3. ASSUME NEW s \in DOMAIN judge
        PROVE  /\ judge[s].seen \in 0..now /\ Len(judge[s].window) <= MaxWindow
               /\ judge[s].onboarded \in 0..MaxOnboarded
    BY DEF ServiceInvariant, Counters, Sessions, SessionType
  <2>4. DOMAIN runs \subseteq Ids
    BY ServiceAssumption DEF ServiceInvariant, Counters, RunRows, Ids
  <2>5. \A r \in DOMAIN runs : runs[r].state \in RunStates /\ runs[r].round \in 0..MaxRounds
    BY DEF ServiceInvariant, RunRows, RunType
  <2>6. /\ Len(retained) <= MaxRetained /\ Retained \subseteq DOMAIN runs
        /\ requests \in [Requests -> Ids \union {NoRun}]
    BY DEF ServiceInvariant, Tables
  <2>7. \A t \in Threads : http[t].pc \in Pcs
    BY DEF ServiceInvariant, Servers, Serving
  <2>8. spent \subseteq Nonces
    BY DEF ServiceInvariant, Payments
  <2> QED BY <2>1, <2>2, <2>3, <2>4, <2>5, <2>6, <2>7, <2>8 DEF TablesKeepLimits
<1> QED BY <1>1, ServiceInductive, PTL

\* A request id leads to the one retained run of that request, and to no run that
\* was evicted.
THEOREM ServiceRequestsNameRetainedRuns == Spec => []RequestsNameRetainedRuns
<1>1. ServiceInvariant => RequestsNameRetainedRuns
  BY DEF ServiceInvariant, Tables
<1> QED BY <1>1, ServiceInductive, PTL

\* Nobody is given another session's run or listing, and a live session is refused
\* none of its retained runs.
THEOREM ServiceRunsAreTheirOwners == Spec => []RunsAreTheirOwners
<1>1. ServiceInvariant => RunsAreTheirOwners
  <2> SUFFICES ASSUME ServiceInvariant, NEW t \in Threads
               PROVE  /\ http[t].pc = "given" =>
                           /\ runs[http[t].run].session \in {NoSession, http[t].caller}
                           /\ \/ runs[http[t].run].content \in Products
                              \/ runs[http[t].run].content.session = http[t].caller
                      /\ http[t].pc = "refused" => ~Reaches(http[t].caller, http[t].run)
    BY DEF RunsAreTheirOwners, Reaches
  <2>1. Serving(t)
    BY DEF ServiceInvariant, Servers
  <2>2. ASSUME http[t].pc = "given"
        PROVE  /\ runs[http[t].run].session \in {NoSession, http[t].caller}
               /\ \/ runs[http[t].run].content \in Products
                  \/ runs[http[t].run].content.session = http[t].caller
    <3>1. http[t].run \in DOMAIN runs /\ runs[http[t].run].session \in {NoSession, http[t].caller}
      BY <2>1, <2>2 DEF Serving
    <3>2. PICK row : row = runs[http[t].run]
      OBVIOUS
    <3>3. /\ row.content \in Products \/ row.content \in Merchants
          /\ row.content \in Products \/ row.content.session = row.session
      BY <3>1, <3>2 DEF ServiceInvariant, RunRows
    <3>4. CASE row.content \in Products
      BY <3>1, <3>2, <3>4
    <3>5. CASE row.content \notin Products
      <4>1. row.content.session \in Ids /\ row.content.session = row.session
        BY <3>3, <3>5 DEF Merchants
      <4>2. row.session # NoSession
        BY <4>1, ServiceAssumption DEF Ids, NoSession
      <4> QED BY <3>1, <3>2, <4>1, <4>2
    <3> QED BY <3>4, <3>5
  <2> QED BY <2>1, <2>2 DEF Serving
<1> QED BY <1>1, ServiceInductive, PTL

\* A request id pays at most once in each round of the evaluation, over all the runs that
\* retries, evictions and restarts make of it, and a run pays at most once, over its
\* execution, the deferred or mutated ones, replays and all rounds of its recovery.
THEOREM ServicePaidOnce == Spec => []PaidOnce
<1>1. ServiceInvariant => PaidOnce
  BY DEF ServiceInvariant, Payments, PaidOnce
<1> QED BY <1>1, ServiceInductive, PTL
=============================================================================
