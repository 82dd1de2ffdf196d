-------------------------- MODULE PlaygroundPageProofs --------------------------
(***************************************************************************)
(* Theorems about the playground of the browser client, for any guided     *)
(* scenarios, any number of runs and of operations on them.                *)
(*                                                                         *)
(* ShownIsCurrent looks at the snapshot alone, but what will be shown next *)
(* is under way.  A run is asked about by one loop, the one that started   *)
(* it, until its end is shown; only then can it be operated on, by one     *)
(* request at a time.  So an answer about a run that ended, however old,   *)
(* still is what the server has when it arrives.                           *)
(***************************************************************************)
EXTENDS PlaygroundPage, TLAPS

\* The interactions that start runs and poll them.
Loops == Interactions \ {"action"}

\* What is answered with a run.
Asking == {"authorize", "scenario", "poll", "recover", "operate"}

\* The run that an interaction is about, once it knows it.
About(i) == IF call[i].run # NoRun THEN call[i].run ELSE call[i].answer.run

Started(r) == run[r].state # "UNSTARTED"

Matches(told) ==
  /\ told.state = run[told.run].state
  /\ told.decision = run[told.run].decision
  /\ told.version = run[told.run].version

\* The answer about a run.
Account(told) ==
  /\ told.run \in Runs
  /\ Started(told.run)
  /\ told.explained \in {NoDecision, told.decision}
  /\ told.state = "RUNNING" \/ (told.state \in Terminal /\ Matches(told))

-----------------------------------------------------------------------------
(* The inductive invariant *)

\* Each interaction waits for the kind of answer that it may get.
CallShape(i) ==
  /\ call[i].at = "idle" => call[i] = Idle
  /\ call[i].at # "idle" =>
       call[i].what \in IF i = "action" THEN {"recover", "operate"}
                        ELSE {"preview", "authorize", "scenario", "poll"}
  /\ call[i].at = "waiting" => call[i].what = "poll"
  /\ call[i].run # NoRun <=> call[i].what \in {"poll", "recover", "operate"}
  /\ ~(call[i].at = "answered" /\ call[i].what \in Asking) => call[i].answer = NoSnapshot

\* What is answered holds of the server's run, and is about the run asked for.
AnswerHolds(i) ==
  call[i].at = "answered" /\ call[i].what \in Asking =>
    \E told \in SnapshotType :
      /\ call[i].answer = told /\ Account(told)
      /\ call[i].run # NoRun => told.run = call[i].run

\* A loop has its run for itself.
RunsAreStarted == \A i \in Interactions : About(i) # NoRun => Started(About(i))

OneLoopPerRun ==
  \A i, j \in Loops : i # j /\ About(i) # NoRun => About(i) # About(j)

\* No loop is about it any more, and it ended.
Settled(r) == run[r].state \in Terminal /\ \A i \in Loops : About(i) # r

OperatedIsSettled == \A r \in Runs : call["action"].run = r => Settled(r)

\* What is shown is a run, and one that is shown to have ended is settled.
ShownIsSettled ==
  snapshot # NoSnapshot =>
    \E r \in Runs :
      /\ snapshot.run = r /\ Started(r)
      /\ snapshot.state # "RUNNING" => snapshot.state = run[r].state /\ Settled(r)

PageInvariant ==
  /\ TypeOK
  /\ generation = newest
  /\ \A i \in Interactions : CallShape(i) /\ AnswerHolds(i)
  /\ RunsAreStarted
  /\ OneLoopPerRun
  /\ OperatedIsSettled
  /\ ShownIsSettled
  /\ ShownIsCurrent
-----------------------------------------------------------------------------
(* Lemmas: what calls and answers are *)

CallType ==
  [at : {"idle", "sent", "answered", "waiting"},
   what : {"none", "preview", "authorize", "scenario", "poll", "recover", "operate"},
   run : Runs \union {NoRun},
   answer : SnapshotType]

RunType ==
  [state : {"UNSTARTED", "RUNNING"} \union Terminal,
   decision : Decisions \union {NoDecision}, version : 0..MaxOperations]

LEMMA NoSnapshotFacts ==
  /\ NoSnapshot \in SnapshotType
  /\ NoSnapshot.run = NoRun /\ NoSnapshot.state = "NONE"
BY PageAssumption DEF NoSnapshot, SnapshotType, NoRun

LEMMA NoRunIsNone == NoRun \notin Runs
BY DEF NoRun, Runs

LEMMA IdleFacts ==
  /\ Idle \in CallType
  /\ Idle.at = "idle" /\ Idle.what = "none" /\ Idle.run = NoRun /\ Idle.answer = NoSnapshot
BY NoSnapshotFacts DEF Idle, CallType

LEMMA RequestFacts ==
  ASSUME NEW what \in {"preview", "authorize", "scenario", "poll", "recover", "operate"},
         NEW r \in Runs \union {NoRun}
  PROVE  /\ Request(what, r) \in CallType
         /\ Request(what, r).at = "sent" /\ Request(what, r).what = what
         /\ Request(what, r).run = r /\ Request(what, r).answer = NoSnapshot
BY NoSnapshotFacts DEF Request, Idle, CallType

LEMMA AnsweredFacts ==
  ASSUME NEW c \in CallType, NEW told \in SnapshotType
  PROVE  /\ Answered(c, told) \in CallType
         /\ Answered(c, told).at = "answered" /\ Answered(c, told).what = c.what
         /\ Answered(c, told).run = c.run /\ Answered(c, told).answer = told
BY DEF Answered, CallType

LEMMA WaitingFacts ==
  ASSUME NEW i, NEW told \in SnapshotType
  PROVE  LET c == AfterRender(i, told) IN
         /\ c \in CallType
         /\ told.state \in Terminal => c = Idle
         /\ told.state \notin Terminal =>
              c.at = "waiting" /\ c.what = "poll" /\ c.run = told.run /\ c.answer = NoSnapshot
BY NoSnapshotFacts DEF AfterRender, Idle, CallType, SnapshotType

\* The run as it is after the step.
LEMMA ToldFacts ==
  ASSUME NEW r \in Runs, NEW explained \in {run'[r].decision, NoDecision},
         run' \in [Runs -> RunType], run'[r].state # "UNSTARTED",
         NEW told, told = Told(r, explained)
  PROVE  /\ told \in SnapshotType /\ told.run = r
         /\ Account(told)' /\ Matches(told)'
<1>1. /\ told.run = r /\ told.state = run'[r].state /\ told.decision = run'[r].decision
      /\ told.version = run'[r].version /\ told.explained = explained
  BY DEF Told
<1>2. run'[r] \in RunType
  OBVIOUS
<1>3. told \in SnapshotType
  BY <1>2 DEF Told, RunType, SnapshotType
<1>4. Matches(told)'
  BY <1>1 DEF Matches
<1>5. Account(told)'
  BY <1>1, <1>2, <1>4 DEF Account, Started, RunType, Terminal
<1> QED BY <1>1, <1>3, <1>4, <1>5

LEMMA CarriedFacts ==
  ASSUME NEW told \in SnapshotType, snapshot \in SnapshotType,
         told.explained \in {NoDecision, told.decision},
         snapshot.explained \in {NoDecision, snapshot.decision}
  PROVE  LET carried == PgCarryNarration(told) IN
         /\ carried \in SnapshotType
         /\ carried.explained \in {NoDecision, carried.decision}
         /\ carried.run = told.run /\ carried.state = told.state
         /\ carried.decision = told.decision /\ carried.version = told.version
BY DEF PgCarryNarration, SnapshotType

\* The type invariant, with names for its larger types.
PageTypes ==
  /\ generation \in Scenarios \union {NoOne} /\ newest \in Scenarios \union {NoOne}
  /\ snapshot \in SnapshotType
  /\ runId \in Runs \union {NoRun}
  /\ ask \in BOOLEAN
  /\ call \in [Interactions -> CallType]
  /\ \A i \in Interactions :
       call[i].what \in {"poll", "recover", "operate"} => call[i].run # NoRun
  /\ run \in [Runs -> RunType]
  /\ missed \subseteq Runs

LEMMA Types == (TypeOK <=> PageTypes) /\ (TypeOK <=> PageTypes)'
BY DEF TypeOK, PageTypes, CallType, RunType

-----------------------------------------------------------------------------
(* Lemmas: one step each *)

\* A call that is about no run.
Blank(c) ==
  \/ c = Idle
  \/ /\ c \in CallType /\ c.run = NoRun /\ c.answer = NoSnapshot
     /\ \/ c.at = "sent" /\ c.what \in {"preview", "authorize", "scenario"}
        \/ c.at = "answered" /\ c.what = "preview"

\* The page keeps its snapshot or loses it.
LEMMA Blanking ==
  ASSUME PageInvariant,
         call' \in [Interactions -> CallType],
         call'["action"] = call["action"],
         \A i \in Loops : call'[i] = call[i] \/ Blank(call'[i]),
         \/ UNCHANGED <<snapshot, runId>>
         \/ snapshot' = NoSnapshot /\ runId' \in Runs \union {NoRun},
         generation' = newest', newest' \in Scenarios \union {NoOne},
         ask' \in BOOLEAN, UNCHANGED <<run, missed>>
  PROVE  PageInvariant'
<1> USE DEF PageInvariant
<1>1. "action" \in Interactions /\ \A i \in Interactions : i \in Loops \/ i = "action"
  BY DEF Loops, Interactions
<1>2. \A i \in Interactions : call'[i] = call[i] \/ (i \in Loops /\ Blank(call'[i]))
  BY <1>1
<1>3. \A i \in Interactions :
        Blank(call'[i]) =>
          /\ About(i)' = NoRun
          /\ i \in Loops => CallShape(i)'
          /\ ~(call'[i].at = "answered" /\ call'[i].what \in Asking)
          /\ call'[i].what \notin {"poll", "recover", "operate"}
  BY NoSnapshotFacts, IdleFacts DEF Blank, About, CallShape, Loops, Asking
<1>4. \A i \in Interactions : call'[i] = call[i] => About(i)' = About(i) /\ (CallShape(i)' <=> CallShape(i))
  BY DEF About, CallShape
<1>5. TypeOK'
  BY <1>2, <1>3, Types, NoSnapshotFacts DEF PageTypes
<1>6. \A i \in Interactions : CallShape(i)'
  BY <1>2, <1>3, <1>4
<1>7. \A i \in Interactions : AnswerHolds(i)'
  BY <1>2, <1>3 DEF AnswerHolds, Account, Started, Matches
<1>8. RunsAreStarted'
  BY <1>2, <1>3, <1>4 DEF RunsAreStarted, Started
<1>9. OneLoopPerRun'
  BY <1>1, <1>2, <1>3, <1>4 DEF OneLoopPerRun, Loops
<1>10. \A r \in Runs : Settled(r) => Settled(r)'
  BY <1>1, <1>2, <1>3, <1>4, NoRunIsNone DEF Settled, Loops
<1>11. OperatedIsSettled'
  BY <1>10 DEF OperatedIsSettled
<1>12. ShownIsSettled'
  BY <1>10 DEF ShownIsSettled, Started
<1>13. ShownIsCurrent'
  BY <1>1 DEF ShownIsCurrent
<1> QED BY <1>5, <1>6, <1>7, <1>8, <1>9, <1>11, <1>12, <1>13

LEMMA AbortFacts ==
  ASSUME PageTypes, NEW calls \in [Interactions -> CallType]
  PROVE  /\ Abort(calls) \in [Interactions -> CallType]
         /\ Abort(calls)["action"] = calls["action"]
         /\ \A i \in Interactions : Abort(calls)[i] \in {calls[i], Idle}
<1>1. generation # "action" /\ "action" \in Interactions
  BY PageAssumption DEF PageTypes, Interactions
<1> QED BY <1>1, IdleFacts DEF Abort

LEMMA Clicking ==
  ASSUME PageInvariant,
         \/ Retire \/ PgSearch \/ PgSelect \/ PgAuthorize
         \/ \E i \in Scenarios : PgRunScenario(i)
  PROVE  PageInvariant'
<1>1. PageTypes /\ call \in [Interactions -> CallType] /\ NoRun \in Runs \union {NoRun}
  BY Types DEF PageInvariant, PageTypes
<1>2. /\ "action" \in Interactions /\ "workspace" \in Loops
      /\ Scenarios \subseteq Loops /\ Loops \subseteq Interactions /\ "action" \notin Loops
  BY PageAssumption DEF Loops, Interactions
<1> DEFINE Cleared ==
      /\ call' \in [Interactions -> CallType]
      /\ call'["action"] = call["action"]
      /\ \A i \in Loops : call'[i] = call[i] \/ Blank(call'[i])
<1>3. ASSUME NEW i \in Loops, NEW what \in {"preview", "authorize", "scenario"}
      PROVE  /\ call' = Abort([call EXCEPT ![i] = Request(what, NoRun)]) => Cleared
             /\ call' = [Abort(call) EXCEPT ![i] = Request(what, NoRun)] => Cleared
  <2>1. Request(what, NoRun) \in CallType /\ Blank(Request(what, NoRun))
    BY RequestFacts DEF Blank
  <2>2. Blank(Idle)
    BY DEF Blank
  <2>3. CASE call' = Abort([call EXCEPT ![i] = Request(what, NoRun)])
    <3> DEFINE calls == [call EXCEPT ![i] = Request(what, NoRun)]
    <3>1. /\ calls \in [Interactions -> CallType] /\ calls["action"] = call["action"]
          /\ \A j \in Loops : calls[j] = call[j] \/ Blank(calls[j])
      BY <1>1, <1>2, <2>1
    <3> HIDE DEF calls
    <3>2. call' = Abort(calls)
      BY <2>3 DEF calls
    <3> QED BY <1>1, <1>2, <2>2, <3>1, <3>2, AbortFacts
  <2>4. CASE call' = [Abort(call) EXCEPT ![i] = Request(what, NoRun)]
    BY <1>1, <1>2, <2>1, <2>2, <2>4, AbortFacts
  <2> QED BY <2>3, <2>4
<1>4. call' = Abort(call) => Cleared
  BY <1>1, <1>2, AbortFacts DEF Blank
<1>5. Cleared
  <2>1. CASE Retire \/ PgSearch
    BY <1>4, <2>1 DEF Retire, PgSearch, CancelScenario
  <2>2. CASE PgSelect
    BY <1>2, <1>3, <2>2 DEF PgSelect, CancelScenario
  <2>3. CASE PgAuthorize
    BY <1>2, <1>3, <2>3 DEF PgAuthorize, CancelScenario
  <2>4. CASE \E i \in Scenarios : PgRunScenario(i)
    BY <1>2, <1>3, <2>4 DEF PgRunScenario
  <2> QED BY <2>1, <2>2, <2>3, <2>4
<1>6. /\ \/ UNCHANGED <<snapshot, runId>>
         \/ snapshot' = NoSnapshot /\ runId' \in Runs \union {NoRun}
      /\ generation' = newest' /\ newest' \in Scenarios \union {NoOne}
      /\ ask' \in BOOLEAN /\ UNCHANGED <<run, missed>>
  BY <1>1 DEF Retire, PgSearch, PgSelect, PgAuthorize, PgRunScenario, CancelScenario, PageTypes
<1> HIDE DEF Cleared
<1>7. Cleared => PageInvariant'
  BY <1>6, Blanking DEF Cleared
<1> QED BY <1>5, <1>7

LEMMA WorkspaceSteps ==
  ASSUME PageInvariant, NEW i \in Interactions,
         \/ ServePreview \/ ArrivePreview
         \/ i # "action" /\ Refuse(i)
         \/ i # "action" /\ Poll(i) /\ ~IsActive(i)
  PROVE  PageInvariant'
<1>1. PageTypes /\ generation = newest /\ NoRun \in Runs \union {NoRun}
  BY Types DEF PageInvariant
<1>2. /\ "action" \in Interactions /\ "workspace" \in Loops
      /\ i # "action" => i \in Loops
      /\ Loops \subseteq Interactions /\ "action" \notin Loops
  BY PageAssumption DEF Loops, Interactions
<1>3. PICK c \in CallType, j \in Loops : call' = [call EXCEPT ![j] = c] /\ Blank(c)
  <2>1. CASE ServePreview
    <3>1. /\ call["workspace"] \in CallType /\ CallShape("workspace")
          /\ call["workspace"].at = "sent" /\ call["workspace"].what = "preview"
      BY <1>1, <1>2, <2>1 DEF ServePreview, PageInvariant, PageTypes
    <3>2. call["workspace"].run = NoRun
      BY <3>1 DEF CallShape
    <3> DEFINE c == Answered(call["workspace"], NoSnapshot)
    <3>3. c \in CallType /\ Blank(c)
      BY <3>1, <3>2, AnsweredFacts, NoSnapshotFacts DEF Blank
    <3>4. call' = [call EXCEPT !["workspace"] = c]
      BY <2>1 DEF ServePreview
    <3> QED BY <1>2, <3>3, <3>4
  <2>2. CASE ~ServePreview
    BY <1>2, <2>2, IdleFacts DEF ArrivePreview, Refuse, Poll, Blank
  <2> QED BY <2>1, <2>2
<1>4. /\ call' \in [Interactions -> CallType]
      /\ call'["action"] = call["action"]
      /\ \A k \in Loops : call'[k] = call[k] \/ Blank(call'[k])
  BY <1>1, <1>2, <1>3 DEF PageTypes
<1>5. /\ \/ UNCHANGED <<snapshot, runId>>
         \/ snapshot' = NoSnapshot /\ runId' \in Runs \union {NoRun}
      /\ generation' = newest' /\ newest' \in Scenarios \union {NoOne}
      /\ ask' \in BOOLEAN /\ UNCHANGED <<run, missed>>
  BY <1>1 DEF ServePreview, ArrivePreview, Refuse, Poll, PageTypes, page, guided
<1> QED BY <1>4, <1>5, Blanking

\* What an operation on a settled run leaves alone.
LEMMA LoopsKept ==
  ASSUME PageInvariant, PageTypes',
         \A i \in Loops : call'[i] = call[i],
         \A r \in Runs : run'[r] = run[r] \/ (run'[r].state = run[r].state /\ Settled(r))
  PROVE  /\ OneLoopPerRun'
         /\ \A r \in Runs : Settled(r) => Settled(r)'
         /\ \A r \in Runs : Started(r) => Started(r)'
         /\ \A i \in Loops : CallShape(i)' /\ About(i)' = About(i)
         /\ \A i \in Loops : AnswerHolds(i)'
<1>1. PageTypes /\ Loops \subseteq Interactions
  BY Types DEF PageInvariant, Loops
<1>2. \A i \in Loops : CallShape(i)' /\ About(i)' = About(i)
  BY <1>1 DEF PageInvariant, CallShape, About, Loops
<1>3. OneLoopPerRun'
  BY <1>2 DEF PageInvariant, OneLoopPerRun
<1>4. \A r \in Runs : Settled(r) => Settled(r)'
  BY <1>2 DEF Settled
<1>5. \A r \in Runs : Started(r) => Started(r)'
  BY DEF Started
<1>6. \A i \in Loops : AnswerHolds(i)'
  <2> SUFFICES ASSUME NEW i \in Loops, call[i].at = "answered", call[i].what \in Asking
               PROVE  \E told \in SnapshotType :
                        /\ call[i].answer = told /\ Account(told)'
                        /\ call[i].run # NoRun => told.run = call[i].run
    BY DEF AnswerHolds
  <2>1. PICK told \in SnapshotType :
          /\ call[i].answer = told /\ Account(told)
          /\ call[i].run # NoRun => told.run = call[i].run
    BY <1>1 DEF PageInvariant, AnswerHolds
  <2>3. About(i) = told.run /\ told.run \in Runs
    BY <2>1 DEF About, Account
  <2>4. ~Settled(told.run)
    BY <2>3 DEF Settled
  <2>5. PICK r \in Runs : r = told.run
    BY <2>3
  <2>6. run'[r] = run[r]
    BY <2>4, <2>5
  <2>7. Account(told)'
    BY <2>1, <2>5, <2>6 DEF Account, Started, Matches
  <2> QED BY <2>1, <2>7
<1> QED BY <1>2, <1>3, <1>4, <1>5, <1>6

\* What a run keeps that is shown, when nothing is painted.
LEMMA StillSettled ==
  ASSUME PageInvariant, snapshot' = snapshot,
         \A r \in Runs : Settled(r) => Settled(r)',
         \A r \in Runs : Started(r) => Started(r)',
         \A r \in Runs : Settled(r) => run'[r].state = run[r].state
  PROVE  ShownIsSettled'
BY DEF PageInvariant, ShownIsSettled

\* With the loops left alone, the rest is about the operation and what is shown.
LEMMA Operating ==
  ASSUME PageInvariant, PageTypes', generation' = newest',
         \A i \in Loops : call'[i] = call[i],
         \A r \in Runs : run'[r] = run[r] \/ (run'[r].state = run[r].state /\ Settled(r)),
         CallShape("action")', AnswerHolds("action")',
         About("action")' = call'["action"].run,
         OperatedIsSettled', ShownIsSettled', ShownIsCurrent'
  PROVE  PageInvariant'
<1>1. \A i \in Interactions : i \in Loops \/ i = "action"
  BY DEF Loops
<1>2. \A i \in Interactions : CallShape(i)' /\ AnswerHolds(i)'
  BY <1>1, LoopsKept
<1>3. RunsAreStarted'
  <2>1. ASSUME NEW i \in Loops, About(i)' # NoRun
        PROVE  Started(About(i))'
    <3>1. About(i) # NoRun /\ Started(About(i)) /\ About(i)' = About(i)
      BY <2>1, LoopsKept DEF PageInvariant, RunsAreStarted, Loops
    <3>2. About(i) \in Runs
      <4>1. call[i] \in CallType
        BY Types DEF PageInvariant, PageTypes, Loops
      <4> QED BY <3>1, <4>1 DEF About, CallType, SnapshotType
    <3>3. PICK r \in Runs : r = About(i)
      BY <3>2
    <3>4. Started(r)
      BY <3>1, <3>3 DEF Started
    <3>5. Started(r)'
      BY <3>4, LoopsKept
    <3> QED BY <3>1, <3>3, <3>5 DEF Started
  <2>2. About("action")' # NoRun => Started(About("action"))'
    <3>1. SUFFICES ASSUME About("action")' # NoRun PROVE Started(About("action"))'
      OBVIOUS
    <3>2. PICK r \in Runs : r = About("action")'
      BY <3>1 DEF PageTypes, CallType, Interactions
    <3>3. Settled(r)'
      BY <3>2 DEF OperatedIsSettled
    <3>4. Started(r)'
      BY <3>3 DEF Settled, Started, Terminal
    <3> QED BY <3>2, <3>4 DEF Started
  <2> QED BY <1>1, <2>1, <2>2 DEF RunsAreStarted
<1> QED BY <1>2, <1>3, LoopsKept, Types DEF PageInvariant

LEMMA ActionSteps ==
  ASSUME PageInvariant,
         PgRunAction \/ Refuse("action") \/ Operate \/ LoseAnswer \/ ArriveAction
  PROVE  PageInvariant'
<1>1. /\ PageTypes /\ generation = newest /\ CallShape("action") /\ AnswerHolds("action")
      /\ OperatedIsSettled /\ ShownIsSettled /\ ShownIsCurrent
      /\ "action" \in Interactions /\ "action" \notin Loops /\ Loops \subseteq Interactions
      /\ call["action"] \in CallType
  BY Types DEF PageInvariant, PageTypes, Interactions, Loops
<1>2. CASE PgRunAction
  <2>1. snapshot # NoSnapshot
    BY <1>2, NoSnapshotFacts DEF PgRunAction
  <2>2. PICK r \in Runs : r = runId /\ Settled(r)
    BY <1>1, <1>2, <2>1 DEF PgRunAction, ShownIsSettled, ShownIsCurrent
  <2>3. PICK what \in {"recover", "operate"} :
          call' = [call EXCEPT !["action"] = Request(what, r)]
    BY <1>2, <2>2 DEF PgRunAction
  <2> DEFINE c == Request(what, r)
  <2>4. /\ c \in CallType /\ c.at = "sent" /\ c.what = what /\ c.run = r
        /\ c.answer = NoSnapshot
    BY RequestFacts
  <2> HIDE DEF c
  <2>5. /\ call'["action"] = c /\ call' \in [Interactions -> CallType]
        /\ \A i \in Interactions : i # "action" => call'[i] = call[i]
    BY <1>1, <2>3, <2>4 DEF c, PageTypes
  <2>6. UNCHANGED <<snapshot, runId, ask, generation, newest, run, missed>>
    BY <1>2 DEF PgRunAction, page, guided
  <2>7. \A i \in Loops : call'[i] = call[i]
    BY <1>1, <2>5
  <2>8. PageTypes' /\ generation' = newest'
    BY <1>1, <2>4, <2>5, <2>6, NoRunIsNone DEF PageTypes
  <2>9. CallShape("action")' /\ AnswerHolds("action")' /\ About("action")' = call'["action"].run
    BY <2>4, <2>5, NoRunIsNone DEF CallShape, AnswerHolds, About
  <2>10. \A q \in Runs : (Settled(q) => Settled(q)') /\ (Started(q) => Started(q)')
    BY <2>6, <2>7, <2>8, LoopsKept
  <2>11. OperatedIsSettled'
    BY <2>2, <2>4, <2>5, <2>10 DEF OperatedIsSettled
  <2>12. ShownIsSettled'
    BY <2>6, <2>10, StillSettled
  <2>13. ShownIsCurrent'
    BY <1>1, <1>2, <2>6, IdleFacts DEF ShownIsCurrent, PgRunAction
  <2> QED BY <2>6, <2>7, <2>8, <2>9, <2>11, <2>12, <2>13, Operating
<1>3. CASE Refuse("action") \/ LoseAnswer
  <2>1. /\ call' = [call EXCEPT !["action"] = Idle]
        /\ UNCHANGED <<snapshot, runId, ask, generation, newest, run>>
    BY <1>3 DEF Refuse, LoseAnswer, page, guided
  <2>2. /\ call'["action"] = Idle /\ call' \in [Interactions -> CallType]
        /\ \A i \in Interactions : i # "action" => call'[i] = call[i]
    BY <1>1, <2>1, IdleFacts DEF PageTypes
  <2>3. \A i \in Loops : call'[i] = call[i]
    BY <1>1, <2>2
  <2>4. missed \subseteq missed' /\ missed' \subseteq Runs
    BY <1>1, <1>3 DEF Refuse, LoseAnswer, PageTypes, CallShape, CallType
  <2>5. PageTypes' /\ generation' = newest'
    BY <1>1, <2>1, <2>2, <2>4, IdleFacts DEF PageTypes
  <2>6. CallShape("action")' /\ AnswerHolds("action")' /\ About("action")' = call'["action"].run
    BY <2>2, IdleFacts, NoSnapshotFacts DEF CallShape, AnswerHolds, About
  <2>7. \A q \in Runs : (Settled(q) => Settled(q)') /\ (Started(q) => Started(q)')
    BY <2>1, <2>3, <2>5, LoopsKept
  <2>8. OperatedIsSettled'
    BY <2>2, IdleFacts, NoRunIsNone DEF OperatedIsSettled
  <2>9. ShownIsSettled'
    BY <2>1, <2>7, StillSettled
  <2>10. ShownIsCurrent'
    BY <1>1, <1>3, <2>1, <2>4 DEF ShownIsCurrent, Refuse, LoseAnswer
  <2> QED BY <2>1, <2>3, <2>5, <2>6, <2>8, <2>9, <2>10, Operating
<1>4. CASE Operate
  <2>1. call["action"].at = "sent" /\ call["action"].what \in {"recover", "operate"}
    BY <1>1, <1>4 DEF Operate, CallShape
  <2>2. PICK r \in Runs : r = call["action"].run
    BY <1>1, <2>1 DEF CallShape, CallType
  <2>3. Settled(r)
    BY <1>1, <2>2 DEF OperatedIsSettled
  <2>4. PICK d \in Decisions \union {NoDecision} :
          /\ run' = [run EXCEPT ![r].decision = d, ![r].version = @ + 1]
          /\ run[r].version < MaxOperations
    BY <1>1, <1>4, <2>2 DEF Operate, PageTypes, RunType
  <2>5. /\ run' \in [Runs -> RunType] /\ run'[r].state = run[r].state
        /\ \A q \in Runs : q # r => run'[q] = run[q]
    <3>1. run[r] \in RunType /\ run \in [Runs -> RunType]
      BY <1>1 DEF PageTypes
    <3>2. run[r].version + 1 \in 0..MaxOperations
      BY <2>4, <3>1, PageAssumption DEF RunType
    <3> DEFINE v == run[r].version + 1
    <3>3. run' = [run EXCEPT ![r] = [run[r] EXCEPT !.decision = d, !.version = v]]
      BY <2>4, <3>1 DEF RunType
    <3> HIDE DEF v
    <3>4. [run[r] EXCEPT !.decision = d, !.version = v] \in RunType
      BY <3>1, <3>2 DEF RunType, v
    <3>5. [run[r] EXCEPT !.decision = d, !.version = v].state = run[r].state
      BY <3>1 DEF RunType
    <3> QED BY <3>1, <3>3, <3>4, <3>5
  <2>6. PICK told : told = Told(r, NoDecision)
    OBVIOUS
  <2>7. /\ told \in SnapshotType /\ told.run = r /\ Account(told)'
    <3>1. run'[r].state # "UNSTARTED"
      BY <2>3, <2>5 DEF Settled, Terminal
    <3>2. NoDecision \in {run'[r].decision, NoDecision}
      OBVIOUS
    <3> QED BY <2>5, <2>6, <3>1, <3>2, ToldFacts
  <2> DEFINE c == Answered(call["action"], told)
  <2>8. /\ c \in CallType /\ c.at = "answered" /\ c.what = call["action"].what
        /\ c.run = r /\ c.answer = told
    BY <1>1, <2>2, <2>7, AnsweredFacts
  <2>9. call' = [call EXCEPT !["action"] = c]
    BY <1>4, <2>2, <2>6 DEF Operate
  <2> HIDE DEF c
  <2>10. /\ call'["action"] = c /\ call' \in [Interactions -> CallType]
         /\ \A i \in Interactions : i # "action" => call'[i] = call[i]
    BY <1>1, <2>8, <2>9 DEF PageTypes
  <2>11. UNCHANGED <<snapshot, runId, ask, generation, newest, missed>>
    BY <1>4 DEF Operate, page, guided
  <2>12. \A i \in Loops : call'[i] = call[i]
    BY <1>1, <2>10
  <2>13. PageTypes' /\ generation' = newest'
    BY <1>1, <2>5, <2>8, <2>10, <2>11, NoRunIsNone DEF PageTypes
  <2>14. \A q \in Runs : run'[q] = run[q] \/ (run'[q].state = run[q].state /\ Settled(q))
    BY <2>3, <2>5
  <2>15. \A q \in Runs : (Settled(q) => Settled(q)') /\ (Started(q) => Started(q)')
    BY <2>12, <2>13, <2>14, LoopsKept
  <2>16. CallShape("action")' /\ AnswerHolds("action")' /\ About("action")' = call'["action"].run
    BY <1>1, <2>1, <2>7, <2>8, <2>10, NoRunIsNone DEF CallShape, AnswerHolds, About, Asking
  <2>17. OperatedIsSettled'
    BY <2>3, <2>8, <2>10, <2>15 DEF OperatedIsSettled
  <2>18. ShownIsSettled'
    BY <2>11, <2>14, <2>15, StillSettled
  <2>19. ShownIsCurrent'
    <3>1. snapshot # NoSnapshot => runId \in Runs
      BY <1>1 DEF ShownIsSettled, ShownIsCurrent
    <3> QED BY <1>1, <2>1, <2>2, <2>5, <2>8, <2>10, <2>11, <3>1 DEF ShownIsCurrent
  <2> QED BY <2>11, <2>12, <2>13, <2>14, <2>16, <2>17, <2>18, <2>19, Operating
<1>5. CASE ArriveAction
  <2>1. call["action"].at = "answered" /\ call["action"].what \in Asking
        /\ call["action"].what \in {"recover", "operate"}
    BY <1>5 DEF ArriveAction, Arrived, Asking
  <2>2. PICK told \in SnapshotType :
          /\ told = call["action"].answer /\ Account(told) /\ told.run = call["action"].run
    BY <1>1, <2>1 DEF AnswerHolds, CallShape
  <2>3. PICK r \in Runs : r = told.run
    BY <2>2 DEF Account
  <2>4. Settled(r)
    BY <1>1, <2>2, <2>3 DEF OperatedIsSettled
  <2>5. PICK shown \in SnapshotType :
          /\ shown = PgCarryNarration(told)
          /\ shown.explained \in {NoDecision, shown.decision}
          /\ shown.run = r /\ shown.state = told.state
          /\ shown.decision = told.decision /\ shown.version = told.version
    <3>1. snapshot \in SnapshotType /\ told.explained \in {NoDecision, told.decision}
      BY <1>1, <2>2 DEF PageTypes, Account
    <3>2. snapshot.explained \in {NoDecision, snapshot.decision}
      BY <1>1 DEF ShownIsCurrent, NoSnapshot
    <3> QED BY <2>3, <3>1, <3>2, CarriedFacts
  <2>6. snapshot' = shown /\ runId' = r /\ ask' = FALSE
    BY <1>5, <2>2, <2>3, <2>5 DEF ArriveAction, PgRenderRun
  <2>7. /\ call' = [call EXCEPT !["action"] = Idle]
        /\ UNCHANGED <<generation, newest, run, missed>>
    BY <1>5 DEF ArriveAction, guided
  <2>8. /\ call'["action"] = Idle /\ call' \in [Interactions -> CallType]
        /\ \A i \in Interactions : i # "action" => call'[i] = call[i]
    BY <1>1, <2>7, IdleFacts DEF PageTypes
  <2>9. \A i \in Loops : call'[i] = call[i]
    BY <1>1, <2>8
  <2>10. PageTypes' /\ generation' = newest'
    BY <1>1, <2>6, <2>7, <2>8, IdleFacts DEF PageTypes
  <2>11. CallShape("action")' /\ AnswerHolds("action")' /\ About("action")' = call'["action"].run
    BY <2>8, IdleFacts, NoSnapshotFacts DEF CallShape, AnswerHolds, About
  <2>12. OperatedIsSettled'
    BY <2>8, IdleFacts, NoRunIsNone DEF OperatedIsSettled
  <2>13. Settled(r)' /\ Started(r)'
    <3>1. Started(r)
      BY <2>4 DEF Settled, Started, Terminal
    <3> QED BY <2>4, <2>7, <2>9, <2>10, <3>1, LoopsKept
  <2>14. \/ shown.state = "RUNNING"
         \/ /\ shown.state = run[r].state /\ shown.decision = run[r].decision
            /\ shown.version = run[r].version
    BY <2>2, <2>3, <2>5 DEF Account, Matches
  <2>15. ShownIsSettled'
    BY <2>5, <2>6, <2>7, <2>13, <2>14 DEF ShownIsSettled
  <2>16. ShownIsCurrent'
    BY <2>5, <2>6, <2>7, <2>14 DEF ShownIsCurrent
  <2> QED BY <2>7, <2>9, <2>10, <2>11, <2>12, <2>15, <2>16, Operating
<1> QED BY <1>2, <1>3, <1>4, <1>5

\* A loop takes a step, or a run comes to its end: nothing of what ended changes.
LEMMA Advancing ==
  ASSUME PageInvariant, PageTypes', NEW i \in Loops,
         \A j \in Interactions : j # i => call'[j] = call[j],
         \A r \in Runs : run'[r] = run[r] \/ (run[r].state \notin Terminal /\ Started(r)'),
         CallShape(i)', AnswerHolds(i)' \/ call'[i] = call[i],
         \/ About(i)' \in {NoRun, About(i)}
         \/ \E r \in Runs : About(i)' = r /\ ~Started(r) /\ Started(r)'
  PROVE  /\ \A j \in Interactions : CallShape(j)' /\ AnswerHolds(j)'
         /\ RunsAreStarted' /\ OneLoopPerRun' /\ OperatedIsSettled'
         /\ \A r \in Runs : (Settled(r) => Settled(r)') /\ (Started(r) => Started(r)')
<1>1. /\ PageTypes /\ Loops \subseteq Interactions /\ "action" \in Interactions
      /\ i # "action"
  BY Types DEF PageInvariant, Loops, Interactions
<1>2. \A j \in Interactions : j # i => About(j)' = About(j) /\ CallShape(j)'
  BY DEF PageInvariant, About, CallShape
<1>3. \A r \in Runs : Started(r) => Started(r)'
  BY DEF Started
<1>4. \A j \in Interactions : About(j) \in Runs \union {NoRun} /\ (About(j) # NoRun => Started(About(j)))
  BY <1>1 DEF PageInvariant, RunsAreStarted, About, PageTypes, CallType, SnapshotType
<1>5. \A j \in Interactions : AnswerHolds(j)'
  <2>1. ASSUME NEW j \in Interactions, call'[j] = call[j], call[j].at = "answered",
               call[j].what \in Asking
        PROVE  \E told \in SnapshotType :
                 /\ call[j].answer = told /\ Account(told)'
                 /\ call[j].run # NoRun => told.run = call[j].run
    <3>1. PICK told \in SnapshotType :
            /\ call[j].answer = told /\ Account(told)
            /\ call[j].run # NoRun => told.run = call[j].run
      BY <2>1 DEF PageInvariant, AnswerHolds
    <3>2. Account(told)'
      BY <3>1 DEF Account, Matches, Started
    <3> QED BY <3>1, <3>2
  <2> QED BY <2>1 DEF AnswerHolds
<1>6. RunsAreStarted'
  <2>1. ASSUME NEW j \in Interactions, About(j)' # NoRun
        PROVE  \E r \in Runs : About(j)' = r /\ Started(r)'
    BY <1>2, <1>3, <1>4, <2>1 DEF Started
  <2> QED BY <2>1 DEF RunsAreStarted, Started
<1>7. OneLoopPerRun'
  <2> SUFFICES ASSUME NEW j \in Loops, NEW k \in Loops, j # k,
                      About(j)' # NoRun, About(j)' = About(k)'
               PROVE  FALSE
    BY DEF OneLoopPerRun
  <2>1. \A l \in Loops, m \in Loops : l # m /\ About(l) # NoRun => About(l) # About(m)
    BY DEF PageInvariant, OneLoopPerRun
  <2>2. \A l \in Interactions, r \in Runs : About(l) = r => Started(r)
    BY <1>4, NoRunIsNone DEF Started
  <2> QED BY <1>1, <1>2, <2>1, <2>2
<1>8. \A r \in Runs : Settled(r) => Settled(r)'
  <2> SUFFICES ASSUME NEW r \in Runs, Settled(r) PROVE Settled(r)'
    OBVIOUS
  <2>1. Started(r) /\ run'[r] = run[r] /\ r # NoRun
    BY NoRunIsNone DEF Settled, Started, Terminal
  <2>2. \A j \in Loops : About(j)' # r
    BY <1>1, <1>2, <2>1 DEF Settled
  <2> QED BY <2>1, <2>2 DEF Settled
<1>9. OperatedIsSettled'
  BY <1>1, <1>8 DEF PageInvariant, OperatedIsSettled
<1> QED BY <1>2, <1>3, <1>5, <1>6, <1>7, <1>8, <1>9

LEMMA LoopSteps ==
  ASSUME PageInvariant, NEW i \in Interactions,
         StartRun(i) \/ ServePoll(i) \/ ArriveRun(i) \/ (Poll(i) /\ IsActive(i))
  PROVE  PageInvariant'
<1>1. /\ PageTypes /\ generation = newest /\ CallShape(i) /\ AnswerHolds(i)
      /\ OperatedIsSettled /\ ShownIsSettled /\ ShownIsCurrent
      /\ call[i] \in CallType
  BY Types DEF PageInvariant, PageTypes
<1>2. i \in Loops
  <2>1. call[i].what \in {"authorize", "scenario", "poll"}
    BY <1>1 DEF StartRun, ServePoll, ArriveRun, Poll, Arrived, CallShape
  <2>2. call[i].at # "idle"
    BY DEF StartRun, ServePoll, ArriveRun, Poll, Arrived
  <2> QED BY <1>1, <2>1, <2>2 DEF CallShape, Loops
<1>3. "action" \in Interactions /\ i # "action"
  BY <1>2 DEF Interactions, Loops
<1>4. CASE StartRun(i)
  <2>1. PICK r \in Runs, e \in Endings \union {<<"RUNNING", NoDecision>>} :
          /\ run[r] = Unstarted
          /\ run' = [run EXCEPT ![r].state = e[1], ![r].decision = e[2]]
          /\ \E explained \in {e[2], NoDecision} :
               call' = [call EXCEPT ![i] = Answered(@, Told(r, explained))]
    BY <1>4 DEF StartRun
  <2>2. /\ e[1] \in {"RUNNING"} \union Terminal /\ e[2] \in Decisions \union {NoDecision}
        /\ Unstarted.state = "UNSTARTED"
    BY DEF Endings, Terminal, Unstarted
  <2>3. /\ run' \in [Runs -> RunType] /\ run'[r].state = e[1] /\ run'[r].decision = e[2]
        /\ \A q \in Runs : q # r => run'[q] = run[q]
    BY <1>1, <2>1, <2>2 DEF PageTypes, RunType
  <2>4. ~Started(r) /\ Started(r)'
    BY <2>1, <2>2, <2>3 DEF Started, Terminal
  <2>5. PICK explained \in {run'[r].decision, NoDecision} :
          call' = [call EXCEPT ![i] = Answered(call[i], Told(r, explained))]
    BY <1>1, <2>1, <2>3 DEF PageTypes
  <2>6. PICK told : told = Told(r, explained)
    OBVIOUS
  <2>7. told \in SnapshotType /\ told.run = r /\ Account(told)'
    BY <2>3, <2>4, <2>6, ToldFacts DEF Started
  <2>8. call[i].run = NoRun /\ call[i].what \in {"authorize", "scenario"}
    BY <1>1, <1>4 DEF StartRun, CallShape
  <2> DEFINE c == Answered(call[i], told)
  <2>9. /\ c \in CallType /\ c.at = "answered" /\ c.what = call[i].what
        /\ c.run = NoRun /\ c.answer = told
    BY <1>1, <2>7, <2>8, AnsweredFacts
  <2>10. call' = [call EXCEPT ![i] = c]
    BY <2>5, <2>6
  <2> HIDE DEF c
  <2>11. /\ call'[i] = c /\ call' \in [Interactions -> CallType]
         /\ \A j \in Interactions : j # i => call'[j] = call[j]
    BY <1>1, <2>9, <2>10 DEF PageTypes
  <2>12. UNCHANGED <<snapshot, runId, ask, generation, newest, missed>>
    BY <1>4 DEF StartRun, page, guided
  <2>13. PageTypes' /\ generation' = newest'
    BY <1>1, <2>3, <2>8, <2>9, <2>11, <2>12 DEF PageTypes
  <2>14. CallShape(i)' /\ AnswerHolds(i)' /\ About(i)' = r
    BY <1>3, <2>7, <2>8, <2>9, <2>11 DEF CallShape, AnswerHolds, About, Asking
  <2>15. \A q \in Runs : run'[q] = run[q] \/ (run[q].state \notin Terminal /\ Started(q)')
    BY <2>1, <2>2, <2>3, <2>4 DEF Terminal
  <2>16. /\ \A j \in Interactions : CallShape(j)' /\ AnswerHolds(j)'
         /\ RunsAreStarted' /\ OneLoopPerRun' /\ OperatedIsSettled'
         /\ \A q \in Runs : (Settled(q) => Settled(q)') /\ (Started(q) => Started(q)')
    BY <1>2, <2>4, <2>11, <2>13, <2>14, <2>15, Advancing
  <2>17. ShownIsSettled'
    BY <2>12, <2>15, <2>16, StillSettled DEF Settled
  <2>18. ShownIsCurrent'
    <3>1. snapshot # NoSnapshot => runId \in Runs /\ Started(runId)
      BY <1>1 DEF ShownIsSettled, ShownIsCurrent, Started
    <3>2. runId \in Runs /\ Started(runId) => run'[runId] = run[runId]
      BY <2>3, <2>4
    <3> QED BY <1>1, <1>3, <2>11, <2>12, <3>1, <3>2 DEF ShownIsCurrent
  <2> QED BY <2>13, <2>16, <2>17, <2>18, Types DEF PageInvariant
<1>5. CASE ServePoll(i)
  <2>1. call[i].what = "poll" /\ call[i].run # NoRun
    BY <1>1, <1>5 DEF ServePoll, CallShape
  <2>2. PICK r \in Runs : r = call[i].run
    BY <1>1, <2>1 DEF CallType
  <2>3. About(i) = r /\ Started(r)
    BY <2>1, <2>2 DEF About, PageInvariant, RunsAreStarted, Started
  <2>4. UNCHANGED <<snapshot, runId, ask, generation, newest, run, missed>>
    BY <1>5 DEF ServePoll, page, guided
  <2>5. PICK explained \in {run'[r].decision, NoDecision} :
          call' = [call EXCEPT ![i] = Answered(call[i], Told(r, explained))]
    BY <1>1, <1>5, <2>2, <2>4 DEF ServePoll, PageTypes
  <2>6. PICK told : told = Told(r, explained)
    OBVIOUS
  <2>7. told \in SnapshotType /\ told.run = r /\ Account(told)'
    BY <1>1, <2>3, <2>4, <2>6, ToldFacts DEF Started, PageTypes
  <2> DEFINE c == Answered(call[i], told)
  <2>8. /\ c \in CallType /\ c.at = "answered" /\ c.what = "poll"
        /\ c.run = r /\ c.answer = told
    BY <1>1, <2>1, <2>2, <2>7, AnsweredFacts
  <2>9. call' = [call EXCEPT ![i] = c]
    BY <2>5, <2>6
  <2> HIDE DEF c
  <2>10. /\ call'[i] = c /\ call' \in [Interactions -> CallType]
         /\ \A j \in Interactions : j # i => call'[j] = call[j]
    BY <1>1, <2>8, <2>9 DEF PageTypes
  <2>11. PageTypes' /\ generation' = newest'
    BY <1>1, <2>4, <2>8, <2>10, NoRunIsNone DEF PageTypes
  <2>12. CallShape(i)' /\ AnswerHolds(i)' /\ About(i)' = About(i)
    BY <1>3, <2>3, <2>7, <2>8, <2>10, NoRunIsNone DEF CallShape, AnswerHolds, About, Asking
  <2>13. /\ \A j \in Interactions : CallShape(j)' /\ AnswerHolds(j)'
         /\ RunsAreStarted' /\ OneLoopPerRun' /\ OperatedIsSettled'
         /\ \A q \in Runs : (Settled(q) => Settled(q)') /\ (Started(q) => Started(q)')
    BY <1>2, <2>4, <2>10, <2>11, <2>12, Advancing
  <2>14. ShownIsSettled'
    BY <2>4, <2>13, StillSettled
  <2>15. ShownIsCurrent'
    BY <1>1, <1>3, <2>4, <2>10 DEF ShownIsCurrent
  <2> QED BY <2>11, <2>13, <2>14, <2>15, Types DEF PageInvariant
<1>6. CASE ArriveRun(i)
  <2>1. call[i].at = "answered" /\ call[i].what \in Asking
    BY <1>6 DEF ArriveRun, Arrived, Asking
  <2>2. PICK told \in SnapshotType :
          /\ told = call[i].answer /\ Account(told)
          /\ call[i].run # NoRun => told.run = call[i].run
    BY <1>1, <2>1 DEF AnswerHolds
  <2>3. PICK r \in Runs : r = told.run
    BY <2>2 DEF Account
  <2>4. About(i) = r /\ r # NoRun
    BY <2>2, <2>3, NoRunIsNone DEF About
  <2>5. PICK shown \in SnapshotType :
          /\ shown = PgCarryNarration(told)
          /\ shown.explained \in {NoDecision, shown.decision}
          /\ shown.run = r /\ shown.state = told.state
          /\ shown.decision = told.decision /\ shown.version = told.version
    <3>1. snapshot \in SnapshotType /\ told.explained \in {NoDecision, told.decision}
      BY <1>1, <2>2 DEF PageTypes, Account
    <3>2. snapshot.explained \in {NoDecision, snapshot.decision}
      BY <1>1 DEF ShownIsCurrent, NoSnapshot
    <3> QED BY <2>3, <3>1, <3>2, CarriedFacts
  <2>6. snapshot' = shown /\ runId' = r /\ ask' = FALSE
    BY <1>6, <2>2, <2>3, <2>5 DEF ArriveRun, PgRenderRun
  <2>7. UNCHANGED <<generation, newest, run, missed>>
    BY <1>6 DEF ArriveRun, guided
  <2> DEFINE c == AfterRender(i, told)
  <2>8. call' = [call EXCEPT ![i] = c]
    BY <1>6, <2>2 DEF ArriveRun
  <2>9. /\ c \in CallType
        /\ told.state \in Terminal => c = Idle
        /\ told.state \notin Terminal =>
             c.at = "waiting" /\ c.what = "poll" /\ c.run = r /\ c.answer = NoSnapshot
    BY <2>3, WaitingFacts
  <2> HIDE DEF c
  <2>10. /\ call'[i] = c /\ call' \in [Interactions -> CallType]
         /\ \A j \in Interactions : j # i => call'[j] = call[j]
    BY <1>1, <2>8, <2>9 DEF PageTypes
  <2>11. PageTypes' /\ generation' = newest'
    BY <1>1, <2>4, <2>6, <2>7, <2>9, <2>10, IdleFacts DEF PageTypes
  <2>12. /\ CallShape(i)' /\ AnswerHolds(i)'
         /\ About(i)' = IF told.state \in Terminal THEN NoRun ELSE r
    BY <1>3, <2>4, <2>9, <2>10, IdleFacts, NoSnapshotFacts DEF CallShape, AnswerHolds, About
  <2>13. /\ \A j \in Interactions : CallShape(j)' /\ AnswerHolds(j)'
         /\ RunsAreStarted' /\ OneLoopPerRun' /\ OperatedIsSettled'
         /\ \A q \in Runs : (Settled(q) => Settled(q)') /\ (Started(q) => Started(q)')
    BY <1>2, <2>4, <2>7, <2>10, <2>11, <2>12, Advancing
  <2>14. \/ shown.state = "RUNNING"
         \/ /\ told.state \in Terminal
            /\ shown.state = run[r].state /\ shown.decision = run[r].decision
            /\ shown.version = run[r].version
    BY <2>2, <2>3, <2>5 DEF Account, Matches
  <2>15. told.state \in Terminal => Settled(r)'
    <3>1. told.state \in Terminal => run[r].state \in Terminal
      BY <2>2, <2>3 DEF Account, Matches, Terminal
    <3>2. \A j \in Loops : j # i => About(j)' # r
      <4>1. \A j \in Loops : j # i => About(j) # r
        BY <1>2, <2>4 DEF PageInvariant, OneLoopPerRun
      <4> QED BY <2>10, <4>1 DEF About, Loops
    <3> QED BY <2>4, <2>7, <2>12, <3>1, <3>2 DEF Settled
  <2>16. Started(r)'
    BY <2>2, <2>3, <2>7 DEF Account, Started
  <2>17. ShownIsSettled'
    BY <2>5, <2>6, <2>7, <2>14, <2>15, <2>16 DEF ShownIsSettled
  <2>18. ShownIsCurrent'
    BY <2>5, <2>6, <2>7, <2>14 DEF ShownIsCurrent
  <2> QED BY <2>11, <2>13, <2>17, <2>18, Types DEF PageInvariant
<1>7. CASE Poll(i) /\ IsActive(i)
  <2>1. call[i].what = "poll" /\ call[i].run # NoRun
    BY <1>1, <1>7 DEF Poll, CallShape
  <2>2. PICK r \in Runs : r = call[i].run
    BY <1>1, <2>1 DEF CallType
  <2>3. About(i) = r
    BY <2>1, <2>2 DEF About
  <2>4. UNCHANGED <<snapshot, runId, ask, generation, newest, run, missed>>
    BY <1>7 DEF Poll, page, guided
  <2> DEFINE c == Request("poll", r)
  <2>5. /\ c \in CallType /\ c.at = "sent" /\ c.what = "poll" /\ c.run = r
        /\ c.answer = NoSnapshot
    BY RequestFacts
  <2>6. call' = [call EXCEPT ![i] = c]
    BY <1>1, <1>7, <2>2 DEF Poll, PageTypes
  <2> HIDE DEF c
  <2>7. /\ call'[i] = c /\ call' \in [Interactions -> CallType]
        /\ \A j \in Interactions : j # i => call'[j] = call[j]
    BY <1>1, <2>5, <2>6 DEF PageTypes
  <2>8. PageTypes' /\ generation' = newest'
    BY <1>1, <2>4, <2>5, <2>7, NoRunIsNone DEF PageTypes
  <2>9. CallShape(i)' /\ AnswerHolds(i)' /\ About(i)' = About(i)
    BY <1>3, <2>3, <2>5, <2>7, NoRunIsNone DEF CallShape, AnswerHolds, About
  <2>10. /\ \A j \in Interactions : CallShape(j)' /\ AnswerHolds(j)'
         /\ RunsAreStarted' /\ OneLoopPerRun' /\ OperatedIsSettled'
         /\ \A q \in Runs : (Settled(q) => Settled(q)') /\ (Started(q) => Started(q)')
    BY <1>2, <2>4, <2>7, <2>8, <2>9, Advancing
  <2>11. ShownIsSettled'
    BY <2>4, <2>10, StillSettled
  <2>12. ShownIsCurrent'
    BY <1>1, <1>3, <2>4, <2>7 DEF ShownIsCurrent
  <2> QED BY <2>8, <2>10, <2>11, <2>12, Types DEF PageInvariant
<1> QED BY <1>4, <1>5, <1>6, <1>7

\* A run that ends while nobody looks is none that was shown to have ended.
LEMMA EndRunStep ==
  ASSUME PageInvariant, NEW r \in Runs, EndRun(r)
  PROVE  PageInvariant'
<1>1. /\ PageTypes /\ ShownIsSettled /\ ShownIsCurrent /\ generation = newest
      /\ "workspace" \in Loops /\ "workspace" \in Interactions
      /\ \A i \in Interactions : CallShape(i)
  BY Types DEF PageInvariant, Loops, Interactions
<1>2. PICK e \in Endings : run' = [run EXCEPT ![r].state = e[1], ![r].decision = e[2]]
  BY DEF EndRun
<1>3. e[1] \in Terminal /\ e[2] \in Decisions \union {NoDecision} /\ run[r].state = "RUNNING"
  BY DEF Endings, Terminal, EndRun
<1>4. /\ run' \in [Runs -> RunType] /\ run'[r].state = e[1]
      /\ \A q \in Runs : q # r => run'[q] = run[q]
  BY <1>1, <1>2, <1>3 DEF PageTypes, RunType
<1>5. UNCHANGED <<snapshot, runId, ask, generation, newest, call, missed>>
  BY DEF EndRun, page, guided
<1>6. PageTypes' /\ generation' = newest'
  BY <1>1, <1>4, <1>5 DEF PageTypes
<1>7. \A q \in Runs : run'[q] = run[q] \/ (run[q].state \notin Terminal /\ Started(q)')
  BY <1>3, <1>4 DEF Terminal, Started
<1>8. CallShape("workspace")' /\ About("workspace")' = About("workspace")
  BY <1>1, <1>5 DEF CallShape, About
<1>9. /\ \A j \in Interactions : CallShape(j)' /\ AnswerHolds(j)'
      /\ RunsAreStarted' /\ OneLoopPerRun' /\ OperatedIsSettled'
      /\ \A q \in Runs : (Settled(q) => Settled(q)') /\ (Started(q) => Started(q)')
  BY <1>1, <1>5, <1>6, <1>7, <1>8, Advancing
<1>10. ShownIsSettled'
  BY <1>5, <1>7, <1>9, StillSettled DEF Settled
<1>11. ShownIsCurrent'
  <2>1. snapshot # NoSnapshot /\ runId = r => snapshot.state = "RUNNING"
    BY <1>1, <1>3 DEF ShownIsSettled, ShownIsCurrent, Settled, Terminal
  <2>2. snapshot # NoSnapshot => runId \in Runs
    BY <1>1 DEF ShownIsSettled, ShownIsCurrent
  <2> QED BY <1>1, <1>4, <1>5, <2>1, <2>2 DEF ShownIsCurrent
<1> QED BY <1>6, <1>9, <1>10, <1>11, Types DEF PageInvariant

-----------------------------------------------------------------------------
(* The page keeps its invariant *)

LEMMA PageInit == Init => PageInvariant
<1> SUFFICES ASSUME Init PROVE PageInvariant
  OBVIOUS
<1>1. Unstarted \in RunType
  BY PageAssumption DEF Unstarted, RunType, NoDecision
<1>2. \A i \in Interactions : call[i] = Idle
  BY DEF Init
<1>3. call["action"] = Idle
  BY <1>2 DEF Interactions
<1>4. TypeOK
  BY <1>1, IdleFacts, NoSnapshotFacts, Types DEF Init, PageTypes
<1>5. \A i \in Interactions : CallShape(i) /\ AnswerHolds(i) /\ About(i) = NoRun
  BY <1>2, IdleFacts, NoSnapshotFacts DEF CallShape, AnswerHolds, About
<1>6. RunsAreStarted /\ OneLoopPerRun
  BY <1>5 DEF RunsAreStarted, OneLoopPerRun, Loops
<1>7. OperatedIsSettled
  BY <1>3, IdleFacts, NoRunIsNone DEF OperatedIsSettled
<1>8. ShownIsSettled /\ ShownIsCurrent /\ generation = newest
  BY DEF Init, ShownIsSettled, ShownIsCurrent
<1> QED BY <1>4, <1>5, <1>6, <1>7, <1>8 DEF PageInvariant

LEMMA PageUnchanged ==
  ASSUME PageInvariant, UNCHANGED vars
  PROVE  PageInvariant'
<1>1. UNCHANGED <<snapshot, runId, ask, generation, newest, call, run, missed>>
  BY DEF vars, page, guided
<1>2. call \in [Interactions -> CallType] /\ generation = newest
      /\ newest \in Scenarios \union {NoOne} /\ ask \in BOOLEAN
  BY Types DEF PageInvariant, PageTypes
<1> QED BY <1>1, <1>2, Blanking

LEMMA PageStep == PageInvariant /\ [Next]_vars => PageInvariant'
<1> SUFFICES ASSUME PageInvariant, [Next]_vars PROVE PageInvariant'
  OBVIOUS
<1>1. CASE PgRunAction
  BY <1>1, ActionSteps
<1>2. CASE Retire \/ PgSearch \/ PgSelect \/ PgAuthorize \/ \E i \in Scenarios : PgRunScenario(i)
  BY <1>2, Clicking
<1>3. ASSUME NEW i \in Interactions, Serve(i) \/ Arrive(i) \/ Poll(i)
      PROVE  PageInvariant'
  <2>1. CASE StartRun(i) \/ ServePoll(i) \/ ArriveRun(i) \/ (Poll(i) /\ IsActive(i))
    BY <2>1, LoopSteps
  <2>2. CASE Refuse(i) /\ i = "action"
    <3>1. Refuse("action")
      BY <2>2
    <3> QED BY <3>1, ActionSteps
  <2>3. CASE \/ ServePreview \/ ArrivePreview
             \/ i # "action" /\ Refuse(i)
             \/ i # "action" /\ Poll(i) /\ ~IsActive(i)
    BY <2>3, WorkspaceSteps
  <2>4. CASE Operate \/ ArriveAction
    BY <2>4, ActionSteps
  <2>5. Poll(i) => i # "action"
    BY DEF Poll, PageInvariant, CallShape
  <2> QED BY <1>3, <2>1, <2>2, <2>3, <2>4, <2>5 DEF Serve, Arrive
<1>4. CASE LoseAnswer
  BY <1>4, ActionSteps
<1>5. CASE \E r \in Runs : EndRun(r)
  BY <1>5, EndRunStep
<1>6. CASE UNCHANGED vars
  BY <1>6, PageUnchanged
<1> QED BY <1>1, <1>2, <1>3, <1>4, <1>5, <1>6 DEF Next, Click

THEOREM PageKeepsInvariant == Spec => []PageInvariant
BY PageInit, PageStep, PTL DEF Spec

\* The types of the page, of its calls and of the server's runs.
THEOREM PageTypeCorrect == Spec => []TypeOK
<1>1. PageInvariant => TypeOK
  BY DEF PageInvariant
<1> QED BY <1>1, PageKeepsInvariant, PTL

\* What the page shows of a run that ended is what the server has, whatever answers
\* overtake each other: app.js polls a run from one loop, and operates on what is shown.
THEOREM PageShowsCurrent == Spec => []ShownIsCurrent
<1>1. PageInvariant => ShownIsCurrent
  BY DEF PageInvariant
<1> QED BY <1>1, PageKeepsInvariant, PTL

\* An answer to a guided scenario that a click retired changes nothing that is shown:
\* every click that begins a generation or retires one aborts its fetch.
THEOREM PageOnlyNewestPaints == Spec => OnlyNewestPaints
<1>1. PageInvariant /\ [Next]_vars =>
        [\A i \in Scenarios :
           call'[i] # call[i] /\ newest # i /\ newest' = newest => UNCHANGED page]_vars
  <2> SUFFICES ASSUME PageInvariant, Next, NEW i \in Scenarios,
                      call'[i] # call[i], newest # i, newest' = newest
               PROVE  UNCHANGED page
    OBVIOUS
  <2>1. /\ generation = newest /\ i \in Interactions
        /\ i # "workspace" /\ i # "action"
        /\ call \in [Interactions -> CallType]
    BY Types, PageAssumption DEF PageInvariant, PageTypes, Interactions
  <2>2. ~(Retire \/ PgSearch \/ PgSelect \/ PgAuthorize)
    BY <2>1 DEF Retire, PgSearch, PgSelect, PgAuthorize, CancelScenario, Abort
  <2>3. \A j \in Scenarios : ~PgRunScenario(j)
    BY <2>1 DEF PgRunScenario, Abort
  <2>4. \A j \in Interactions : ~ArriveRun(j)
    BY <2>1 DEF ArriveRun, IsActive
  <2>5. ~ArrivePreview /\ ~ArriveAction
    BY <2>1 DEF ArrivePreview, ArriveAction
  <2> QED
    BY <2>2, <2>3, <2>4, <2>5
    DEF Next, Click, Serve, Arrive, PgRunAction, Refuse, StartRun, ServePoll, ServePreview,
        Operate, Poll, LoseAnswer, EndRun
<1> QED BY <1>1, PageKeepsInvariant, PTL DEF Spec, OnlyNewestPaints

=============================================================================
