--------------------------- MODULE PlaygroundPage ---------------------------
(***************************************************************************)
(* The playground of the browser client, product/static/app.js, with what  *)
(* the server keeps of the runs that it asks about.                        *)
(*                                                                         *)
(* The page runs one event at a time, but an interaction waits for the     *)
(* network in between: a search, a preview or authorization (which share a *)
(* lock), an operation on the run that is shown, and guided scenarios, of  *)
(* which only the newest may go on.  Every begin of a generation retires   *)
(* those before it, so generation is the scenario that holds the newest    *)
(* one.  The fetch of a retired scenario is aborted; what the server still *)
(* does about it, the page never learns.                                   *)
(*                                                                         *)
(* The regions for the outcome and its follow-ups are shown exactly while  *)
(* there is a snapshot.  Instructions, products and the other panels are   *)
(* left out, and with them the answer to a search, which brings products   *)
(* only: a product may always be chosen.  So are sessions: a request about *)
(* a run may be refused, since the server lost the run or its session, or  *)
(* since the page goes on with another session.                            *)
(***************************************************************************)
EXTENDS Naturals

CONSTANTS
  Scenarios,     \* clicks on guided scenarios that are under way at a time
  MaxRuns,       \* bound: runs that are started
  Decisions,     \* the decisions that runs come to
  NoOne,         \* no scenario holds the newest generation
  MaxOperations  \* bound: operations that change one run

ASSUME PageAssumption ==
  /\ MaxRuns \in Nat /\ MaxOperations \in Nat
  /\ Decisions \subseteq {"ALLOW", "REVIEW", "BLOCK"}
  /\ {"workspace", "action"} \intersect Scenarios = {}
  /\ NoOne \notin Scenarios \union {"workspace", "action"}

VARIABLES
  generation,    \* pgScenarioGeneration
  snapshot,      \* pgState.snapshot
  runId,         \* pgState.runId
  ask,           \* the workspace of a previewed product is shown
  newest,        \* history: the scenario that was clicked last, if that was the last click
  call,          \* what each interaction waits for
  run,           \* the server's runs
  missed         \* history: runs whose operation was not answered with the run

page == <<snapshot, runId, ask>>
guided == <<generation, newest>>
vars == <<page, guided, call, run, missed>>

-----------------------------------------------------------------------------
Interactions == Scenarios \union {"workspace", "action"}

Runs == 1..MaxRuns
NoRun == 0
NoDecision == "NONE"

\* The version of a run counts the operations that changed it.
Unstarted == [state |-> "UNSTARTED", decision |-> NoDecision, version |-> 0]

\* A run as the server tells it: explained is the decision its narration explains.
Told(r, explained) ==
  [run |-> r, state |-> run'[r].state, decision |-> run'[r].decision,
   version |-> run'[r].version, explained |-> explained]

NoSnapshot ==
  [run |-> NoRun, state |-> "NONE", decision |-> NoDecision, version |-> 0,
   explained |-> NoDecision]

Terminal == {"COMPLETE", "ERROR"}

\* at: idle, sent, answered, or waiting for the timer of the next poll.
Idle == [at |-> "idle", what |-> "none", run |-> NoRun, answer |-> NoSnapshot]

Request(what, r) == [Idle EXCEPT !.at = "sent", !.what = what, !.run = r]
Answered(c, told) == [c EXCEPT !.at = "answered", !.answer = told]

-----------------------------------------------------------------------------
(* Clicks *)

\* A fetch of the scenario that holds the generation is aborted.
Abort(calls) ==
  [i \in Interactions |->
     IF i = generation /\ call[i].at \in {"sent", "answered"} THEN Idle ELSE calls[i]]

\* Faulty: a click by hand leaves the guided scenarios alone.
CancelScenarioNot(calls) ==
  /\ newest' = NoOne
  /\ generation' = generation
  /\ call' = calls

\* cancelScenarioInteraction, and then calls.
CancelScenario(calls) ==
  /\ newest' = NoOne
  /\ generation' = NoOne
  /\ call' = Abort(calls)

\* Typing, an example that is inserted, a search without text, or a choice without
\* the limit it needs.
Retire ==
  /\ CancelScenario(call)
  /\ UNCHANGED <<snapshot, runId, ask, run, missed>>

PgSearch ==
  /\ CancelScenario(call)
  /\ snapshot' = NoSnapshot /\ runId' = NoRun /\ ask' = FALSE
  /\ UNCHANGED <<run, missed>>

PgSelect ==
  /\ call["workspace"] = Idle
  /\ CancelScenario([call EXCEPT !["workspace"] = Request("preview", NoRun)])
  /\ UNCHANGED <<snapshot, runId, ask, run, missed>>

PgAuthorize ==
  /\ ask
  /\ call["workspace"] = Idle
  /\ CancelScenario([call EXCEPT !["workspace"] = Request("authorize", NoRun)])
  /\ UNCHANGED <<snapshot, runId, ask, run, missed>>

\* A button of the follow-ups: recover a REVIEW; execute, mutate, revoke or replay
\* an ALLOW.
PgRunAction ==
  /\ snapshot.state = "COMPLETE" /\ snapshot.decision \in {"REVIEW", "ALLOW"}
  /\ runId # NoRun
  /\ call["action"] = Idle
  /\ call' = [call EXCEPT !["action"] =
                Request(IF snapshot.decision = "REVIEW" THEN "recover" ELSE "operate", runId)]
  /\ UNCHANGED <<page, guided, run, missed>>

\* runId is left alone.
PgRunScenario(i) ==
  /\ call[i] = Idle
  /\ newest' = i
  /\ generation' = i
  /\ call' = [Abort(call) EXCEPT ![i] = Request("scenario", NoRun)]
  /\ snapshot' = NoSnapshot /\ ask' = FALSE
  /\ UNCHANGED <<runId, run, missed>>

-----------------------------------------------------------------------------
(* The server *)

ServePreview ==
  /\ call["workspace"].at = "sent" /\ call["workspace"].what = "preview"
  /\ call' = [call EXCEPT !["workspace"] = Answered(@, NoSnapshot)]
  /\ UNCHANGED <<page, guided, run, missed>>

\* The rate limit, what does not resolve, an operation that the run refuses, a run that
\* was lost or belongs to another session, or no answer at all: every error ends its
\* interaction and leaves the page as it is, but for a message.
Refuse(i) ==
  /\ call[i].at = "sent"
  /\ call' = [call EXCEPT ![i] = Idle]
  /\ UNCHANGED <<page, guided, run, missed>>

Endings == {<<"ERROR", NoDecision>>} \union {<<"COMPLETE", d>> : d \in Decisions}

\* The run may have come to its end before the answer is made.
StartRun(i) ==
  /\ call[i].at = "sent" /\ call[i].what \in {"authorize", "scenario"}
  /\ \E r \in Runs, e \in Endings \union {<<"RUNNING", NoDecision>>} :
       /\ run[r] = Unstarted /\ \A q \in Runs : q < r => run[q] # Unstarted
       /\ run' = [run EXCEPT ![r].state = e[1], ![r].decision = e[2]]
       /\ \E explained \in {e[2], NoDecision} :
            call' = [call EXCEPT ![i] = Answered(@, Told(r, explained))]
  /\ UNCHANGED <<page, guided, missed>>

EndRun(r) ==
  /\ run[r].state = "RUNNING"
  /\ \E e \in Endings : run' = [run EXCEPT ![r].state = e[1], ![r].decision = e[2]]
  /\ UNCHANGED <<page, guided, call, missed>>

\* A decision has its narration, unless the run has no plan of the sandbox.
ServePoll(i) ==
  LET r == call[i].run IN
  /\ call[i].at = "sent" /\ call[i].what = "poll"
  /\ UNCHANGED run
  /\ \E explained \in {run[r].decision, NoDecision} :
       call' = [call EXCEPT ![i] = Answered(@, Told(r, explained))]
  /\ UNCHANGED <<page, guided, missed>>

\* recover decides anew; the others change the execution only.  The answer is the run,
\* without narration.
Operate ==
  LET c == call["action"] IN
  /\ c.at = "sent"
  /\ run[c.run].version < MaxOperations
  /\ \E d \in IF c.what = "recover" THEN Decisions ELSE {run[c.run].decision} :
       run' = [run EXCEPT ![c.run].decision = d, ![c.run].version = @ + 1]
  /\ call' = [call EXCEPT !["action"] = Answered(@, Told(c.run, NoDecision))]
  /\ UNCHANGED <<page, guided, missed>>

\* The answer is lost, or is an error although the run was changed.  Where an answer to
\* another request is lost, Refuse stands for it: the page never learns of the run.
LoseAnswer ==
  /\ call["action"].at = "answered"
  /\ missed' = missed \union {call["action"].run}
  /\ call' = [call EXCEPT !["action"] = Idle]
  /\ UNCHANGED <<page, guided, run>>

-----------------------------------------------------------------------------
(* Answers *)

PgCarryNarration(told) ==
  IF snapshot.run = told.run /\ snapshot.decision = told.decision
     /\ told.explained = NoDecision
  THEN [told EXCEPT !.explained = snapshot.explained] ELSE told

PgRenderRun(told) ==
  /\ snapshot' = PgCarryNarration(told)
  /\ runId' = told.run
  /\ ask' = FALSE

\* Faulty: the loop looks at what was shown before, and polls once more.
AfterRenderLate(i, told) ==
  IF snapshot.state \in Terminal THEN Idle
  ELSE [Idle EXCEPT !.at = "waiting", !.what = "poll", !.run = told.run]

\* Faulty: the loop waits for a decision.
AfterRenderForever(i, told) ==
  IF told.state = "COMPLETE" THEN Idle
  ELSE [Idle EXCEPT !.at = "waiting", !.what = "poll", !.run = told.run]

\* pgPoll: the loop ends with a terminal state.
AfterRender(i, told) ==
  IF told.state \in Terminal THEN Idle
  ELSE [Idle EXCEPT !.at = "waiting", !.what = "poll", !.run = told.run]

Arrived(i, what) == call[i].at = "answered" /\ call[i].what \in what

ArrivePreview ==
  /\ Arrived("workspace", {"preview"})
  /\ snapshot' = NoSnapshot /\ runId' = NoRun /\ ask' = TRUE
  /\ call' = [call EXCEPT !["workspace"] = Idle]
  /\ UNCHANGED <<guided, run, missed>>

IsActive(i) == i \in Scenarios => generation = i

\* The first answer of an authorization or a scenario, and each of its polls.
ArriveRun(i) ==
  LET told == call[i].answer IN
  /\ Arrived(i, {"authorize", "scenario", "poll"})
  /\ IsActive(i)
  /\ PgRenderRun(told)
  /\ call' = [call EXCEPT ![i] = AfterRender(i, told)]
  /\ UNCHANGED <<guided, run, missed>>

ArriveAction ==
  /\ Arrived("action", {"recover", "operate"})
  /\ PgRenderRun(call["action"].answer)
  /\ call' = [call EXCEPT !["action"] = Idle]
  /\ UNCHANGED <<guided, run, missed>>

Poll(i) ==
  /\ call[i].at = "waiting"
  /\ call' = [call EXCEPT ![i] = IF IsActive(i) THEN Request("poll", @.run) ELSE Idle]
  /\ UNCHANGED <<page, guided, run, missed>>

-----------------------------------------------------------------------------
Init ==
  /\ generation = NoOne /\ newest = NoOne
  /\ snapshot = NoSnapshot /\ runId = NoRun
  /\ ask = FALSE
  /\ call = [i \in Interactions |-> Idle]
  /\ run = [r \in Runs |-> Unstarted]
  /\ missed = {}

Click ==
  \/ Retire \/ PgSearch \/ PgSelect \/ PgAuthorize \/ PgRunAction
  \/ \E i \in Scenarios : PgRunScenario(i)

Serve(i) ==
  \/ Refuse(i) \/ StartRun(i) \/ ServePoll(i)
  \/ i = "workspace" /\ ServePreview
  \/ i = "action" /\ Operate

Arrive(i) ==
  \/ ArriveRun(i)
  \/ i = "workspace" /\ ArrivePreview
  \/ i = "action" /\ ArriveAction

Next ==
  \/ Click
  \/ \E i \in Interactions : Serve(i) \/ Arrive(i) \/ Poll(i)
  \/ LoseAnswer
  \/ \E r \in Runs : EndRun(r)

Spec == Init /\ [][Next]_vars

\* A request is answered or fails, an answer and a timer get their turn, and the
\* thread of a run comes to its end.
FairSpec ==
  /\ Spec
  /\ \A i \in Interactions : WF_vars(Serve(i) \/ Arrive(i) \/ Poll(i))
  /\ \A r \in Runs : WF_vars(EndRun(r))

-----------------------------------------------------------------------------
(* Properties *)

SnapshotType ==
  [run : Runs \union {NoRun}, state : {"NONE", "RUNNING"} \union Terminal,
   decision : Decisions \union {NoDecision}, version : 0..MaxOperations,
   explained : Decisions \union {NoDecision}]

\* Page, calls and server keep their types; what waits for an answer knows its run.
TypeOK ==
  /\ generation \in Scenarios \union {NoOne} /\ newest \in Scenarios \union {NoOne}
  /\ snapshot \in SnapshotType
  /\ runId \in Runs \union {NoRun}
  /\ ask \in BOOLEAN
  /\ call \in [Interactions ->
        [at : {"idle", "sent", "answered", "waiting"},
         what : {"none", "preview", "authorize", "scenario", "poll", "recover", "operate"},
         run : Runs \union {NoRun},
         answer : SnapshotType]]
  /\ \A i \in Interactions : call[i].what \in {"poll", "recover", "operate"} => call[i].run # NoRun
  /\ run \in [Runs ->
        [state : {"UNSTARTED", "RUNNING"} \union Terminal,
         decision : Decisions \union {NoDecision}, version : 0..MaxOperations]]
  /\ missed \subseteq Runs

\* What the page shows of a run that ended is what the server has, and its buttons
\* operate on that run, however answers overtake each other: unless the answer of an
\* operation on it is under way or was lost.  The narration that is carried on from an
\* earlier answer never explains another decision than the one it is shown with.
ShownIsCurrent ==
  snapshot # NoSnapshot =>
    /\ runId = snapshot.run
    /\ snapshot.explained \in {NoDecision, snapshot.decision}
    /\ \/ snapshot.state = "RUNNING"
       \/ runId \in missed
       \/ call["action"].at = "answered" /\ call["action"].run = runId
       \/ /\ snapshot.state = run[runId].state
          /\ snapshot.decision = run[runId].decision
          /\ snapshot.version = run[runId].version

\* "Only the newest guided interaction may paint": an answer to a scenario changes
\* nothing that is shown once another click retired it.
OnlyNewestPaints ==
  [][\A i \in Scenarios :
       call'[i] # call[i] /\ newest # i /\ newest' = newest => UNCHANGED page]_vars

\* Nothing stays busy: every lock is released and every poll comes to its end, also
\* when the server refuses, loses or no longer knows what it is asked about.
PageSettles == \A i \in Interactions : call[i] # Idle ~> call[i] = Idle
=============================================================================
