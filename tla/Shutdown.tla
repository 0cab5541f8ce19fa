------------------------------ MODULE Shutdown ------------------------------
(***************************************************************************)
(* The life of the process: the startup of src/cmd/overlay-bridge, its     *)
(* task group, the facade's server, the publish queue's drain and the      *)
(* up-tunnel client, from the flags to the exit that a signal, a task's    *)
(* failure or a failed startup brings.                                     *)
(*                                                                         *)
(* The facade and the queue are tasks with the steps that matter to a      *)
(* stop; the others (lanes, feed, read API, metrics...) run until they     *)
(* return.  A task's return, the test of the context, the record of its    *)
(* failure and the cancellation are separate steps.  Requests run on the   *)
(* server's own goroutines, which no task waits for past the server's      *)
(* shutdown timeout.  The client is its contract: it takes a record or     *)
(* refuses it, settles what it took, and Close settles the rest.           *)
(***************************************************************************)
EXTENDS Startup, Sequences

CONSTANTS
  Configs,     \* the configurations of the instance
  Other,       \* the tasks beside the facade and the publish queue
  Facade,      \* the task "facade"
  PublishQ,    \* the task "publish-queue"
  Request,     \* submissions to the facade, each with one record
  QueueDepth,  \* the depth of the publish queue
  None,        \* no task
  Failed       \* a startup that failed, where a task is blamed otherwise

Task == Other \cup {Facade, PublishQ}

ASSUME ShutdownAssumption ==
  /\ Facade # PublishQ /\ {Facade, PublishQ} \cap Other = {}
  /\ Configs \subseteq Config
  /\ {None, Failed} \cap Task = {} /\ None # Failed /\ QueueDepth \in Nat \ {0}

VARIABLES
  conf,    \* the configuration, until the tasks are started
  told,    \* what the log says of the topics, and of which answer, until then
  left,    \* the tasks still to start
  ctx,     \* the group's context is cancelled
  task,    \* where the goroutine of each task is
  gerr,    \* group.err: the task it names
  main,    \* where run is
  result,  \* what run returned: a task's failure, Failed, or None for Canceled
  listen,  \* the facade's listener accepts
  late,    \* the server's shutdown has timed out
  req,     \* where each request is
  ch,      \* Queue.ch
  fate,    \* what became of each request's record
  cause,   \* history: who cancelled the context first
  early    \* history: tasks that failed before the context was cancelled

startVars == <<conf, told, left>>
groupVars == <<ctx, task, gerr, cause, early>>
serveVars == <<listen, late>>
recVars == <<ch, fate>>
vars == <<conf, told, left, ctx, task, gerr, main, result, listen, late, req, ch, fate, cause, early>>

Fates == {"none", "queued", "taken", "handed", "confirmed", "lost", "failed"}

\* Nothing runs once main has returned.
Alive == main # "exit"

-----------------------------------------------------------------------------
(* run: from the flags to the group *)

\* The steps of run before it waits: nothing runs beside it yet but the signal.
MainTo(from, to) ==
  /\ main = from /\ main' = to
  /\ UNCHANGED req /\ UNCHANGED groupVars /\ UNCHANGED serveVars /\ UNCHANGED recVars

\* run returns an error: the process ends, and nothing was started.
StartFails(from, results) ==
  /\ MainTo(from, "exit")
  /\ result' \in results
  /\ UNCHANGED startVars

Goes(from, to) == MainTo(from, to) /\ UNCHANGED result

Validate ==
  /\ main = "start"
  /\ IF Accepts(conf) THEN Goes("start", "reconcile") /\ UNCHANGED startVars
                      ELSE StartFails("start", {Failed})

Told(said, sub, all) == [said |-> said, sub |-> sub, all |-> all]

\* reconcileTopics: it says what it found and goes on, whatever it found.  The
\* broker answers for this consumer or does not (external).
Reconcile ==
  /\ Goes("reconcile", "store")
  /\ \/ ~conf.broker /\ told' = Told("off", {}, FALSE)
     \/ conf.broker /\ told' = Told("unread", {}, FALSE)
     \/ /\ conf.broker
        /\ \E sub \in SUBSET Topic, all \in BOOLEAN :
             told' = Told(IF DiffOK(Compare(conf.topics, sub, all)) THEN "ok" ELSE "mismatch", sub, all)
  /\ UNCHANGED <<conf, left>>

\* buildStore: the anchor service is asked for its tip, if there is one.  What
\* a signal cuts short is no failure; another error still is.
BuildStore ==
  \/ Goes("store", "warm") /\ UNCHANGED startVars
  \/ main = "store" /\ conf.anchor /\ StartFails("store", IF ctx THEN {None, Failed} ELSE {Failed})

\* warmStore never fails a startup.
WarmStore == Goes("warm", "wire") /\ UNCHANGED startVars

\* The parts are built; the marker's key and the source address must be usable.
Wire ==
  /\ main = "wire"
  /\ IF KeyLoads(conf) /\ SourceResolves(conf)
     THEN Goes("wire", "built") /\ UNCHANGED startVars
     ELSE StartFails("wire", {Failed})

Wanted(c) ==
  Other \cup {t \in {Facade} : HasFacade(c)} \cup {t \in {PublishQ} : HasQueue(c)}

\* newGroup: from here on the configuration is in what was built.
NewGroup ==
  /\ Goes("built", "tasks")
  /\ left' = Wanted(conf) /\ conf' = None /\ told' = None

\* Tasks run, and may fail, while others are still to be started.  The facade
\* listens before the queue it publishes to is drained.
StartTask(t) ==
  /\ main = "tasks" /\ t \in left
  /\ t = PublishQ => Facade \notin left
  /\ left' = left \ {t}
  /\ task' = [task EXCEPT ![t] = "run"]
  /\ listen' = (listen \/ t = Facade)
  /\ UNCHANGED <<conf, told, main, result, ctx, gerr, cause, early, late, req>> /\ UNCHANGED recVars

Started == left = {} /\ Goes("tasks", "ctx") /\ UNCHANGED startVars

-----------------------------------------------------------------------------
(* The group *)

\* Only the first cancellation counts.
CancelBy(who) == ctx' = TRUE /\ cause' = IF ctx THEN cause ELSE who

TaskTo(t, from, to) == Alive /\ task[t] \in from /\ task' = [task EXCEPT ![t] = to]

\* The function of a task has returned: an error of its own, nil, or the
\* context's error.  The group takes any error that is Canceled for the stop's
\* own, whoever cancelled; that no task returns one before the group's context
\* is cancelled is an assumption on the tasks, whose only context it is.
Returns(t, what) ==
  /\ what = "canceled" => ctx
  /\ TaskTo(t, {"run"}, what)
  /\ early' = IF ctx \/ what = "canceled" THEN early ELSE early \cup {t}
  /\ UNCHANGED <<ctx, gerr, cause>>

\* Tasks such as the lanes may return nil, before the stop too.
OtherReturns(t) ==
  /\ t \in Other
  /\ \E what \in {"error", "nil", "canceled"} : Returns(t, what)
  /\ UNCHANGED <<main, result, req>> /\ UNCHANGED serveVars /\ UNCHANGED recVars /\ UNCHANGED startVars

\* nil is clean once the context is cancelled, and a failure before.
Judge(t) ==
  /\ \/ TaskTo(t, {"canceled"}, "done")
     \/ TaskTo(t, {"error"}, "fail")
     \/ TaskTo(t, {"nil"}, IF ctx THEN "done" ELSE "fail")
  /\ UNCHANGED <<ctx, gerr, cause, early, main, result, req>>
  /\ UNCHANGED serveVars /\ UNCHANGED recVars /\ UNCHANGED startVars

\* Mutant: the last failure is kept.
RecordLast(t) ==
  /\ TaskTo(t, {"fail"}, "cancel")
  /\ gerr' = t
  /\ UNCHANGED <<ctx, cause, early, main, result, req>>
  /\ UNCHANGED serveVars /\ UNCHANGED recVars /\ UNCHANGED startVars

\* The first failure is kept.
Record(t) ==
  /\ TaskTo(t, {"fail"}, "cancel")
  /\ gerr' = IF gerr = None THEN t ELSE gerr
  /\ UNCHANGED <<ctx, cause, early, main, result, req>>
  /\ UNCHANGED serveVars /\ UNCHANGED recVars /\ UNCHANGED startVars

\* Mutant: a failure is recorded, and the others run on.
CancelForgotten(t) ==
  /\ TaskTo(t, {"cancel"}, "done")
  /\ UNCHANGED <<ctx, cause, gerr, early, main, result, req>>
  /\ UNCHANGED serveVars /\ UNCHANGED recVars /\ UNCHANGED startVars

\* It brings the others down, and only then is the task done.
Cancel(t) ==
  /\ TaskTo(t, {"cancel"}, "done")
  /\ CancelBy(t)
  /\ UNCHANGED <<gerr, early, main, result, req>>
  /\ UNCHANGED serveVars /\ UNCHANGED recVars /\ UNCHANGED startVars

\* SIGTERM or an interrupt: the parent's context ends, and with it the group's.
Signal ==
  /\ Alive /\ main # "start" /\ ~ctx
  /\ CancelBy(None)
  /\ UNCHANGED <<task, gerr, early, main, result, req>>
  /\ UNCHANGED serveVars /\ UNCHANGED recVars /\ UNCHANGED startVars

-----------------------------------------------------------------------------
(* run: wait, then the deferred Close *)

WaitCtx ==
  /\ main = "ctx" /\ ctx
  /\ main' = "wg"
  /\ UNCHANGED <<result, req>> /\ UNCHANGED groupVars /\ UNCHANGED serveVars /\ UNCHANGED recVars /\ UNCHANGED startVars

\* Mutant: the failure is read without waiting for the tasks.
WaitTasksSkipped ==
  /\ main = "wg"
  /\ main' = "close" /\ result' = gerr
  /\ UNCHANGED req /\ UNCHANGED groupVars /\ UNCHANGED serveVars /\ UNCHANGED recVars /\ UNCHANGED startVars

WaitTasks ==
  /\ main = "wg" /\ \A t \in Task : task[t] \in {"none", "done"}
  /\ main' = "close" /\ result' = gerr
  /\ UNCHANGED req /\ UNCHANGED groupVars /\ UNCHANGED serveVars /\ UNCHANGED recVars /\ UNCHANGED startVars

\* The records the client holds are confirmed or lost; then the process ends.
Close ==
  /\ main = "close"
  /\ main' = "exit"
  /\ fate' \in [Request -> Fates]
  /\ \A r \in Request : IF fate[r] = "handed" THEN fate'[r] \in {"confirmed", "lost"}
                                              ELSE fate'[r] = fate[r]
  /\ UNCHANGED <<result, req, ch>> /\ UNCHANGED groupVars /\ UNCHANGED serveVars /\ UNCHANGED startVars

-----------------------------------------------------------------------------
(* The facade's server and its requests *)

ReqTo(r, from, to) == Alive /\ req[r] = from /\ req' = [req EXCEPT ![r] = to]

InFlight == {r \in Request : req[r] \in {"submit", "accepted"}}

\* The listener fails before the stop is seen.
ServeFail ==
  /\ listen /\ Returns(Facade, "error")
  /\ listen' = FALSE
  /\ UNCHANGED <<main, result, late, req>> /\ UNCHANGED recVars /\ UNCHANGED startVars

\* Shutdown closes the listener first.
ServeStop ==
  /\ Alive /\ task[Facade] = "run" /\ ctx /\ listen
  /\ listen' = FALSE
  /\ UNCHANGED <<main, result, late, req>> /\ UNCHANGED groupVars /\ UNCHANGED recVars /\ UNCHANGED startVars

ShutdownTimeout ==
  /\ Alive /\ task[Facade] = "run" /\ ~listen /\ ~late
  /\ late' = TRUE
  /\ UNCHANGED <<main, result, listen, req>> /\ UNCHANGED groupVars /\ UNCHANGED recVars /\ UNCHANGED startVars

\* It waits for the requests in flight, but not past its timeout.
ServeEnd ==
  /\ ~listen /\ (InFlight = {} \/ late)
  /\ Returns(Facade, "canceled")
  /\ UNCHANGED <<main, result, req>> /\ UNCHANGED serveVars /\ UNCHANGED recVars /\ UNCHANGED startVars

Arrive(r) ==
  /\ listen /\ ReqTo(r, "none", "submit")
  /\ UNCHANGED <<main, result>> /\ UNCHANGED groupVars /\ UNCHANGED serveVars /\ UNCHANGED recVars /\ UNCHANGED startVars

\* Publish looks at the room in the queue, not at whether it is still drained.
Publish(r) ==
  /\ Len(ch) < QueueDepth
  /\ ReqTo(r, "submit", "accepted")
  /\ ch' = Append(ch, r) /\ fate' = [fate EXCEPT ![r] = "queued"]
  /\ UNCHANGED <<main, result>> /\ UNCHANGED groupVars /\ UNCHANGED serveVars /\ UNCHANGED startVars

\* Refused by the engine, or by a full queue.
Refuse(r) ==
  /\ ReqTo(r, "submit", "refused")
  /\ UNCHANGED <<main, result>> /\ UNCHANGED groupVars /\ UNCHANGED serveVars /\ UNCHANGED recVars /\ UNCHANGED startVars

AnswerOK(r) ==
  /\ ReqTo(r, "accepted", "ok")
  /\ UNCHANGED <<main, result>> /\ UNCHANGED groupVars /\ UNCHANGED serveVars /\ UNCHANGED recVars /\ UNCHANGED startVars

-----------------------------------------------------------------------------
(* The publish queue's drain and the client *)

FateTo(r, from, to) == Alive /\ fate[r] = from /\ fate' = [fate EXCEPT ![r] = to]

Sending == \E r \in Request : fate[r] = "taken"

\* Even after the context is done: the select may take either case.
RunTake ==
  /\ task[PublishQ] = "run" /\ ch # <<>> /\ ~Sending
  /\ FateTo(Head(ch), "queued", "taken")
  /\ ch' = Tail(ch)
  /\ UNCHANGED <<main, result, req>> /\ UNCHANGED groupVars /\ UNCHANGED serveVars /\ UNCHANGED startVars

\* Send returns: the client has taken the record, or has refused it.
RunSend(r) ==
  /\ \/ FateTo(r, "taken", "handed") \/ FateTo(r, "taken", "failed")
  /\ UNCHANGED <<main, result, req, ch>> /\ UNCHANGED groupVars /\ UNCHANGED serveVars /\ UNCHANGED startVars

\* A send or a poll settles a record the client holds.
RunSettle(r) ==
  /\ task[PublishQ] = "run"
  /\ \/ FateTo(r, "handed", "confirmed") \/ FateTo(r, "handed", "lost")
  /\ UNCHANGED <<main, result, req, ch>> /\ UNCHANGED groupVars /\ UNCHANGED serveVars /\ UNCHANGED startVars

\* What is in the channel stays there.
RunEnd ==
  /\ ~Sending /\ Returns(PublishQ, "canceled")
  /\ UNCHANGED <<main, result, req>> /\ UNCHANGED serveVars /\ UNCHANGED recVars /\ UNCHANGED startVars

-----------------------------------------------------------------------------

Init ==
  /\ ctx = FALSE /\ cause = None /\ early = {}
  /\ conf \in Configs /\ told = None /\ left = {}
  /\ task = [t \in Task |-> "none"] /\ gerr = None
  /\ main = "start" /\ result = None
  /\ listen = FALSE /\ late = FALSE
  /\ req = [r \in Request |-> "none"] /\ fate = [r \in Request |-> "none"]
  /\ ch = <<>>

TaskStep(t) == Judge(t) \/ Record(t) \/ Cancel(t)
ServeStep == ServeStop \/ ShutdownTimeout \/ ServeEnd
RunStep == RunTake \/ RunEnd \/ \E r \in Request : RunSend(r)
StartStep ==
  \/ Validate \/ Reconcile \/ BuildStore \/ WarmStore \/ Wire \/ NewGroup \/ Started
  \/ \E t \in Task : StartTask(t)
MainStep == StartStep \/ WaitCtx \/ WaitTasks \/ Close

Next ==
  \/ \E t \in Task : OtherReturns(t) \/ TaskStep(t)
  \/ Signal \/ MainStep \/ ServeFail \/ ServeStep \/ RunStep
  \/ \E r \in Request : Arrive(r) \/ Publish(r) \/ Refuse(r) \/ AnswerOK(r) \/ RunSettle(r)

Spec == Init /\ [][Next]_vars

-----------------------------------------------------------------------------
(* Properties *)

\* The state of the process is well typed.
TypeOK ==
  /\ ctx \in BOOLEAN /\ cause \in Task \cup {None} /\ early \subseteq Task
  /\ conf \in Config \cup {None} /\ left \subseteq Task
  /\ told \in {None} \cup [said : {"off", "unread", "ok", "mismatch"}, sub : SUBSET Topic, all : BOOLEAN]
  /\ task \in [Task -> {"none", "run", "nil", "error", "canceled", "fail", "cancel", "done"}]
  /\ gerr \in Task \cup {None} /\ result \in Task \cup {None, Failed}
  /\ main \in {"start", "reconcile", "store", "warm", "wire", "built", "tasks", "ctx", "wg", "close", "exit"}
  /\ listen \in BOOLEAN /\ late \in BOOLEAN
  /\ req \in [Request -> {"none", "submit", "accepted", "ok", "refused"}]
  /\ fate \in [Request -> Fates]
  /\ ch \in Seq(Request) /\ Len(ch) <= QueueDepth

\* The process does not exit as if it was told to when a task's failure
\* brought it down, and blames a task that failed while the others still ran,
\* not one that fell over in the stop ("reports the first real failure").  It
\* exits cleanly only when it was told to, and a startup that fails leaves
\* nothing running.
CauseReported ==
  /\ main \in {"close", "exit"} /\ cause # None => result \in early
  /\ main = "exit" /\ result = None => ctx
  /\ result = Failed => \A t \in Task : task[t] = "none"

\* Whatever the flags, set, unset or set to an empty list, what is built hangs
\* together: a facade asks an engine and has a queue for what it answers 200
\* (submit says 200 without one), submissions are offered only where a shadow
\* is built, which takes an engine to shadow, and enforced verdicts carry a
\* marker although validate never opens the key.  And the log says that the
\* topics are reconciled only if nothing the plane delivers is discarded for
\* its topic.
WiringSound ==
  main = "built" =>
    LET w == Wiring(conf)
    IN  /\ w.facade => w.submits /\ w.publishes
        /\ w.offers => w.shadowed
        /\ w.shadowed => w.submits
        /\ w.verify = "enforce" => w.marks
        /\ told.said = "ok" => ~told.all /\ told.sub \subseteq conf.topics

\* The client is closed when nobody can hand it a record any more, so that at
\* the exit every record it took is settled: none is left unanswered for.
SettledAtExit ==
  /\ TypeOK
  /\ main \in {"close", "exit"} => ~Sending
  /\ main = "exit" => \A r \in Request : fate[r] # "handed"

-----------------------------------------------------------------------------
(* Fairness: goroutines go on; a send is bounded by the client's deadlines;  *)
(* a task minds its context.  The select of Run picks among its ready cases  *)
(* at random, so it does not pass the context over for ever.                 *)

Fairness ==
  /\ \A t \in Task : WF_vars(TaskStep(t)) /\ WF_vars(ctx /\ OtherReturns(t))
  /\ WF_vars(MainStep) /\ WF_vars(ServeStep)
  /\ WF_vars(\E r \in Request : RunSend(r)) /\ SF_vars(RunEnd)

FairSpec == Spec /\ Fairness

\* A bridge with a dead task comes down: whatever the requests and the tunnel
\* do, a task that has returned, or a signal, is followed by the exit.
DeadTaskEndsAll == (ctx \/ \E t \in Task : task[t] \notin {"none", "run"}) ~> main = "exit"

=============================================================================
