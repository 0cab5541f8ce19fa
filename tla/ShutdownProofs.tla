--------------------------- MODULE ShutdownProofs ---------------------------
(***************************************************************************)
(* What is proved of Shutdown, for any configurations, tasks and requests: *)
(* the exit blames the failure that caused it, the client holds nothing    *)
(* unsettled at the exit, and what the flags let start hangs together.     *)
(***************************************************************************)
EXTENDS Shutdown, SequenceTheorems, TLAPS

-----------------------------------------------------------------------------
(* The inductive invariant *)

Starting == {"start", "reconcile", "store", "warm", "wire", "built"}

NoneStarted == \A t \in Task : task[t] = "none"

\* Until the context is cancelled every task that has returned failed early, so
\* that the first failure recorded is of one that did; a failure is recorded
\* before it cancels.
Blamed ==
  /\ \A t \in Task :
       /\ task[t] \in {"error", "nil", "fail", "cancel"} /\ ~ctx => t \in early
       /\ task[t] = "cancel" => gerr # None
  /\ gerr # None /\ ~ctx => gerr \in early
  /\ cause # None => ctx /\ gerr \in early

\* What run returns, and what is true of the process where it is.
Outcome ==
  /\ main \in Starting => NoneStarted /\ gerr = None /\ cause = None
  /\ main \in {"wg", "close"} => ctx
  /\ main \notin {"close", "exit"} => result = None
  /\ main = "close" => result = gerr
  /\ main = "exit" => /\ result = gerr \/ (NoneStarted /\ cause = None)
                      /\ result = None => ctx
  /\ result = Failed => main = "exit" /\ NoneStarted

\* A record is sent by the queue's task while it runs, and the client holds
\* records only once that task was started.
Handing ==
  /\ Sending => task[PublishQ] = "run"
  /\ \A r \in Request : fate[r] \in {"taken", "handed"} => task[PublishQ] # "none"
  /\ main = "close" => \A t \in Task : task[t] \in {"none", "done"}
  /\ main = "exit" => \A r \in Request : fate[r] \notin {"taken", "handed"}

\* What is known of the configuration on the way to what is built.
Wired ==
  /\ main \in Starting => conf \in Config
  /\ main \in Starting \ {"start"} => Accepts(conf)
  /\ main \in {"store", "warm", "wire", "built"} =>
       (told.said = "ok" => ~told.all /\ told.sub \subseteq conf.topics)
  /\ main = "built" => KeyLoads(conf)

IInv == TypeOK /\ Blamed /\ Outcome /\ Handing /\ Wired

-----------------------------------------------------------------------------
(* The constants *)

\* The names of the tasks are apart, and none of them means no task.
LEMMA Names ==
  /\ Facade \in Task /\ PublishQ \in Task /\ Facade # PublishQ
  /\ None \notin Task /\ Failed \notin Task /\ None # Failed
  /\ Other \subseteq Task /\ Facade \notin Other /\ PublishQ \notin Other
  /\ QueueDepth \in Nat \ {0} /\ Configs \subseteq Config
BY ShutdownAssumption DEF Task

-----------------------------------------------------------------------------
(* The steps *)

\* The process starts with nothing running.
LEMMA InitIInv == Init => IInv
<1> SUFFICES ASSUME Init PROVE IInv
  OBVIOUS
<1>1. TypeOK
  <2>1. ch \in Seq(Request) /\ Len(ch) <= QueueDepth
    BY Names DEF Init
  <2>2. conf \in Config \cup {None}
    BY Names DEF Init
  <2> QED
    BY <2>1, <2>2, Names DEF Init, TypeOK, Fates
<1>2. Blamed /\ Outcome /\ Handing
  BY Names DEF Init, Blamed, Outcome, Handing, Starting, NoneStarted, Sending
<1>3. Wired
  BY Names DEF Init, Wired, Starting
<1> QED
  BY <1>1, <1>2, <1>3 DEF IInv

\* The flags are judged.
LEMMA ValidateStep ==
  ASSUME IInv, Validate
  PROVE  IInv'
<1> USE Names DEF startVars, groupVars, serveVars, recVars, Validate, MainTo, StartFails, Goes
<1>1. TypeOK'
  BY DEF IInv, TypeOK, Fates
<1>2. Blamed'
  BY DEF IInv, TypeOK, Blamed, Outcome, Starting, NoneStarted
<1>3. Outcome'
  BY DEF IInv, TypeOK, Outcome, Blamed, Starting, NoneStarted
<1>4. Handing'
  BY DEF IInv, TypeOK, Handing, Outcome, Starting, NoneStarted, Sending
<1>5. Wired'
  BY DEF IInv, TypeOK, Wired, Starting
<1> QED
  BY <1>1, <1>2, <1>3, <1>4, <1>5 DEF IInv

\* The topics are compared.
LEMMA ReconcileStep ==
  ASSUME IInv, Reconcile
  PROVE  IInv'
<1> USE Names DEF startVars, groupVars, serveVars, recVars, Reconcile, MainTo, StartFails, Goes
<1>1. TypeOK'
  <2>1. told' \in [said : {"off", "unread", "ok", "mismatch"}, sub : SUBSET Topic, all : BOOLEAN]
    <3>1. \A said \in {"off", "unread", "ok", "mismatch"}, sub \in SUBSET Topic, all \in BOOLEAN :
            Told(said, sub, all) \in [said : {"off", "unread", "ok", "mismatch"}, sub : SUBSET Topic, all : BOOLEAN]
      BY DEF Told
    <3>2. \E said \in {"off", "unread", "ok", "mismatch"}, sub \in SUBSET Topic, all \in BOOLEAN :
            told' = Told(said, sub, all)
      OBVIOUS
    <3>3. PICK said \in {"off", "unread", "ok", "mismatch"}, sub \in SUBSET Topic, all \in BOOLEAN :
            told' = Told(said, sub, all)
      BY <3>2
    <3> HIDE DEF Reconcile
    <3> QED
      BY <3>1, <3>3
  <2> QED
    BY <2>1 DEF IInv, TypeOK, Fates
<1>2. Blamed'
  BY DEF IInv, TypeOK, Blamed, Outcome, Starting, NoneStarted
<1>3. Outcome'
  BY DEF IInv, TypeOK, Outcome, Blamed, Starting, NoneStarted
<1>4. Handing'
  BY DEF IInv, TypeOK, Handing, Outcome, Starting, NoneStarted, Sending
<1>5. Wired'
  <2>1. told'.said = "ok" => ~told'.all /\ told'.sub \subseteq conf.topics
    BY DEF Told, DiffOK, Compare
  <2> QED
    BY <2>1 DEF IInv, Wired, Starting
<1> QED
  BY <1>1, <1>2, <1>3, <1>4, <1>5 DEF IInv

\* The store is built, or fails to be.
LEMMA BuildStoreStep ==
  ASSUME IInv, BuildStore
  PROVE  IInv'
<1> USE Names DEF startVars, groupVars, serveVars, recVars, BuildStore, MainTo, StartFails, Goes
<1>1. TypeOK'
  BY DEF IInv, TypeOK, Fates
<1>2. Blamed'
  BY DEF IInv, TypeOK, Blamed, Outcome, Starting, NoneStarted
<1>3. Outcome'
  BY DEF IInv, TypeOK, Outcome, Blamed, Starting, NoneStarted
<1>4. Handing'
  BY DEF IInv, TypeOK, Handing, Outcome, Starting, NoneStarted, Sending
<1>5. Wired'
  BY DEF IInv, TypeOK, Wired, Starting
<1> QED
  BY <1>1, <1>2, <1>3, <1>4, <1>5 DEF IInv

\* The store is warmed.
LEMMA WarmStoreStep ==
  ASSUME IInv, WarmStore
  PROVE  IInv'
<1> USE Names DEF startVars, groupVars, serveVars, recVars, WarmStore, MainTo, StartFails, Goes
<1>1. TypeOK'
  BY DEF IInv, TypeOK, Fates
<1>2. Blamed'
  BY DEF IInv, TypeOK, Blamed, Outcome, Starting, NoneStarted
<1>3. Outcome'
  BY DEF IInv, TypeOK, Outcome, Blamed, Starting, NoneStarted
<1>4. Handing'
  BY DEF IInv, TypeOK, Handing, Outcome, Starting, NoneStarted, Sending
<1>5. Wired'
  BY DEF IInv, TypeOK, Wired, Starting
<1> QED
  BY <1>1, <1>2, <1>3, <1>4, <1>5 DEF IInv

\* The parts are built, or fail to be.
LEMMA WireStep ==
  ASSUME IInv, Wire
  PROVE  IInv'
<1> USE Names DEF startVars, groupVars, serveVars, recVars, Wire, MainTo, StartFails, Goes
<1>1. TypeOK'
  BY DEF IInv, TypeOK, Fates
<1>2. Blamed'
  BY DEF IInv, TypeOK, Blamed, Outcome, Starting, NoneStarted
<1>3. Outcome'
  BY DEF IInv, TypeOK, Outcome, Blamed, Starting, NoneStarted
<1>4. Handing'
  BY DEF IInv, TypeOK, Handing, Outcome, Starting, NoneStarted, Sending
<1>5. Wired'
  BY DEF IInv, TypeOK, Wired, Starting
<1> QED
  BY <1>1, <1>2, <1>3, <1>4, <1>5 DEF IInv

\* The group is made.
LEMMA NewGroupStep ==
  ASSUME IInv, NewGroup
  PROVE  IInv'
<1> USE Names DEF startVars, groupVars, serveVars, recVars, NewGroup, MainTo, StartFails, Goes
<1>1. TypeOK'
  <2>1. left' \subseteq Task
    BY DEF Wanted
  <2> QED
    BY <2>1 DEF IInv, TypeOK, Fates
<1>2. Blamed'
  BY DEF IInv, TypeOK, Blamed, Outcome, Starting, NoneStarted
<1>3. Outcome'
  BY DEF IInv, TypeOK, Outcome, Blamed, Starting, NoneStarted
<1>4. Handing'
  BY DEF IInv, TypeOK, Handing, Outcome, Starting, NoneStarted, Sending
<1>5. Wired'
  BY DEF IInv, TypeOK, Wired, Starting
<1> QED
  BY <1>1, <1>2, <1>3, <1>4, <1>5 DEF IInv

\* A task is started.
LEMMA StartTaskStep ==
  ASSUME IInv, NEW t \in Task, StartTask(t)
  PROVE  IInv'
<1> USE Names DEF startVars, groupVars, serveVars, recVars, StartTask, MainTo, StartFails, Goes
<1>1. TypeOK'
  BY DEF IInv, TypeOK, Fates
<1>2. Blamed'
  BY DEF IInv, TypeOK, Blamed, Outcome, Starting, NoneStarted
<1>3. Outcome'
  BY DEF IInv, TypeOK, Outcome, Blamed, Starting, NoneStarted
<1>4. Handing'
  BY DEF IInv, TypeOK, Handing, Outcome, Starting, NoneStarted, Sending
<1>5. Wired'
  BY DEF IInv, TypeOK, Wired, Starting
<1> QED
  BY <1>1, <1>2, <1>3, <1>4, <1>5 DEF IInv

\* All tasks are started.
LEMMA StartedStep ==
  ASSUME IInv, Started
  PROVE  IInv'
<1> USE Names DEF startVars, groupVars, serveVars, recVars, Started, MainTo, StartFails, Goes
<1>1. TypeOK'
  BY DEF IInv, TypeOK, Fates
<1>2. Blamed'
  BY DEF IInv, TypeOK, Blamed, Outcome, Starting, NoneStarted
<1>3. Outcome'
  BY DEF IInv, TypeOK, Outcome, Blamed, Starting, NoneStarted
<1>4. Handing'
  BY DEF IInv, TypeOK, Handing, Outcome, Starting, NoneStarted, Sending
<1>5. Wired'
  BY DEF IInv, TypeOK, Wired, Starting
<1> QED
  BY <1>1, <1>2, <1>3, <1>4, <1>5 DEF IInv

\* A task returns.
LEMMA OtherReturnsStep ==
  ASSUME IInv, NEW t \in Task, OtherReturns(t)
  PROVE  IInv'
<1> USE Names DEF startVars, groupVars, serveVars, recVars, OtherReturns, TaskTo, Returns, CancelBy, Alive
<1>1. TypeOK'
  BY DEF IInv, TypeOK, Fates
<1>2. Blamed'
  BY DEF IInv, TypeOK, Blamed
<1>3. Outcome'
  BY DEF IInv, TypeOK, Outcome, Blamed, Starting, NoneStarted
<1>4. Handing'
  BY DEF IInv, TypeOK, Handing, Outcome, Starting, NoneStarted, Sending
<1>5. Wired'
  BY DEF IInv, TypeOK, Wired, Starting
<1> QED
  BY <1>1, <1>2, <1>3, <1>4, <1>5 DEF IInv

\* Its return is judged.
LEMMA JudgeStep ==
  ASSUME IInv, NEW t \in Task, Judge(t)
  PROVE  IInv'
<1> USE Names DEF startVars, groupVars, serveVars, recVars, Judge, TaskTo, Returns, CancelBy, Alive
<1>1. TypeOK'
  BY DEF IInv, TypeOK, Fates
<1>2. Blamed'
  BY DEF IInv, TypeOK, Blamed
<1>3. Outcome'
  BY DEF IInv, TypeOK, Outcome, Blamed, Starting, NoneStarted
<1>4. Handing'
  BY DEF IInv, TypeOK, Handing, Outcome, Starting, NoneStarted, Sending
<1>5. Wired'
  BY DEF IInv, TypeOK, Wired, Starting
<1> QED
  BY <1>1, <1>2, <1>3, <1>4, <1>5 DEF IInv

\* The first failure is recorded.
LEMMA RecordStep ==
  ASSUME IInv, NEW t \in Task, Record(t)
  PROVE  IInv'
<1> USE Names DEF startVars, groupVars, serveVars, recVars, Record, TaskTo, Returns, CancelBy, Alive
<1>1. TypeOK'
  BY DEF IInv, TypeOK, Fates
<1>2. Blamed'
  BY DEF IInv, TypeOK, Blamed
<1>3. Outcome'
  BY DEF IInv, TypeOK, Outcome, Handing, Starting, NoneStarted
<1>4. Handing'
  BY DEF IInv, TypeOK, Handing, Outcome, Starting, NoneStarted, Sending
<1>5. Wired'
  BY DEF IInv, TypeOK, Wired, Starting
<1> QED
  BY <1>1, <1>2, <1>3, <1>4, <1>5 DEF IInv

\* A failure cancels the context.
LEMMA CancelStep ==
  ASSUME IInv, NEW t \in Task, Cancel(t)
  PROVE  IInv'
<1> USE Names DEF startVars, groupVars, serveVars, recVars, Cancel, TaskTo, Returns, CancelBy, Alive
<1>1. TypeOK'
  BY DEF IInv, TypeOK, Fates
<1>2. Blamed'
  BY DEF IInv, TypeOK, Blamed
<1>3. Outcome'
  BY DEF IInv, TypeOK, Outcome, Blamed, Starting, NoneStarted
<1>4. Handing'
  BY DEF IInv, TypeOK, Handing, Outcome, Starting, NoneStarted, Sending
<1>5. Wired'
  BY DEF IInv, TypeOK, Wired, Starting
<1> QED
  BY <1>1, <1>2, <1>3, <1>4, <1>5 DEF IInv

\* A signal cancels the context.
LEMMA SignalStep ==
  ASSUME IInv, Signal
  PROVE  IInv'
<1> USE Names DEF startVars, groupVars, serveVars, recVars, Signal, TaskTo, Returns, CancelBy, Alive
<1>1. TypeOK'
  BY DEF IInv, TypeOK, Fates
<1>2. Blamed'
  BY DEF IInv, TypeOK, Blamed
<1>3. Outcome'
  BY DEF IInv, TypeOK, Outcome, Blamed, Starting, NoneStarted
<1>4. Handing'
  BY DEF IInv, TypeOK, Handing, Outcome, Starting, NoneStarted, Sending
<1>5. Wired'
  BY DEF IInv, TypeOK, Wired, Starting
<1> QED
  BY <1>1, <1>2, <1>3, <1>4, <1>5 DEF IInv

\* run waits for the context.
LEMMA WaitCtxStep ==
  ASSUME IInv, WaitCtx
  PROVE  IInv'
<1> USE Names DEF startVars, groupVars, serveVars, recVars, WaitCtx
<1>1. TypeOK'
  BY DEF IInv, TypeOK, Fates
<1>2. Blamed'
  BY DEF IInv, TypeOK, Blamed, Outcome, Starting, NoneStarted
<1>3. Outcome'
  BY DEF IInv, TypeOK, Outcome, Blamed, Starting, NoneStarted
<1>4. Handing'
  BY DEF IInv, TypeOK, Handing, Outcome, Starting, NoneStarted, Sending
<1>5. Wired'
  BY DEF IInv, TypeOK, Wired, Starting
<1> QED
  BY <1>1, <1>2, <1>3, <1>4, <1>5 DEF IInv

\* run waits for the tasks.
LEMMA WaitTasksStep ==
  ASSUME IInv, WaitTasks
  PROVE  IInv'
<1> USE Names DEF startVars, groupVars, serveVars, recVars, WaitTasks
<1>1. TypeOK'
  BY DEF IInv, TypeOK, Fates
<1>2. Blamed'
  BY DEF IInv, TypeOK, Blamed, Outcome, Starting, NoneStarted
<1>3. Outcome'
  BY DEF IInv, TypeOK, Outcome, Blamed, Starting, NoneStarted
<1>4. Handing'
  BY DEF IInv, TypeOK, Handing, Outcome, Starting, NoneStarted, Sending
<1>5. Wired'
  BY DEF IInv, TypeOK, Wired, Starting
<1> QED
  BY <1>1, <1>2, <1>3, <1>4, <1>5 DEF IInv

\* The client is closed.
LEMMA CloseStep ==
  ASSUME IInv, Close
  PROVE  IInv'
<1> USE Names DEF startVars, groupVars, serveVars, recVars, Close
<1>1. TypeOK'
  BY DEF IInv, TypeOK, Fates
<1>2. Blamed'
  BY DEF IInv, TypeOK, Blamed, Outcome, Starting, NoneStarted
<1>3. Outcome'
  BY DEF IInv, TypeOK, Outcome, Blamed, Starting, NoneStarted
<1>4. Handing'
  BY DEF IInv, TypeOK, Handing, Outcome, Starting, NoneStarted, Sending
<1>5. Wired'
  BY DEF IInv, TypeOK, Wired, Starting
<1> QED
  BY <1>1, <1>2, <1>3, <1>4, <1>5 DEF IInv

\* The listener fails.
LEMMA ServeFailStep ==
  ASSUME IInv, ServeFail
  PROVE  IInv'
<1> USE Names DEF startVars, groupVars, serveVars, recVars, ServeFail, TaskTo, Returns, Alive
<1>1. TypeOK'
  <2>1. listen' \in BOOLEAN
    OBVIOUS
  <2> QED
    BY <2>1 DEF IInv, TypeOK, Fates
<1>2. Blamed'
  BY DEF IInv, TypeOK, Blamed
<1>3. Outcome'
  BY DEF IInv, TypeOK, Outcome, Blamed, Starting, NoneStarted
<1>4. Handing'
  BY DEF IInv, TypeOK, Handing, Outcome, Starting, NoneStarted, Sending
<1>5. Wired'
  BY DEF IInv, TypeOK, Wired, Starting
<1> QED
  BY <1>1, <1>2, <1>3, <1>4, <1>5 DEF IInv

\* The listener closes.
LEMMA ServeStopStep ==
  ASSUME IInv, ServeStop
  PROVE  IInv'
<1> USE Names DEF startVars, groupVars, serveVars, recVars, ServeStop, TaskTo, Returns, Alive
<1>1. TypeOK'
  <2>1. listen' \in BOOLEAN
    OBVIOUS
  <2> QED
    BY <2>1 DEF IInv, TypeOK, Fates
<1>2. Blamed'
  BY DEF IInv, TypeOK, Blamed
<1>3. Outcome'
  BY DEF IInv, TypeOK, Outcome, Blamed, Starting, NoneStarted
<1>4. Handing'
  BY DEF IInv, TypeOK, Handing, Outcome, Starting, NoneStarted, Sending
<1>5. Wired'
  BY DEF IInv, TypeOK, Wired, Starting
<1> QED
  BY <1>1, <1>2, <1>3, <1>4, <1>5 DEF IInv

\* The server's shutdown times out.
LEMMA ShutdownTimeoutStep ==
  ASSUME IInv, ShutdownTimeout
  PROVE  IInv'
<1> USE Names DEF startVars, groupVars, serveVars, recVars, ShutdownTimeout, TaskTo, Returns, Alive
<1>1. TypeOK'
  BY DEF IInv, TypeOK, Fates
<1>2. Blamed'
  BY DEF IInv, TypeOK, Blamed
<1>3. Outcome'
  BY DEF IInv, TypeOK, Outcome, Blamed, Starting, NoneStarted
<1>4. Handing'
  BY DEF IInv, TypeOK, Handing, Outcome, Starting, NoneStarted, Sending
<1>5. Wired'
  BY DEF IInv, TypeOK, Wired, Starting
<1> QED
  BY <1>1, <1>2, <1>3, <1>4, <1>5 DEF IInv

\* The server ends.
LEMMA ServeEndStep ==
  ASSUME IInv, ServeEnd
  PROVE  IInv'
<1> USE Names DEF startVars, groupVars, serveVars, recVars, ServeEnd, TaskTo, Returns, Alive
<1>1. TypeOK'
  BY DEF IInv, TypeOK, Fates
<1>2. Blamed'
  BY DEF IInv, TypeOK, Blamed
<1>3. Outcome'
  BY DEF IInv, TypeOK, Outcome, Blamed, Starting, NoneStarted
<1>4. Handing'
  BY DEF IInv, TypeOK, Handing, Outcome, Starting, NoneStarted, Sending
<1>5. Wired'
  BY DEF IInv, TypeOK, Wired, Starting
<1> QED
  BY <1>1, <1>2, <1>3, <1>4, <1>5 DEF IInv

\* A request arrives.
LEMMA ArriveStep ==
  ASSUME IInv, NEW r \in Request, Arrive(r)
  PROVE  IInv'
<1> USE Names DEF startVars, groupVars, serveVars, recVars, Arrive, ReqTo, Alive
<1>1. TypeOK'
  BY DEF IInv, TypeOK, Fates
<1>2. Blamed'
  BY DEF IInv, TypeOK, Blamed
<1>3. Outcome'
  BY DEF IInv, TypeOK, Outcome, Blamed, Starting, NoneStarted
<1>4. Handing'
  BY DEF IInv, TypeOK, Handing, Outcome, Starting, NoneStarted, Sending
<1>5. Wired'
  BY DEF IInv, TypeOK, Wired, Starting
<1> QED
  BY <1>1, <1>2, <1>3, <1>4, <1>5 DEF IInv

\* Its record is queued.
LEMMA PublishStep ==
  ASSUME IInv, NEW r \in Request, Publish(r)
  PROVE  IInv'
<1> USE Names DEF startVars, groupVars, serveVars, recVars, Publish, ReqTo, Alive
<1>1. TypeOK'
  BY DEF IInv, TypeOK, Fates
<1>2. Blamed'
  BY DEF IInv, TypeOK, Blamed
<1>3. Outcome'
  BY DEF IInv, TypeOK, Outcome, Blamed, Starting, NoneStarted
<1>4. Handing'
  BY DEF IInv, TypeOK, Handing, Outcome, Starting, NoneStarted, Sending
<1>5. Wired'
  BY DEF IInv, TypeOK, Wired, Starting
<1> QED
  BY <1>1, <1>2, <1>3, <1>4, <1>5 DEF IInv

\* A request is refused.
LEMMA RefuseStep ==
  ASSUME IInv, NEW r \in Request, Refuse(r)
  PROVE  IInv'
<1> USE Names DEF startVars, groupVars, serveVars, recVars, Refuse, ReqTo, Alive
<1>1. TypeOK'
  BY DEF IInv, TypeOK, Fates
<1>2. Blamed'
  BY DEF IInv, TypeOK, Blamed
<1>3. Outcome'
  BY DEF IInv, TypeOK, Outcome, Blamed, Starting, NoneStarted
<1>4. Handing'
  BY DEF IInv, TypeOK, Handing, Outcome, Starting, NoneStarted, Sending
<1>5. Wired'
  BY DEF IInv, TypeOK, Wired, Starting
<1> QED
  BY <1>1, <1>2, <1>3, <1>4, <1>5 DEF IInv

\* A request is answered.
LEMMA AnswerOKStep ==
  ASSUME IInv, NEW r \in Request, AnswerOK(r)
  PROVE  IInv'
<1> USE Names DEF startVars, groupVars, serveVars, recVars, AnswerOK, ReqTo, Alive
<1>1. TypeOK'
  BY DEF IInv, TypeOK, Fates
<1>2. Blamed'
  BY DEF IInv, TypeOK, Blamed
<1>3. Outcome'
  BY DEF IInv, TypeOK, Outcome, Blamed, Starting, NoneStarted
<1>4. Handing'
  BY DEF IInv, TypeOK, Handing, Outcome, Starting, NoneStarted, Sending
<1>5. Wired'
  BY DEF IInv, TypeOK, Wired, Starting
<1> QED
  BY <1>1, <1>2, <1>3, <1>4, <1>5 DEF IInv

\* Run receives a record.
LEMMA RunTakeStep ==
  ASSUME IInv, RunTake
  PROVE  IInv'
<1> USE Names DEF startVars, groupVars, serveVars, recVars, RunTake, FateTo, Sending, TaskTo, Returns, Alive
<1>1. TypeOK'
  BY DEF IInv, TypeOK, Fates
<1>2. Blamed'
  BY DEF IInv, TypeOK, Blamed
<1>3. Outcome'
  BY DEF IInv, TypeOK, Outcome, Blamed, Starting, NoneStarted
<1>4. Handing'
  BY DEF IInv, TypeOK, Handing, Outcome, Starting, NoneStarted, Sending
<1>5. Wired'
  BY DEF IInv, TypeOK, Wired, Starting
<1> QED
  BY <1>1, <1>2, <1>3, <1>4, <1>5 DEF IInv

\* A send returns.
LEMMA RunSendStep ==
  ASSUME IInv, NEW r \in Request, RunSend(r)
  PROVE  IInv'
<1> USE Names DEF startVars, groupVars, serveVars, recVars, RunSend, FateTo, Sending, TaskTo, Returns, Alive
<1>1. TypeOK'
  BY DEF IInv, TypeOK, Fates
<1>2. Blamed'
  BY DEF IInv, TypeOK, Blamed
<1>3. Outcome'
  BY DEF IInv, TypeOK, Outcome, Blamed, Starting, NoneStarted
<1>4. Handing'
  BY DEF IInv, TypeOK, Handing, Outcome, Starting, NoneStarted, Sending
<1>5. Wired'
  BY DEF IInv, TypeOK, Wired, Starting
<1> QED
  BY <1>1, <1>2, <1>3, <1>4, <1>5 DEF IInv

\* The client settles a record.
LEMMA RunSettleStep ==
  ASSUME IInv, NEW r \in Request, RunSettle(r)
  PROVE  IInv'
<1> USE Names DEF startVars, groupVars, serveVars, recVars, RunSettle, FateTo, Sending, TaskTo, Returns, Alive
<1>1. TypeOK'
  BY DEF IInv, TypeOK, Fates
<1>2. Blamed'
  BY DEF IInv, TypeOK, Blamed
<1>3. Outcome'
  BY DEF IInv, TypeOK, Outcome, Blamed, Starting, NoneStarted
<1>4. Handing'
  BY DEF IInv, TypeOK, Handing, Outcome, Starting, NoneStarted, Sending
<1>5. Wired'
  BY DEF IInv, TypeOK, Wired, Starting
<1> QED
  BY <1>1, <1>2, <1>3, <1>4, <1>5 DEF IInv

\* Run ends.
LEMMA RunEndStep ==
  ASSUME IInv, RunEnd
  PROVE  IInv'
<1> USE Names DEF startVars, groupVars, serveVars, recVars, RunEnd, FateTo, Sending, TaskTo, Returns, Alive
<1>1. TypeOK'
  BY DEF IInv, TypeOK, Fates
<1>2. Blamed'
  BY DEF IInv, TypeOK, Blamed
<1>3. Outcome'
  BY DEF IInv, TypeOK, Outcome, Blamed, Starting, NoneStarted
<1>4. Handing'
  BY DEF IInv, TypeOK, Handing, Outcome, Starting, NoneStarted, Sending
<1>5. Wired'
  BY DEF IInv, TypeOK, Wired, Starting
<1> QED
  BY <1>1, <1>2, <1>3, <1>4, <1>5 DEF IInv

\* Every step keeps the invariant.
LEMMA NextIInv == IInv /\ [Next]_vars => IInv'
<1> SUFFICES ASSUME IInv, [Next]_vars PROVE IInv'
  OBVIOUS
<1>1. CASE StartStep
  BY <1>1, ValidateStep, ReconcileStep, BuildStoreStep, WarmStoreStep, WireStep, NewGroupStep,
     StartedStep, StartTaskStep DEF StartStep
<1>2. CASE \E t \in Task : OtherReturns(t) \/ TaskStep(t)
  BY <1>2, OtherReturnsStep, JudgeStep, RecordStep, CancelStep DEF TaskStep
<1>3. CASE WaitCtx \/ WaitTasks \/ Close \/ Signal
  BY <1>3, WaitCtxStep, WaitTasksStep, CloseStep, SignalStep
<1>4. CASE ServeFail \/ ServeStep
  BY <1>4, ServeFailStep, ServeStopStep, ShutdownTimeoutStep, ServeEndStep DEF ServeStep
<1>5. CASE RunStep
  BY <1>5, RunTakeStep, RunSendStep, RunEndStep DEF RunStep
<1>6. CASE \E r \in Request : Arrive(r) \/ Publish(r) \/ Refuse(r) \/ AnswerOK(r) \/ RunSettle(r)
  BY <1>6, ArriveStep, PublishStep, RefuseStep, AnswerOKStep, RunSettleStep
<1>7. CASE UNCHANGED vars
  BY <1>7 DEF vars, IInv, TypeOK, Blamed, Outcome, NoneStarted, Handing, Sending, Wired
<1> QED
  BY <1>1, <1>2, <1>3, <1>4, <1>5, <1>6, <1>7 DEF Next, MainStep

\* So it holds of every reachable state.
LEMMA Invariance == Spec => []IInv
BY InitIInv, NextIInv, PTL DEF Spec

-----------------------------------------------------------------------------
(* The theorems *)

\* The process blames a task that failed while the others ran, exits cleanly
\* only when it was told to, and a startup that fails leaves nothing running.
THEOREM CauseReportedHolds == Spec => []CauseReported
<1>1. IInv => CauseReported
  BY Names DEF IInv, TypeOK, Blamed, Outcome, NoneStarted, CauseReported
<1> QED
  BY <1>1, Invariance, PTL

\* The client is closed when nobody can hand it a record any more, and at the
\* exit it holds none.
THEOREM SettledAtExitHolds == Spec => []SettledAtExit
<1>1. IInv => SettledAtExit
  BY Names DEF IInv, TypeOK, Handing, Sending, SettledAtExit
<1> QED
  BY <1>1, Invariance, PTL

\* What is built hangs together, whatever the flags and the broker's answer.
THEOREM WiringSoundHolds == Spec => []WiringSound
<1>1. IInv => WiringSound
  <2> SUFFICES ASSUME IInv, main = "built" PROVE WiringSound
    BY DEF WiringSound
  <2>1. conf \in Config /\ Accepts(conf) /\ KeyLoads(conf)
    BY DEF IInv, Wired, Starting
  <2>2. told.said = "ok" => ~told.all /\ told.sub \subseteq conf.topics
    BY DEF IInv, Wired, Starting
  <2> QED
    BY <2>1, <2>2 DEF WiringSound, Wiring, Config, Flags, Accepts, EngineConfigured, ShadowConfigured,
                      KeyLoads, HasQueue, HasFacade
<1> QED
  BY <1>1, Invariance, PTL

=============================================================================
