------------------------ MODULE CollectionRunProofs ------------------------
(***************************************************************************)
(* Theorems about CollectionRun for every value of its constants.          *)
(*                                                                         *)
(* Well-formedness (types, and who holds which job) is proved for any      *)
(* number of workers.  What a run promises is proved under SingleWorker,   *)
(* the deployment of compose.yaml; TLC refutes it for two workers.         *)
(***************************************************************************)
EXTENDS CollectionRun, FiniteSetTheorems, TLAPS

(* One slot serves the queue. *)
SingleWorker == \A v, w \in Workers : v = w

(* A job row names the run it was deferred for. *)
JobsCarryRuns == \A j \in Jobs : job[j].status # "none" => job[j].run \in Runs

(* A busy worker holds a job in "doing". *)
WorkersHoldJobs ==
    \A w \in Workers : worker[w].pc # "idle" =>
        /\ worker[w].job \in Jobs
        /\ job[worker[w].job].status = "doing"

(* No two workers hold the same job. *)
OneHolder ==
    \A v, w \in Workers :
        worker[v].pc # "idle" /\ worker[w].pc # "idle" /\ worker[v].job = worker[w].job => v = w

Holding == JobsCarryRuns /\ WorkersHoldJobs /\ OneHolder

WellFormed == TypeOK /\ Holding

(* A busy worker's run is a run. *)
LEMMA RunOfWorker ==
    ASSUME WellFormed, NEW w \in Workers, worker[w].pc # "idle"
    PROVE  RunOf(w) \in Runs
BY DEF WellFormed, Holding, JobsCarryRuns, WorkersHoldJobs, RunOf

(* The first state is well formed. *)
LEMMA WellFormedInit == Init => WellFormed
<1>1. ASSUME Init PROVE TypeOK
  BY <1>1, BoundsAssumption DEF Init, TypeOK, Minutes, NoCall, IdleWorker, JobStatus, Step,
     RunStatus, PageStatus, Call, JobRow, Slot
<1>2. ASSUME Init PROVE Holding
  BY <1>2 DEF Init, Holding, JobsCarryRuns, WorkersHoldJobs, OneHolder, IdleWorker
<1>. QED BY <1>1, <1>2 DEF WellFormed

(* Writing one field of a row or of a slot, and the two writes of a call. *)
LEMMA JobStatusWrite ==
    ASSUME NEW x \in JobRow, NEW v \in JobStatus
    PROVE  [x EXCEPT !.status = v] \in JobRow
BY DEF JobRow

LEMMA RequeuedRow ==
    ASSUME NEW row \in JobRow
    PROVE  Requeued(row) \in JobRow
<1>1. CASE row.attempts < MaxRetries
  <2>1. row.attempts + 1 \in 0..MaxRetries
    BY <1>1, BoundsAssumption DEF JobRow
  <2>. QED BY <1>1, <2>1 DEF Requeued, JobRow, JobStatus
<1>2. CASE ~(row.attempts < MaxRetries)
  BY <1>2 DEF Requeued, JobRow, JobStatus
<1>. QED BY <1>1, <1>2

LEMMA SlotWrite ==
    ASSUME NEW x \in Slot, NEW v \in Step
    PROVE  /\ [x EXCEPT !.pc = v] \in Slot
           /\ \A j \in Jobs : [x EXCEPT !.pc = v, !.job = j] \in Slot
           /\ \A p \in Pages \cup {NoPage} : [x EXCEPT !.page = p] \in Slot
           /\ \A ok \in BOOLEAN : [x EXCEPT !.pc = v, !.page = NoPage, !.ok = ok] \in Slot
           /\ \A n \in Nat : [x EXCEPT !.pc = v, !.seen = n] \in Slot
           /\ \A b \in BOOLEAN : [x EXCEPT !.pc = v, !.left = b] \in Slot
BY DEF Slot

LEMMA CallWrite ==
    ASSUME NEW x \in Call
    PROVE  /\ \A r \in Runs : [x EXCEPT !.run = r] \in Call
           /\ \A s, p : Served(x, s, p) \in Call
BY DEF Call, Served

LEMMA Constants ==
    /\ NoCall \in Call
    /\ IdleWorker \in Slot
    /\ IdleWorker.pc = "idle"
BY DEF NoCall, Call, IdleWorker, Slot, Step

(* Every action keeps the types. *)
LEMMA TypeStep == WellFormed /\ [Next]_vars => TypeOK'
<1>. SUFFICES ASSUME WellFormed, [Next]_vars PROVE TypeOK'
  OBVIOUS
<1>t. /\ minute \in 0..MaxMinute /\ clicks \in 0..MaxClicks
      /\ errors \in 0..MaxErrors /\ crashes \in 0..MaxCrashes
      /\ api \in [Clients -> Call] /\ job \in [Jobs -> JobRow] /\ worker \in [Workers -> Slot]
      /\ status \in [Runs -> RunStatus] /\ stats \in [Runs -> Nat \cup {-1}]
      /\ observed \in [Runs -> SUBSET Pages] /\ visited \in [Runs -> SUBSET Pages]
      /\ page \in [Sources -> [Pages -> PageStatus]] /\ spiders \in [Runs -> Nat]
  BY DEF WellFormed, TypeOK, Minutes
<1>s. \A w \in Workers : worker[w] \in Slot
  BY <1>t
<1>. USE <1>t, <1>s, BoundsAssumption
<1>1. CASE Tick
  BY <1>1 DEF Tick, TypeOK, Minutes, faults, history
<1>2. ASSUME NEW c \in Clients, NEW s \in Sources, NEW p \in Products,
             Request(c, {s}, p) \/ Request(c, Sources, p)
      PROVE  TypeOK'
  <2>1. PICK ss \in SUBSET Sources : Request(c, ss, p)
    BY <1>2
  <2>2. [todo |-> ss \X {p}, run |-> NoRun] \in Call
    BY DEF Call
  <2>. QED BY <2>1, <2>2 DEF Request, TypeOK, Minutes, faults, history
<1>3. ASSUME NEW c \in Clients, NEW s \in Sources, NEW p \in Products, CreateRun(c, s, p)
      PROVE  TypeOK'
  <2>1. <<s, p, minute>> \in Runs
    BY DEF Runs, Minutes
  <2>2. api[c] \in Call
    OBVIOUS
  <2>3. api' \in [Clients -> Call]
    BY <1>3, <2>1, <2>2, CallWrite DEF CreateRun
  <2>4. status' \in [Runs -> RunStatus]
    BY <1>3, <2>1 DEF CreateRun, RunStatus
  <2>. QED BY <1>3, <2>3, <2>4 DEF CreateRun, TypeOK, Minutes, faults, history
<1>4. ASSUME NEW c \in Clients, NEW j \in Jobs, Defer(c, j)
      PROVE  TypeOK'
  <2>1. api' \in [Clients -> Call]
    BY <1>4, CallWrite DEF Defer
  <2>2. [status |-> "todo", run |-> api[c].run, attempts |-> 0] \in JobRow
    BY DEF Call, JobRow, JobStatus
  <2>. QED BY <1>4, <2>1, <2>2 DEF Defer, TypeOK, Minutes, faults, history
<1>5. ASSUME NEW c \in Clients, ApiCrash(c)
      PROVE  TypeOK'
  BY <1>5, Constants DEF ApiCrash, TypeOK, Minutes, history
<1>6. ASSUME NEW w \in Workers, NEW j \in Jobs, Fetch(w, j)
      PROVE  TypeOK'
  <2>1. job' \in [Jobs -> JobRow]
    <3>1. [job[j] EXCEPT !.status = "doing"] \in JobRow
      BY JobStatusWrite DEF JobStatus
    <3>2. job' = [job EXCEPT ![j] = [job[j] EXCEPT !.status = "doing"]]
      BY <1>6 DEF Fetch
    <3>. QED BY <3>1, <3>2
  <2>2. worker' \in [Workers -> Slot]
    <3>1. [worker[w] EXCEPT !.pc = "check", !.job = j] \in Slot
      BY SlotWrite DEF Step
    <3>2. worker' = [worker EXCEPT ![w] = [worker[w] EXCEPT !.pc = "check", !.job = j]]
      BY <1>6 DEF Fetch
    <3>. QED BY <3>1, <3>2
  <2>. QED BY <1>6, <2>1, <2>2 DEF Fetch, TypeOK, Minutes, faults, history
<1>7. ASSUME NEW w \in Workers, CheckRun(w)
      PROVE  TypeOK'
  <2>1. worker' \in [Workers -> Slot]
    <3>1. [worker[w] EXCEPT !.pc = IF status[RunOf(w)] = "pending" THEN "mark" ELSE "return"] \in Slot
      BY SlotWrite DEF Step
    <3>2. worker' = [worker EXCEPT ![w] = [worker[w] EXCEPT !.pc = IF status[RunOf(w)] = "pending" THEN "mark" ELSE "return"]]
      BY <1>7 DEF CheckRun
    <3>. QED BY <3>1, <3>2
  <2>. QED BY <1>7, <2>1 DEF CheckRun, TypeOK, Minutes, faults, history
<1>8. ASSUME NEW w \in Workers, MarkRunning(w)
      PROVE  TypeOK'
  <2>1. worker' \in [Workers -> Slot]
    <3>1. [worker[w] EXCEPT !.pc = "launch"] \in Slot
      BY SlotWrite DEF Step
    <3>2. worker' = [worker EXCEPT ![w] = [worker[w] EXCEPT !.pc = "launch"]]
      BY <1>8 DEF MarkRunning
    <3>. QED BY <3>1, <3>2
  <2>2. status' \in [Runs -> RunStatus]
    BY <1>8 DEF MarkRunning, RunStatus
  <2>. QED BY <1>8, <2>1, <2>2 DEF MarkRunning, TypeOK, Minutes, faults, history
<1>9. ASSUME NEW w \in Workers, LaunchSpider(w)
      PROVE  TypeOK'
  <2>1. worker' \in [Workers -> Slot]
    <3>1. [worker[w] EXCEPT !.pc = "spider"] \in Slot
      BY SlotWrite DEF Step
    <3>2. worker' = [worker EXCEPT ![w] = [worker[w] EXCEPT !.pc = "spider"]]
      BY <1>9 DEF LaunchSpider
    <3>. QED BY <3>1, <3>2
  <2>2. spiders' \in [Runs -> Nat]
    <3>1. RunOf(w) \in Runs
      BY <1>9, RunOfWorker DEF LaunchSpider
    <3>2. spiders[RunOf(w)] + 1 \in Nat
      BY <3>1
    <3>3. spiders' = [spiders EXCEPT ![RunOf(w)] = spiders[RunOf(w)] + 1]
      BY <1>9 DEF LaunchSpider
    <3>. QED BY <3>2, <3>3
  <2>. QED BY <1>9, <2>1, <2>2 DEF LaunchSpider, TypeOK, Minutes, faults
<1>10. ASSUME NEW w \in Workers, NEW p \in Pages, Visit(w, p)
      PROVE  TypeOK'
  <2>1. page' \in [Sources -> [Pages -> PageStatus]]
    BY <1>10 DEF Visit, PageStatus
  <2>. QED BY <1>10, <2>1 DEF Visit, TypeOK, Minutes, faults
<1>11. ASSUME NEW w \in Workers, NEW p \in Pages, Observe(w, p)
      PROVE  TypeOK'
  <2>1. worker' \in [Workers -> Slot]
    <3>1. [worker[w] EXCEPT !.page = p] \in Slot
      BY SlotWrite DEF Step
    <3>2. worker' = [worker EXCEPT ![w] = [worker[w] EXCEPT !.page = p]]
      BY <1>11 DEF Observe
    <3>. QED BY <3>1, <3>2
  <2>. QED BY <1>11, <2>1 DEF Observe, TypeOK, Minutes, faults, history
<1>12. ASSUME NEW w \in Workers, MarkCollected(w)
      PROVE  TypeOK'
  <2>1. worker' \in [Workers -> Slot]
    <3>1. [worker[w] EXCEPT !.page = NoPage] \in Slot
      BY SlotWrite DEF Step
    <3>2. worker' = [worker EXCEPT ![w] = [worker[w] EXCEPT !.page = NoPage]]
      BY <1>12 DEF MarkCollected
    <3>. QED BY <3>1, <3>2
  <2>2. page' \in [Sources -> [Pages -> PageStatus]]
    BY <1>12 DEF MarkCollected, PageStatus
  <2>. QED BY <1>12, <2>1, <2>2 DEF MarkCollected, TypeOK, Minutes, faults, history
<1>13. ASSUME NEW w \in Workers, ItemLost(w)
      PROVE  TypeOK'
  <2>1. worker' \in [Workers -> Slot]
    <3>1. [worker[w] EXCEPT !.page = NoPage] \in Slot
      BY SlotWrite DEF Step
    <3>2. worker' = [worker EXCEPT ![w] = [worker[w] EXCEPT !.page = NoPage]]
      BY <1>13 DEF ItemLost
    <3>. QED BY <3>1, <3>2
  <2>. QED BY <1>13, <2>1 DEF ItemLost, TypeOK, Minutes, faults, history
<1>14. ASSUME NEW w \in Workers, NEW ok \in BOOLEAN, SpiderExit(w, ok)
      PROVE  TypeOK'
  <2>1. worker' \in [Workers -> Slot]
    <3>1. [worker[w] EXCEPT !.pc = "exited", !.page = NoPage, !.ok = ok] \in Slot
      BY SlotWrite DEF Step
    <3>2. worker' = [worker EXCEPT ![w] = [worker[w] EXCEPT !.pc = "exited", !.page = NoPage, !.ok = ok]]
      BY <1>14 DEF SpiderExit
    <3>. QED BY <3>1, <3>2
  <2>. QED BY <1>14, <2>1 DEF SpiderExit, TypeOK, Minutes, faults, history
<1>15. ASSUME NEW w \in Workers, GetStats(w)
      PROVE  TypeOK'
  <2>2. Cardinality(observed[RunOf(w)]) \in Nat
    <3>1. RunOf(w) \in Runs
      BY <1>15, RunOfWorker DEF GetStats
    <3>. QED BY <3>1, PagesAssumption, FS_Subset, FS_CardinalityType
  <2>1. worker' \in [Workers -> Slot]
    <3>1. [worker[w] EXCEPT !.pc = "counted", !.seen = Cardinality(observed[RunOf(w)])] \in Slot
      BY SlotWrite, <2>2 DEF Step
    <3>2. worker' = [worker EXCEPT ![w] = [worker[w] EXCEPT !.pc = "counted", !.seen = Cardinality(observed[RunOf(w)])]]
      BY <1>15 DEF GetStats
    <3>. QED BY <3>1, <3>2
  <2>. QED BY <1>15, <2>1 DEF GetStats, TypeOK, Minutes, faults, history
<1>16. ASSUME NEW w \in Workers, Fail(w) \/ Finish(w)
      PROVE  TypeOK'
  <2>2. PICK outcome \in Terminal : FinishRun(w, outcome)
    BY <1>16 DEF Fail, Finish, Terminal
  <2>1. worker' \in [Workers -> Slot]
    <3>1. [worker[w] EXCEPT !.pc = "return"] \in Slot
      BY SlotWrite DEF Step
    <3>2. worker' = [worker EXCEPT ![w] = [worker[w] EXCEPT !.pc = "return"]]
      BY <2>2 DEF FinishRun
    <3>. QED BY <3>1, <3>2
  <2>3. worker[w].seen \in Nat
    BY DEF Slot
  <2>. QED BY <2>1, <2>2, <2>3 DEF FinishRun, TypeOK, Minutes, RunStatus, faults, history
<1>17. ASSUME NEW w \in Workers, CountPending(w)
      PROVE  TypeOK'
  <2>1. worker' \in [Workers -> Slot]
    <3>1. [worker[w] EXCEPT !.pc = "judged", !.left = (PendingPages(Source(RunOf(w))) # {})] \in Slot
      BY SlotWrite DEF Step
    <3>2. worker' = [worker EXCEPT ![w] = [worker[w] EXCEPT !.pc = "judged", !.left = (PendingPages(Source(RunOf(w))) # {})]]
      BY <1>17 DEF CountPending
    <3>. QED BY <3>1, <3>2
  <2>. QED BY <1>17, <2>1 DEF CountPending, TypeOK, Minutes, faults, history
<1>18. ASSUME NEW w \in Workers, Return(w)
      PROVE  TypeOK'
  <2>1. worker' \in [Workers -> Slot]
    BY <1>18, Constants DEF Return
  <2>2. job' \in [Jobs -> JobRow]
    <3>1. [job[worker[w].job] EXCEPT !.status = "succeeded"] \in JobRow
      BY <1>18, JobStatusWrite DEF Return, WellFormed, Holding, WorkersHoldJobs, JobStatus
    <3>2. job' = [job EXCEPT ![worker[w].job] = [job[worker[w].job] EXCEPT !.status = "succeeded"]]
      BY <1>18 DEF Return
    <3>. QED BY <3>1, <3>2
  <2>. QED BY <1>18, <2>1, <2>2 DEF Return, TypeOK, Minutes, faults, history
<1>19. ASSUME NEW w \in Workers, TaskError(w)
      PROVE  TypeOK'
  <2>1. worker' \in [Workers -> Slot]
    BY <1>19, Constants DEF TaskError
  <2>2. job' \in [Jobs -> JobRow]
    <3>1. Requeued(job[worker[w].job]) \in JobRow
      BY <1>19, RequeuedRow DEF TaskError, WellFormed, Holding, WorkersHoldJobs
    <3>. QED BY <1>19, <3>1 DEF TaskError
  <2>. QED BY <1>19, <2>1, <2>2 DEF TaskError, TypeOK, Minutes, history
<1>20. ASSUME NEW w \in Workers, WorkerCrash(w)
      PROVE  TypeOK'
  <2>1. worker' \in [Workers -> Slot]
    BY <1>20, Constants DEF WorkerCrash
  <2>. QED BY <1>20, <2>1 DEF WorkerCrash, TypeOK, Minutes, history
<1>21. CASE UNCHANGED vars
  BY <1>21 DEF vars, TypeOK, Minutes, faults, history
<1>. QED
  BY <1>1, <1>2, <1>3, <1>4, <1>5, <1>6, <1>7, <1>8, <1>9, <1>10, <1>11, <1>12, <1>13, <1>14,
     <1>15, <1>16, <1>17, <1>18, <1>19, <1>20, <1>21
     DEF Next, ApiNext, TaskStep, SpiderStep

(* A step that neither touches the queue nor takes or drops a job. *)
Undisturbed ==
    /\ job' = job
    /\ \A w \in Workers : /\ worker'[w].job = worker[w].job
                          /\ worker'[w].pc = "idle" <=> worker[w].pc = "idle"

LEMMA UndisturbedHolding == Holding /\ Undisturbed => Holding'
BY DEF Undisturbed, Holding, JobsCarryRuns, WorkersHoldJobs, OneHolder

(* Most steps are of that kind. *)
LEMMA UndisturbedSteps ==
    ASSUME WellFormed,
           \/ Tick
           \/ \E c \in Clients, s \in Sources, p \in Products :
                  Request(c, {s}, p) \/ Request(c, Sources, p) \/ CreateRun(c, s, p)
           \/ \E c \in Clients : ApiCrash(c)
           \/ \E w \in Workers :
                  \/ CheckRun(w) \/ MarkRunning(w) \/ LaunchSpider(w) \/ GetStats(w)
                  \/ Fail(w) \/ CountPending(w) \/ Finish(w) \/ SpiderStep(w)
                  \/ \E ok \in BOOLEAN : SpiderExit(w, ok)
           \/ UNCHANGED vars
    PROVE  Undisturbed
<1>. worker \in [Workers -> Slot]
  BY DEF WellFormed, TypeOK
<1>1. CASE Tick
  BY <1>1 DEF Tick, Undisturbed
<1>2. CASE \E c \in Clients, s \in Sources, p \in Products :
              Request(c, {s}, p) \/ Request(c, Sources, p) \/ CreateRun(c, s, p)
  BY <1>2 DEF Request, CreateRun, Undisturbed
<1>3. CASE \E c \in Clients : ApiCrash(c)
  BY <1>3 DEF ApiCrash, Undisturbed
<1>4. ASSUME NEW w \in Workers,
             CheckRun(w) \/ MarkRunning(w) \/ LaunchSpider(w) \/ GetStats(w) \/ CountPending(w)
      PROVE  Undisturbed
  BY <1>4 DEF Slot, CheckRun, MarkRunning, LaunchSpider, GetStats, CountPending, Undisturbed
<1>5. ASSUME NEW w \in Workers, Fail(w) \/ Finish(w)
      PROVE  Undisturbed
  BY <1>5 DEF Slot, Fail, Finish, FinishRun, Undisturbed
<1>6. ASSUME NEW w \in Workers, SpiderStep(w)
      PROVE  Undisturbed
  BY <1>6 DEF Slot, SpiderStep, Visit, Observe, MarkCollected, ItemLost, Undisturbed
<1>7. ASSUME NEW w \in Workers, NEW ok \in BOOLEAN, SpiderExit(w, ok)
      PROVE  Undisturbed
  BY <1>7 DEF Slot, SpiderExit, Undisturbed
<1>8. CASE UNCHANGED vars
  BY <1>8 DEF vars, Undisturbed
<1>. QED BY <1>1, <1>2, <1>3, <1>4, <1>5, <1>6, <1>7, <1>8

(* Every action keeps the hold on jobs. *)
LEMMA HoldingStep == WellFormed /\ [Next]_vars => Holding'
<1>. SUFFICES ASSUME WellFormed, [Next]_vars PROVE Holding'
  OBVIOUS
<1>t. api \in [Clients -> Call] /\ job \in [Jobs -> JobRow] /\ worker \in [Workers -> Slot]
  BY DEF WellFormed, TypeOK
<1>h. Holding
  BY DEF WellFormed
<1>1. ASSUME NEW c \in Clients, NEW j \in Jobs, Defer(c, j)
      PROVE  Holding'
  <2>1. api[c].run \in Runs
    BY <1>t, <1>1 DEF Defer, Call
  <2>2. worker' = worker /\ job' = [job EXCEPT ![j] = [status |-> "todo", run |-> api[c].run, attempts |-> 0]]
    BY <1>1 DEF Defer
  <2>3. job[j].status = "none"
    BY <1>1 DEF Defer
  <2>. QED BY <1>t, <1>h, <2>1, <2>2, <2>3 DEF Holding, JobsCarryRuns, WorkersHoldJobs, OneHolder
<1>2. ASSUME NEW w \in Workers, NEW j \in Jobs, Fetch(w, j)
      PROVE  Holding'
  <2>1. /\ worker[w].pc = "idle" /\ worker'[w].job = j
        /\ \A v \in Workers \ {w} : worker'[v] = worker[v]
    BY <1>t, <1>2 DEF Fetch, Slot
  <2>2. /\ job[j].status = "todo" /\ job'[j].status = "doing" /\ job'[j].run = job[j].run
        /\ \A i \in Jobs \ {j} : job'[i] = job[i]
    BY <1>t, <1>2 DEF Fetch, JobRow
  <2>. QED BY <1>h, <2>1, <2>2 DEF Holding, JobsCarryRuns, WorkersHoldJobs, OneHolder
<1>3. ASSUME NEW w \in Workers, Return(w) \/ TaskError(w) \/ WorkerCrash(w)
      PROVE  Holding'
  <2>1. /\ worker[w].pc # "idle" /\ worker'[w].pc = "idle"
        /\ \A v \in Workers \ {w} : worker'[v] = worker[v]
    BY <1>t, <1>3, Constants DEF Return, TaskError, WorkerCrash
  <2>2. worker[w].job \in Jobs /\ job[worker[w].job].status = "doing"
    BY <1>h, <2>1 DEF Holding, WorkersHoldJobs
  <2>3. /\ job'[worker[w].job].run = job[worker[w].job].run
        /\ \A i \in Jobs \ {worker[w].job} : job'[i] = job[i]
    <3>1. CASE Return(w)
      BY <1>t, <3>1, <2>2 DEF Return, JobRow
    <3>2. CASE TaskError(w)
      <4>1. job' = [job EXCEPT ![worker[w].job] = Requeued(job[worker[w].job])]
        BY <3>2 DEF TaskError
      <4>2. Requeued(job[worker[w].job]).run = job[worker[w].job].run
        BY <1>t, <2>2 DEF Requeued, JobRow
      <4>. QED BY <1>t, <2>2, <4>1, <4>2
    <3>3. CASE WorkerCrash(w)
      BY <3>3 DEF WorkerCrash
    <3>. QED BY <1>3, <3>1, <3>2, <3>3
  <2>. QED BY <1>h, <2>1, <2>2, <2>3 DEF Holding, JobsCarryRuns, WorkersHoldJobs, OneHolder
<1>. QED
  BY <1>1, <1>2, <1>3, <1>h, UndisturbedSteps, UndisturbedHolding
     DEF Next, ApiNext, TaskStep

(* Well-formedness is an invariant. *)
THEOREM TypeCorrect == Spec => []TypeOK
<1>1. Spec => []WellFormed
  <2>1. WellFormed /\ [Next]_vars => WellFormed'
    BY TypeStep, HoldingStep DEF WellFormed
  <2>. QED BY WellFormedInit, <2>1, PTL DEF Spec
<1>2. WellFormed => TypeOK
  BY DEF WellFormed
<1>. QED BY <1>1, <1>2, PTL

-----------------------------------------------------------------------------
(* What the one worker knows of its run. *)

(* The run the worker holds is where the worker's step says it is, its     *)
(* first spider has not started before "launch", and the count it read is  *)
(* still the number of observations when it is written.                    *)
WorkerKnowsRun ==
    \A w \in Workers :
        /\ worker[w].pc = "mark" => status[RunOf(w)] = "pending"
        /\ worker[w].pc \in During => status[RunOf(w)] = "running"
        /\ worker[w].pc = "launch" => spiders[RunOf(w)] = 0
        /\ worker[w].pc \in {"counted", "judged"} =>
               worker[w].seen = Cardinality(observed[RunOf(w)])
        /\ worker[w].pc = "judged" =>
               /\ worker[w].seen > 0
               /\ worker[w].left <=> PendingPages(Source(RunOf(w))) # {}

(* A run that was never taken up had no spider. *)
SpidersOfRuns ==
    \A r \in Runs : /\ spiders[r] <= 1
                    /\ status[r] \in {"none", "pending"} => spiders[r] = 0

RunInv == WorkerKnowsRun /\ SpidersOfRuns

LEMMA RunInvInit == Init => RunInv
<1>. SUFFICES ASSUME Init PROVE RunInv
  OBVIOUS
<1>. QED BY DEF Init, IdleWorker, RunInv, WorkerKnowsRun, SpidersOfRuns, During

(* A busy worker's run does not change under a step that leaves its job.   *)
LEMMA RunStays ==
    ASSUME WellFormed, Undisturbed, NEW w \in Workers
    PROVE  RunOf(w)' = RunOf(w)
BY DEF Undisturbed, RunOf

LEMMA RunInvStep == SingleWorker /\ WellFormed /\ RunInv /\ [Next]_vars => RunInv'
<1>. SUFFICES ASSUME SingleWorker, WellFormed, RunInv, [Next]_vars PROVE RunInv'
  OBVIOUS
<1>t. /\ api \in [Clients -> Call] /\ job \in [Jobs -> JobRow] /\ worker \in [Workers -> Slot]
      /\ status \in [Runs -> RunStatus] /\ observed \in [Runs -> SUBSET Pages]
      /\ spiders \in [Runs -> Nat] /\ minute \in Minutes
  BY DEF WellFormed, TypeOK
<1>k. WorkerKnowsRun /\ SpidersOfRuns
  BY DEF RunInv
<1>r. \A w \in Workers : worker[w].pc # "idle" => RunOf(w) \in Runs
  BY RunOfWorker
<1>o. \A v, w \in Workers : v = w
  BY DEF SingleWorker
<1>1. ASSUME UNCHANGED <<worker, job, status, spiders, observed, page>>
      PROVE  RunInv'
  <2>1. \A w \in Workers : RunOf(w)' = RunOf(w)
    BY <1>1 DEF RunOf
  <2>2. \A s : PendingPages(s)' = PendingPages(s)
    BY <1>1 DEF PendingPages
  <2>. QED BY <1>1, <1>k, <2>1, <2>2 DEF RunInv, WorkerKnowsRun, SpidersOfRuns
<1>2. ASSUME NEW c \in Clients, NEW s \in Sources, NEW p \in Products, CreateRun(c, s, p)
      PROVE  RunInv'
  <2>1. /\ UNCHANGED <<worker, job, spiders, observed, page>>
        /\ \A r \in Runs : \/ status'[r] = status[r]
                           \/ status[r] = "none" /\ status'[r] = "pending"
    BY <1>2, <1>t DEF CreateRun, history, RunStatus
  <2>2. \A w \in Workers : RunOf(w)' = RunOf(w)
    BY <2>1 DEF RunOf
  <2>3. \A q : PendingPages(q)' = PendingPages(q)
    BY <2>1 DEF PendingPages
  <2>4. WorkerKnowsRun'
    BY <1>k, <1>r, <2>1, <2>2, <2>3 DEF WorkerKnowsRun, During
  <2>5. SpidersOfRuns'
    BY <1>k, <2>1 DEF SpidersOfRuns
  <2>. QED BY <2>4, <2>5 DEF RunInv
<1>3. ASSUME NEW c \in Clients, NEW j \in Jobs, Defer(c, j)
      PROVE  RunInv'
  <2>1. UNCHANGED <<worker, status, spiders, observed, page>>
    BY <1>3 DEF Defer, history
  <2>2. \A w \in Workers : worker[w].pc # "idle" => RunOf(w)' = RunOf(w)
    BY <1>3, <1>t, <2>1 DEF Defer, RunOf, WellFormed, Holding, WorkersHoldJobs
  <2>3. \A q : PendingPages(q)' = PendingPages(q)
    BY <2>1 DEF PendingPages
  <2>4. WorkerKnowsRun'
    BY <1>k, <2>1, <2>2, <2>3 DEF WorkerKnowsRun, During
  <2>. QED BY <1>k, <2>1, <2>4 DEF RunInv, SpidersOfRuns
<1>4. ASSUME NEW w \in Workers, worker'[w].pc \in {"idle", "check", "return"},
             UNCHANGED <<status, spiders>>
      PROVE  RunInv'
  <2>1. WorkerKnowsRun'
    BY <1>4, <1>o DEF WorkerKnowsRun, During
  <2>. QED BY <1>4, <1>k, <2>1 DEF RunInv, SpidersOfRuns
<1>5. ASSUME NEW w \in Workers, CheckRun(w)
      PROVE  RunInv'
  <2>r. RunOf(w)' = RunOf(w) /\ RunOf(w) \in Runs
    <3>1. worker[w].pc # "idle"
      BY <1>5 DEF CheckRun
    <3>. QED BY <3>1, <1>5, <1>r, RunStays, UndisturbedSteps DEF SpiderStep
  <2>1. UNCHANGED <<status, spiders, observed, page>>
    BY <1>5 DEF CheckRun, history
  <2>2. worker'[w].pc = IF status[RunOf(w)] = "pending" THEN "mark" ELSE "return"
    BY <1>5, <1>t DEF CheckRun, Slot
  <2>3. WorkerKnowsRun'
    BY <1>o, <2>r, <2>1, <2>2 DEF WorkerKnowsRun, During
  <2>. QED BY <1>k, <2>1, <2>3 DEF RunInv, SpidersOfRuns
<1>6. ASSUME NEW w \in Workers, MarkRunning(w)
      PROVE  RunInv'
  <2>r. RunOf(w)' = RunOf(w) /\ RunOf(w) \in Runs
    <3>1. worker[w].pc # "idle"
      BY <1>6 DEF MarkRunning
    <3>. QED BY <3>1, <1>6, <1>r, RunStays, UndisturbedSteps DEF SpiderStep
  <2>1. /\ UNCHANGED <<spiders, observed, page>>
        /\ worker[w].pc = "mark" /\ worker'[w].pc = "launch"
    BY <1>6, <1>t DEF MarkRunning, Slot, history
  <2>2. status[RunOf(w)] = "pending" /\ spiders[RunOf(w)] = 0
    BY <1>k, <2>r, <2>1 DEF WorkerKnowsRun, SpidersOfRuns
  <2>3. /\ status'[RunOf(w)] = "running"
        /\ \A r \in Runs \ {RunOf(w)} : status'[r] = status[r]
    BY <1>6, <1>t, <2>r, <2>2 DEF MarkRunning
  <2>4. WorkerKnowsRun'
    BY <1>o, <2>r, <2>1, <2>2, <2>3 DEF WorkerKnowsRun, During
  <2>5. SpidersOfRuns'
    BY <1>k, <2>1, <2>3 DEF SpidersOfRuns
  <2>. QED BY <2>4, <2>5 DEF RunInv
<1>7. ASSUME NEW w \in Workers, LaunchSpider(w)
      PROVE  RunInv'
  <2>r. RunOf(w)' = RunOf(w) /\ RunOf(w) \in Runs
    <3>1. worker[w].pc # "idle"
      BY <1>7 DEF LaunchSpider
    <3>. QED BY <3>1, <1>7, <1>r, RunStays, UndisturbedSteps DEF SpiderStep
  <2>1. /\ UNCHANGED <<status, observed, page>>
        /\ worker[w].pc = "launch" /\ worker'[w].pc = "spider"
    BY <1>7, <1>t DEF LaunchSpider, Slot
  <2>2. status[RunOf(w)] = "running" /\ spiders[RunOf(w)] = 0
    BY <1>k, <2>1 DEF WorkerKnowsRun, During
  <2>3. /\ spiders'[RunOf(w)] = 1
        /\ \A r \in Runs \ {RunOf(w)} : spiders'[r] = spiders[r]
    BY <1>7, <1>t, <2>r, <2>2 DEF LaunchSpider
  <2>4. WorkerKnowsRun'
    BY <1>o, <2>r, <2>1, <2>2 DEF WorkerKnowsRun, During
  <2>5. SpidersOfRuns'
    BY <1>k, <2>1, <2>2, <2>3 DEF SpidersOfRuns
  <2>. QED BY <2>4, <2>5 DEF RunInv
<1>8. ASSUME NEW w \in Workers, SpiderStep(w)
      PROVE  RunInv'
  <2>r. RunOf(w)' = RunOf(w) /\ RunOf(w) \in Runs
    <3>1. worker[w].pc # "idle"
      BY <1>8 DEF SpiderStep, Visit, Observe, MarkCollected, ItemLost
    <3>. QED BY <3>1, <1>8, <1>r, RunStays, UndisturbedSteps DEF SpiderStep
  <2>1. /\ UNCHANGED <<status, spiders>>
        /\ worker[w].pc = "spider" /\ worker'[w].pc = "spider"
    BY <1>8, <1>t DEF SpiderStep, Visit, Observe, MarkCollected, ItemLost, Slot, history
  <2>2. status[RunOf(w)] = "running"
    BY <1>k, <2>1 DEF WorkerKnowsRun, During
  <2>3. WorkerKnowsRun'
    BY <1>o, <2>r, <2>1, <2>2 DEF WorkerKnowsRun, During
  <2>. QED BY <1>k, <2>1, <2>3 DEF RunInv, SpidersOfRuns
<1>9. ASSUME NEW w \in Workers, NEW ok \in BOOLEAN, SpiderExit(w, ok)
      PROVE  RunInv'
  <2>r. RunOf(w)' = RunOf(w)
    BY <1>9, RunStays, UndisturbedSteps
  <2>1. /\ UNCHANGED <<status, spiders>>
        /\ worker[w].pc = "spider" /\ worker'[w].pc = "exited"
    BY <1>9, <1>t DEF SpiderExit, Slot, history
  <2>2. status[RunOf(w)] = "running"
    BY <1>k, <2>1 DEF WorkerKnowsRun, During
  <2>3. WorkerKnowsRun'
    BY <1>o, <2>r, <2>1, <2>2 DEF WorkerKnowsRun, During
  <2>. QED BY <1>k, <2>1, <2>3 DEF RunInv, SpidersOfRuns
<1>10. ASSUME NEW w \in Workers, GetStats(w)
      PROVE  RunInv'
  <2>r. RunOf(w)' = RunOf(w) /\ RunOf(w) \in Runs
    <3>1. worker[w].pc # "idle"
      BY <1>10 DEF GetStats
    <3>. QED BY <3>1, <1>10, <1>r, RunStays, UndisturbedSteps DEF SpiderStep
  <2>1. /\ UNCHANGED <<status, spiders, observed, page>>
        /\ worker[w].pc = "exited" /\ worker'[w].pc = "counted"
        /\ worker'[w].seen = Cardinality(observed[RunOf(w)])
    BY <1>10, <1>t DEF GetStats, Slot, history
  <2>2. status[RunOf(w)] = "running"
    BY <1>k, <2>1 DEF WorkerKnowsRun, During
  <2>3. WorkerKnowsRun'
    BY <1>o, <2>r, <2>1, <2>2 DEF WorkerKnowsRun, During
  <2>. QED BY <1>k, <2>1, <2>3 DEF RunInv, SpidersOfRuns
<1>11. ASSUME NEW w \in Workers, CountPending(w)
      PROVE  RunInv'
  <2>r. RunOf(w)' = RunOf(w) /\ RunOf(w) \in Runs
    <3>1. worker[w].pc # "idle"
      BY <1>11 DEF CountPending
    <3>. QED BY <3>1, <1>11, <1>r, RunStays, UndisturbedSteps DEF SpiderStep
  <2>1. /\ UNCHANGED <<status, spiders, observed, page>>
        /\ worker[w].pc = "counted" /\ worker'[w].pc = "judged"
        /\ worker'[w].seen = worker[w].seen /\ worker[w].seen > 0
        /\ worker'[w].left = (PendingPages(Source(RunOf(w))) # {})
    BY <1>11, <1>t DEF CountPending, Slot, history
  <2>2. status[RunOf(w)] = "running" /\ worker[w].seen = Cardinality(observed[RunOf(w)])
    BY <1>k, <2>1 DEF WorkerKnowsRun, During
  <2>3. PendingPages(Source(RunOf(w)))' = PendingPages(Source(RunOf(w)))
    BY <2>r, <2>1 DEF PendingPages, Source
  <2>4. WorkerKnowsRun'
    BY <1>o, <2>r, <2>1, <2>2, <2>3 DEF WorkerKnowsRun, During
  <2>. QED BY <1>k, <2>1, <2>4 DEF RunInv, SpidersOfRuns
<1>12. ASSUME NEW w \in Workers, Fail(w) \/ Finish(w)
      PROVE  RunInv'
  <2>r. RunOf(w)' = RunOf(w) /\ RunOf(w) \in Runs
    <3>1. worker[w].pc # "idle"
      BY <1>12 DEF Fail, Finish
    <3>. QED BY <3>1, <1>12, <1>r, RunStays, UndisturbedSteps DEF SpiderStep
  <2>1. /\ worker[w].pc \in During /\ UNCHANGED spiders
        /\ \E outcome \in Terminal : FinishRun(w, outcome)
    BY <1>12 DEF Fail, Finish, FinishRun, During, Terminal, history
  <2>2. worker'[w].pc = "return"
    BY <1>t, <2>1 DEF FinishRun, Slot
  <2>3. /\ status'[RunOf(w)] \in Terminal
        /\ \A r \in Runs \ {RunOf(w)} : status'[r] = status[r]
    BY <1>t, <2>r, <2>1 DEF FinishRun
  <2>4. WorkerKnowsRun'
    BY <1>o, <2>2 DEF WorkerKnowsRun, During
  <2>5. SpidersOfRuns'
    BY <1>k, <2>1, <2>3 DEF SpidersOfRuns, Terminal
  <2>. QED BY <2>4, <2>5 DEF RunInv
<1>13. ASSUME NEW w \in Workers,
              (\E j \in Jobs : Fetch(w, j)) \/ Return(w) \/ TaskError(w) \/ WorkerCrash(w)
       PROVE  RunInv'
  <2>1. worker'[w].pc \in {"idle", "check", "return"} /\ UNCHANGED <<status, spiders>>
    BY <1>13, <1>t, Constants DEF Fetch, Return, TaskError, WorkerCrash, Slot, history
  <2>. QED BY <1>4, <2>1
<1>14. ASSUME Tick \/ UNCHANGED vars \/ \E c \in Clients : ApiCrash(c)
       PROVE  RunInv'
  BY <1>1, <1>14 DEF Tick, ApiCrash, vars, history
<1>15. ASSUME NEW c \in Clients, NEW s \in Sources, NEW p \in Products,
              Request(c, {s}, p) \/ Request(c, Sources, p)
       PROVE  RunInv'
  BY <1>1, <1>15 DEF Request, history
<1>. QED
  BY <1>2, <1>3, <1>5, <1>6, <1>7, <1>8, <1>9, <1>10, <1>11, <1>12, <1>13, <1>14, <1>15
     DEF Next, ApiNext, TaskStep

(* The inductive invariant of the single-worker deployment. *)
LEMMA RunInvariant == SingleWorker => (Spec => [](WellFormed /\ RunInv))
<1>1. WellFormed /\ [Next]_vars => WellFormed'
  BY TypeStep, HoldingStep DEF WellFormed
<1>2. Init => WellFormed /\ RunInv
  BY WellFormedInit, RunInvInit
<1>. SUFFICES ASSUME SingleWorker PROVE Spec => [](WellFormed /\ RunInv)
  OBVIOUS
<1>3. WellFormed /\ RunInv /\ [Next]_vars => (WellFormed /\ RunInv)'
  BY <1>1, RunInvStep
<1>. QED BY <1>2, <1>3, PTL DEF Spec

(* With one worker no replay, retry or restart starts a second spider.     *)
THEOREM OneSpiderPerRun == SingleWorker => (Spec => []AtMostOneSpider)
<1>1. RunInv => AtMostOneSpider
  BY DEF RunInv, SpidersOfRuns, AtMostOneSpider
<1>. QED BY <1>1, RunInvariant, PTL

-----------------------------------------------------------------------------
(* The refinement of RunStateMachine and the verdict. *)

(* Finishing, as seen in the columns of the run. *)
LEMMA FinishEffect ==
    ASSUME WellFormed, RunInv, NEW w \in Workers, Fail(w) \/ Finish(w)
    PROVE  /\ RunOf(w) \in Runs /\ status[RunOf(w)] = "running"
           /\ \E outcome \in Terminal :
                 /\ status' = [status EXCEPT ![RunOf(w)] = outcome]
                 /\ stats' = [stats EXCEPT ![RunOf(w)] = Cardinality(observed[RunOf(w)])]
                 /\ observed' = observed /\ page' = page
                 /\ outcome # "failed" => observed[RunOf(w)] # {}
                 /\ outcome = "succeeded" => PendingPages(Source(RunOf(w))) = {}
                 /\ outcome = "partial" => PendingPages(Source(RunOf(w))) # {}
<1>1. worker[w].pc \in {"counted", "judged"}
  BY DEF Fail, Finish
<1>2. RunOf(w) \in Runs
  BY <1>1, RunOfWorker
<1>3. status[RunOf(w)] = "running" /\ worker[w].seen = Cardinality(observed[RunOf(w)])
  BY <1>1 DEF RunInv, WorkerKnowsRun, During
<1>4. CASE Fail(w)
  BY <1>2, <1>3, <1>4 DEF Fail, FinishRun, Terminal
<1>5. CASE Finish(w)
  <2>1. worker[w].seen > 0 /\ (worker[w].left <=> PendingPages(Source(RunOf(w))) # {})
    BY <1>5 DEF Finish, RunInv, WorkerKnowsRun
  <2>2. observed[RunOf(w)] # {}
    BY <1>3, <2>1, FS_EmptySet
  <2>3. CASE worker[w].left
    BY <1>2, <1>3, <1>5, <2>1, <2>2, <2>3 DEF Finish, FinishRun, Terminal
  <2>4. CASE ~worker[w].left
    BY <1>2, <1>3, <1>5, <2>1, <2>2, <2>4 DEF Finish, FinishRun, Terminal
  <2>. QED BY <2>3, <2>4
<1>. QED BY <1>4, <1>5

(* Each step of the detailed system is a step of the promise or none.      *)
LEMMA RefinementStep ==
    WellFormed /\ RunInv /\ [Next]_vars => [Promise!Next]_(Promise!vars)
<1>. SUFFICES ASSUME WellFormed, RunInv, [Next]_vars
              PROVE  [Promise!Next]_(Promise!vars)
  OBVIOUS
<1>t. status \in [Runs -> RunStatus] /\ worker \in [Workers -> Slot] /\ minute \in Minutes
  BY DEF WellFormed, TypeOK
<1>1. ASSUME UNCHANGED <<status, observed, stats>>
      PROVE  UNCHANGED Promise!vars
  BY <1>1 DEF Promise!vars
<1>2. ASSUME NEW c \in Clients, NEW s \in Sources, NEW p \in Products, CreateRun(c, s, p)
      PROVE  [Promise!Next]_(Promise!vars)
  <2>1. PICK r \in Runs : /\ status' = [status EXCEPT ![r] =
                                          IF status[r] \in {"none", "pending"} THEN "pending" ELSE @]
                         /\ UNCHANGED <<observed, stats>>
    BY <1>2, <1>t DEF CreateRun, Runs
  <2>2. CASE status[r] = "none"
    BY <2>1, <2>2 DEF Promise!Next, Promise!Create
  <2>3. CASE status[r] # "none"
    BY <1>t, <1>1, <2>1, <2>3
  <2>. QED BY <2>2, <2>3
<1>3. ASSUME NEW w \in Workers, MarkRunning(w)
      PROVE  [Promise!Next]_(Promise!vars)
  <2>1. RunOf(w) \in Runs /\ status[RunOf(w)] = "pending"
    BY <1>3, RunOfWorker DEF MarkRunning, RunInv, WorkerKnowsRun
  <2>2. Promise!Start(RunOf(w))
    BY <1>3, <2>1 DEF MarkRunning, Promise!Start
  <2>. QED BY <2>1, <2>2 DEF Promise!Next
<1>4. ASSUME NEW w \in Workers, NEW p \in Pages, Observe(w, p)
      PROVE  [Promise!Next]_(Promise!vars)
  <2>1. RunOf(w) \in Runs /\ status[RunOf(w)] = "running"
    BY <1>4, RunOfWorker DEF Observe, RunInv, WorkerKnowsRun, During
  <2>2. Promise!Observe(RunOf(w), p)
    BY <1>4, <2>1 DEF Observe, Promise!Observe
  <2>. QED BY <2>1, <2>2 DEF Promise!Next
<1>5. ASSUME NEW w \in Workers, Fail(w) \/ Finish(w)
      PROVE  [Promise!Next]_(Promise!vars)
  <2>1. RunOf(w) \in Runs /\ status[RunOf(w)] = "running"
    BY <1>5, FinishEffect
  <2>2. PICK outcome \in Terminal :
             /\ status' = [status EXCEPT ![RunOf(w)] = outcome]
             /\ stats' = [stats EXCEPT ![RunOf(w)] = Cardinality(observed[RunOf(w)])]
             /\ observed' = observed
             /\ outcome # "failed" => observed[RunOf(w)] # {}
    BY <1>5, FinishEffect
  <2>3. Promise!Finish(RunOf(w), outcome)
    BY <2>1, <2>2 DEF Promise!Finish, Promise!Cardinality, Cardinality
  <2>. QED BY <2>1, <2>3 DEF Promise!Next, Promise!Terminal, Terminal
<1>6. ASSUME \/ Tick
             \/ \E c \in Clients :
                   \/ ApiCrash(c) \/ \E j \in Jobs : Defer(c, j)
                   \/ \E s \in Sources, p \in Products : Request(c, {s}, p) \/ Request(c, Sources, p)
             \/ UNCHANGED vars
      PROVE  UNCHANGED <<status, observed, stats>>
  BY <1>6 DEF Tick, ApiCrash, Defer, Request, vars
<1>7. ASSUME NEW w \in Workers,
             \/ \E j \in Jobs : Fetch(w, j)
             \/ CheckRun(w) \/ LaunchSpider(w) \/ GetStats(w) \/ CountPending(w) \/ Return(w)
             \/ MarkCollected(w) \/ ItemLost(w)
             \/ \E p \in Pages : Visit(w, p)
             \/ \E ok \in BOOLEAN : SpiderExit(w, ok)
             \/ TaskError(w) \/ WorkerCrash(w)
      PROVE  UNCHANGED <<status, observed, stats>>
  BY <1>7 DEF Fetch, CheckRun, LaunchSpider, GetStats, CountPending, Return, MarkCollected,
     ItemLost, Visit, SpiderExit, TaskError, WorkerCrash
<1>. QED
  BY <1>1, <1>2, <1>3, <1>4, <1>5, <1>6, <1>7 DEF Next, ApiNext, TaskStep, SpiderStep

(* The system with one worker implements the state machine of a run.       *)
THEOREM RefinesRunStateMachine == SingleWorker => (Spec => RunPromise)
<1>1. Init => Promise!Init
  BY DEF Init, Promise!Init
<1>2. WellFormed /\ RunInv /\ [Next]_vars => [Promise!Next]_(Promise!vars)
  BY RefinementStep
<1>. QED BY <1>1, <1>2, RunInvariant, PTL DEF Spec, Promise!Spec, RunPromise

(* With one worker the verdict fits the pages when it is written: nobody   *)
(* touches them between count_pending_product_pages and finish_run.        *)
THEOREM VerdictReflectsPages == SingleWorker => (Spec => OutcomeReflectsPages)
<1>. DEFINE Verdict ==
       \A r \in Runs : status'[r] # status[r] =>
           /\ status'[r] = "succeeded" => PendingPages(Source(r)) = {}
           /\ status'[r] = "partial" => PendingPages(Source(r)) # {}
<1>1. WellFormed /\ RunInv /\ [Next]_vars => Verdict
  <2>. SUFFICES ASSUME WellFormed, RunInv, [Next]_vars PROVE Verdict
    OBVIOUS
  <2>t. status \in [Runs -> RunStatus]
    BY DEF WellFormed, TypeOK
  <2>1. ASSUME NEW w \in Workers, Fail(w) \/ Finish(w) PROVE Verdict
    <3>1. PICK outcome \in Terminal :
              /\ status' = [status EXCEPT ![RunOf(w)] = outcome]
              /\ outcome = "succeeded" => PendingPages(Source(RunOf(w))) = {}
              /\ outcome = "partial" => PendingPages(Source(RunOf(w))) # {}
      BY <2>1, FinishEffect
    <3>. QED BY <2>t, <3>1
  <2>2. ASSUME \A r \in Runs : status'[r] # status[r] => status'[r] \in {"pending", "running"}
        PROVE  Verdict
    BY <2>2
  <2>3. ASSUME NEW c \in Clients, NEW s \in Sources, NEW p \in Products, CreateRun(c, s, p)
        PROVE  Verdict
    BY <2>t, <2>2, <2>3 DEF CreateRun
  <2>4. ASSUME NEW w \in Workers, MarkRunning(w)
        PROVE  Verdict
    BY <2>t, <2>2, <2>4 DEF MarkRunning
  <2>5. ASSUME UNCHANGED status PROVE Verdict
    BY <2>5
  <2>. QED
    BY <2>1, <2>3, <2>4, <2>5 DEF Next, ApiNext, TaskStep, SpiderStep, Tick, ApiCrash, Defer, Request,
       Fetch, CheckRun, LaunchSpider, GetStats, CountPending, Return, MarkCollected, ItemLost,
       Visit, Observe, SpiderExit, TaskError, WorkerCrash, vars
<1>2. WellFormed /\ RunInv /\ [Next]_vars => [Verdict]_vars
  BY <1>1
<1>. QED BY <1>2, RunInvariant, PTL DEF Spec, OutcomeReflectsPages

-----------------------------------------------------------------------------
(* No run is forgotten, for any number of workers. *)

(* A job was retried no more often than a task raised. *)
AttemptsCounted == \A j \in Jobs : job[j].attempts <= errors

LEMMA AttemptsStep == WellFormed /\ AttemptsCounted /\ [Next]_vars => AttemptsCounted'
<1>. SUFFICES ASSUME WellFormed, AttemptsCounted, [Next]_vars PROVE AttemptsCounted'
  OBVIOUS
<1>t. job \in [Jobs -> JobRow] /\ errors \in Nat
  BY BoundsAssumption DEF WellFormed, TypeOK
<1>1. ASSUME job' = job, errors' = errors
      PROVE  AttemptsCounted'
  BY <1>1 DEF AttemptsCounted
<1>2. ASSUME NEW j \in Jobs, errors' = errors,
             \/ \E c \in Clients : Defer(c, j)
             \/ \E w \in Workers : Fetch(w, j) \/ (Return(w) /\ worker[w].job = j)
      PROVE  AttemptsCounted'
  <2>1. /\ job'[j].attempts \in {0, job[j].attempts}
        /\ \A i \in Jobs \ {j} : job'[i] = job[i]
    <3>1. CASE \E c \in Clients : Defer(c, j)
      BY <3>1, <1>t DEF Defer
    <3>2. CASE \E w \in Workers : Fetch(w, j)
      BY <3>2, <1>t DEF Fetch, JobRow
    <3>3. CASE \E w \in Workers : Return(w) /\ worker[w].job = j
      BY <3>3, <1>t DEF Return, JobRow
    <3>. QED BY <1>2, <3>1, <3>2, <3>3
  <2>2. job[j].attempts \in Nat
    BY <1>t DEF JobRow
  <2>3. \A i \in Jobs : job'[i].attempts <= errors
    BY <1>t, <2>1, <2>2 DEF AttemptsCounted
  <2>. QED BY <1>2, <2>3 DEF AttemptsCounted
<1>3. ASSUME NEW w \in Workers, TaskError(w)
      PROVE  AttemptsCounted'
  <2>1. worker[w].job \in Jobs
    BY <1>3 DEF TaskError, WellFormed, Holding, WorkersHoldJobs
  <2>2. /\ errors' = errors + 1
        /\ job' = [job EXCEPT ![worker[w].job] = Requeued(job[worker[w].job])]
    BY <1>3 DEF TaskError
  <2>3. job[worker[w].job].attempts \in Nat /\ job[worker[w].job].attempts <= errors
    BY <1>t, <2>1, BoundsAssumption DEF JobRow, AttemptsCounted
  <2>4. Requeued(job[worker[w].job]).attempts <= errors + 1
    <3>1. job[worker[w].job] \in JobRow
      BY <1>t, <2>1
    <3>2. Requeued(job[worker[w].job]).attempts \in {job[worker[w].job].attempts, job[worker[w].job].attempts + 1}
      BY <3>1 DEF Requeued, JobRow
    <3>. QED BY <1>t, <2>3, <3>2
  <2>5. \A j \in Jobs : job[j].attempts \in Nat /\ job[j].attempts <= errors + 1
    BY <1>t, BoundsAssumption DEF AttemptsCounted, JobRow
  <2>. QED BY <1>t, <2>1, <2>2, <2>4, <2>5 DEF AttemptsCounted
<1>4. ASSUME NEW w \in Workers, Return(w) PROVE AttemptsCounted'
  BY <1>2, <1>4 DEF Return, faults, WellFormed, Holding, WorkersHoldJobs
<1>5. ASSUME NEW j \in Jobs, (\E c \in Clients : Defer(c, j)) \/ \E w \in Workers : Fetch(w, j)
      PROVE  AttemptsCounted'
  BY <1>2, <1>5 DEF Defer, Fetch, faults
<1>6. ASSUME \/ Tick
             \/ \E c \in Clients :
                   \/ ApiCrash(c)
                   \/ \E s \in Sources, p \in Products :
                        Request(c, {s}, p) \/ Request(c, Sources, p) \/ CreateRun(c, s, p)
             \/ UNCHANGED vars
      PROVE  AttemptsCounted'
  BY <1>1, <1>6 DEF Tick, ApiCrash, Request, CreateRun, vars, faults
<1>7. ASSUME NEW w \in Workers,
             \/ CheckRun(w) \/ MarkRunning(w) \/ LaunchSpider(w) \/ GetStats(w) \/ CountPending(w)
             \/ Fail(w) \/ Finish(w) \/ SpiderStep(w) \/ WorkerCrash(w)
             \/ \E ok \in BOOLEAN : SpiderExit(w, ok)
      PROVE  AttemptsCounted'
  BY <1>1, <1>7 DEF CheckRun, MarkRunning, LaunchSpider, GetStats, CountPending, Fail, Finish,
     FinishRun, SpiderStep, Visit, Observe, MarkCollected, ItemLost, SpiderExit, WorkerCrash, faults
<1>. QED BY <1>3, <1>4, <1>5, <1>6, <1>7 DEF Next, ApiNext, TaskStep

(* Faults are only ever added. *)
LEMMA FaultsGrow ==
    ASSUME WellFormed, [Next]_vars
    PROVE  /\ crashes \in Nat /\ errors \in Nat /\ crashes' \in Nat /\ errors' \in Nat
           /\ crashes' = 0 => crashes = 0
           /\ errors' <= MaxRetries => errors <= MaxRetries
           /\ errors' = 0 => errors = 0
<1>1. crashes \in Nat /\ errors \in Nat
  BY BoundsAssumption DEF WellFormed, TypeOK
<1>2. crashes' \in {crashes, crashes + 1} /\ errors' \in {errors, errors + 1}
  <2>1. ASSUME UNCHANGED faults PROVE crashes' = crashes /\ errors' = errors
    BY <2>1 DEF faults
  <2>2. CASE Tick \/ \E c \in Clients : ApiNext(c)
    BY <2>1, <2>2 DEF Tick, ApiNext, Request, CreateRun, Defer
  <2>3. CASE \E c \in Clients : ApiCrash(c)
    BY <2>3 DEF ApiCrash
  <2>4. CASE \E w \in Workers : (\E j \in Jobs : Fetch(w, j)) \/ TaskStep(w)
    BY <2>1, <2>4 DEF Fetch, TaskStep, CheckRun, MarkRunning, LaunchSpider, GetStats, Fail, Finish,
       FinishRun, CountPending, Return
  <2>5. CASE \E w \in Workers : SpiderStep(w) \/ \E ok \in BOOLEAN : SpiderExit(w, ok)
    BY <2>1, <2>5 DEF SpiderStep, Visit, Observe, MarkCollected, ItemLost, SpiderExit
  <2>6. CASE \E w \in Workers : TaskError(w) \/ WorkerCrash(w)
    BY <2>6 DEF TaskError, WorkerCrash
  <2>7. CASE UNCHANGED vars
    BY <2>7 DEF vars
  <2>. QED BY <2>2, <2>3, <2>4, <2>5, <2>6, <2>7 DEF Next
<1>. QED BY <1>1, <1>2, BoundsAssumption

LEMMA CarriedStep ==
    WellFormed /\ AttemptsCounted /\ PendingRunIsCarried /\ [Next]_vars => PendingRunIsCarried'
<1>. SUFFICES ASSUME WellFormed, AttemptsCounted, PendingRunIsCarried, [Next]_vars,
                     crashes' = 0, errors' <= MaxRetries,
                     NEW r \in Runs, status'[r] = "pending"
              PROVE  Carried(r)'
  BY DEF PendingRunIsCarried
<1>t. /\ api \in [Clients -> Call] /\ job \in [Jobs -> JobRow] /\ worker \in [Workers -> Slot]
      /\ status \in [Runs -> RunStatus] /\ r # NoRun
  BY NullsAssumption DEF WellFormed, TypeOK
<1>h. \A w \in Workers : worker[w].pc # "idle" =>
          worker[w].job \in Jobs /\ job[worker[w].job].status = "doing"
  BY DEF WellFormed, Holding, WorkersHoldJobs
<1>c. status[r] = "pending" => Carried(r)
  BY FaultsGrow DEF PendingRunIsCarried
<1>1. ASSUME UNCHANGED <<api, job, worker, status>>
      PROVE  Carried(r)'
  BY <1>1, <1>c DEF Carried, Has, RunOf
<1>2. ASSUME NEW c \in Clients, NEW s \in Sources, NEW p \in Products,
             Request(c, {s}, p) \/ Request(c, Sources, p)
      PROVE  Carried(r)'
  <2>1. /\ api[c].run = NoRun /\ UNCHANGED <<job, worker, status>>
        /\ \A d \in Clients \ {c} : api'[d] = api[d]
    BY <1>2, <1>t DEF Request, NoCall
  <2>. QED BY <1>t, <1>c, <2>1 DEF Carried, Has, RunOf
<1>3. ASSUME NEW c \in Clients, NEW s \in Sources, NEW p \in Products, CreateRun(c, s, p)
      PROVE  Carried(r)'
  <2>1. /\ api[c].run = NoRun /\ UNCHANGED <<job, worker>>
        /\ \A d \in Clients \ {c} : api'[d] = api[d]
    BY <1>3, <1>t DEF CreateRun
  <2>2. CASE r = <<s, p, minute>>
    <3>1. api'[c].run = r
      BY <1>3, <1>t, <2>2 DEF CreateRun, Call
    <3>. QED BY <3>1 DEF Carried
  <2>3. CASE r # <<s, p, minute>>
    <3>1. status[r] = "pending"
      BY <1>3, <1>t, <2>3 DEF CreateRun
    <3>. QED BY <1>t, <1>c, <2>1, <3>1 DEF Carried, Has, RunOf
  <2>. QED BY <2>2, <2>3
<1>4. ASSUME NEW c \in Clients, NEW j \in Jobs, Defer(c, j)
      PROVE  Carried(r)'
  <2>1. /\ UNCHANGED <<worker, status>> /\ job[j].status = "none"
        /\ job'[j].status = "todo" /\ job'[j].run = api[c].run
        /\ \A i \in Jobs \ {j} : job'[i] = job[i]
        /\ \A d \in Clients \ {c} : api'[d] = api[d]
    BY <1>4, <1>t DEF Defer
  <2>2. CASE api[c].run = r
    BY <2>1, <2>2 DEF Carried
  <2>3. CASE api[c].run # r
    BY <1>c, <1>h, <2>1, <2>3 DEF Carried, Has, RunOf, Before
  <2>. QED BY <2>2, <2>3
<1>5. ASSUME NEW w \in Workers, NEW j \in Jobs, Fetch(w, j)
      PROVE  Carried(r)'
  <2>1. /\ UNCHANGED <<api, status>> /\ worker[w].pc = "idle" /\ job[j].status = "todo"
        /\ job'[j].run = job[j].run /\ worker'[w].pc = "check" /\ worker'[w].job = j
        /\ \A i \in Jobs \ {j} : job'[i] = job[i]
        /\ \A v \in Workers \ {w} : worker'[v] = worker[v]
    BY <1>5, <1>t DEF Fetch, JobRow, Slot
  <2>. QED BY <1>c, <1>h, <2>1 DEF Carried, Has, RunOf, Before
<1>6. ASSUME NEW w \in Workers, CheckRun(w)
      PROVE  Carried(r)'
  <2>1. /\ UNCHANGED <<api, job, status>> /\ worker'[w].job = worker[w].job
        /\ RunOf(w) = r => worker'[w].pc = "mark"
        /\ \A v \in Workers \ {w} : worker'[v] = worker[v]
    BY <1>6, <1>t DEF CheckRun, Slot
  <2>. QED BY <1>c, <2>1 DEF Carried, Has, RunOf, Before
<1>7. ASSUME NEW w \in Workers, MarkRunning(w)
      PROVE  Carried(r)'
  <2>1. /\ UNCHANGED <<api, job>> /\ RunOf(w) # r /\ status[r] = "pending"
        /\ \A v \in Workers \ {w} : worker'[v] = worker[v]
    BY <1>7, <1>t DEF MarkRunning, RunStatus
  <2>. QED BY <1>c, <2>1 DEF Carried, Has, RunOf
<1>8. ASSUME NEW w \in Workers, TaskError(w)
      PROVE  Carried(r)'
  <2>1. worker[w].job \in Jobs /\ UNCHANGED <<api, status>> /\ errors' = errors + 1
    BY <1>8, <1>h DEF TaskError
  <2>2. job[worker[w].job].attempts \in Nat /\ job[worker[w].job].attempts <= errors
    BY <1>t, <2>1, BoundsAssumption DEF JobRow, AttemptsCounted
  <2>3. job[worker[w].job].attempts < MaxRetries
    BY <2>1, <2>2, FaultsGrow, BoundsAssumption
  <2>4. /\ Requeued(job[worker[w].job]).status = "todo"
        /\ Requeued(job[worker[w].job]).run = job[worker[w].job].run
    BY <1>t, <2>1, <2>3 DEF Requeued, JobRow
  <2>5. /\ job'[worker[w].job] = Requeued(job[worker[w].job])
        /\ \A i \in Jobs \ {worker[w].job} : job'[i] = job[i]
        /\ \A v \in Workers \ {w} : worker'[v] = worker[v]
    BY <1>8, <1>t, <2>1 DEF TaskError
  <2>6. \A v \in Workers \ {w} : worker[v].pc # "idle" => RunOf(v)' = RunOf(v)
    BY <1>h, <2>1, <2>4, <2>5 DEF RunOf
  <2>. QED BY <1>c, <1>h, <2>1, <2>4, <2>5, <2>6 DEF Carried, Has, RunOf, Before
<1>9. ASSUME NEW w \in Workers, Return(w)
      PROVE  Carried(r)'
  <2>1. /\ worker[w].pc = "return" /\ UNCHANGED <<api, status>> /\ worker[w].job \in Jobs
        /\ job[worker[w].job].status = "doing"
        /\ job'[worker[w].job].run = job[worker[w].job].run
        /\ \A i \in Jobs \ {worker[w].job} : job'[i] = job[i]
        /\ \A v \in Workers \ {w} : worker'[v] = worker[v]
    BY <1>9, <1>t, <1>h DEF Return, JobRow
  <2>2. \A v \in Workers \ {w} : worker[v].pc # "idle" => RunOf(v)' = RunOf(v)
    BY <1>h, <2>1 DEF RunOf
  <2>. QED BY <1>c, <2>1, <2>2 DEF Carried, Has, Before
<1>10. ASSUME NEW w \in Workers, UNCHANGED <<api, job>>, worker[w].pc \notin Before,
              \A v \in Workers \ {w} : worker'[v] = worker[v],
              status[r] = "pending"
       PROVE  Carried(r)'
  BY <1>c, <1>10 DEF Carried, Has, RunOf
<1>11. ASSUME NEW w \in Workers,
              LaunchSpider(w) \/ GetStats(w) \/ CountPending(w) \/ SpiderStep(w)
              \/ \E ok \in BOOLEAN : SpiderExit(w, ok)
       PROVE  Carried(r)'
  BY <1>10, <1>11, <1>t DEF LaunchSpider, GetStats, CountPending, SpiderStep, Visit, Observe,
     MarkCollected, ItemLost, SpiderExit, Before
<1>12. ASSUME NEW w \in Workers, Fail(w) \/ Finish(w)
       PROVE  Carried(r)'
  <2>1. \E outcome \in Terminal : FinishRun(w, outcome)
    BY <1>12 DEF Fail, Finish, Terminal
  <2>2. status[r] = "pending"
    BY <1>t, <2>1 DEF FinishRun, Terminal
  <2>3. worker[w].pc \notin Before
    BY <1>12 DEF Fail, Finish, Before
  <2>. QED BY <1>10, <1>t, <2>1, <2>2, <2>3 DEF FinishRun
<1>13. ASSUME (\E c \in Clients : ApiCrash(c)) \/ (\E w \in Workers : WorkerCrash(w))
       PROVE  FALSE
  BY <1>13, FaultsGrow DEF ApiCrash, WorkerCrash
<1>14. ASSUME Tick \/ UNCHANGED vars
       PROVE  Carried(r)'
  BY <1>1, <1>14 DEF Tick, vars
<1>. QED
  BY <1>2, <1>3, <1>4, <1>5, <1>6, <1>7, <1>8, <1>9, <1>11, <1>12, <1>13, <1>14
     DEF Next, ApiNext, TaskStep

(* Whatever the number of workers: with no more exceptions than retries    *)
(* and no dead process, every pending run is on its way to a worker.       *)
THEOREM NoPendingRunForgotten == Spec => []PendingRunIsCarried
<1>1. Init => WellFormed /\ AttemptsCounted /\ PendingRunIsCarried
  <2>1. Init => AttemptsCounted /\ PendingRunIsCarried
    BY DEF Init, AttemptsCounted, PendingRunIsCarried
  <2>. QED BY <2>1, WellFormedInit
<1>2. WellFormed /\ AttemptsCounted /\ PendingRunIsCarried /\ [Next]_vars
        => (WellFormed /\ AttemptsCounted /\ PendingRunIsCarried)'
  BY TypeStep, HoldingStep, AttemptsStep, CarriedStep DEF WellFormed
<1>. QED BY <1>1, <1>2, PTL DEF Spec

LEMMA HeldStep ==
    WellFormed /\ RunningRunIsHeld /\ [Next]_vars => RunningRunIsHeld'
<1>. DEFINE Held(r) == \E w \in Workers : Has(w, r, During)
<1>. SUFFICES ASSUME WellFormed, RunningRunIsHeld, [Next]_vars,
                     crashes' = 0, errors' = 0,
                     NEW r \in Runs, status'[r] = "running"
              PROVE  Held(r)'
  BY DEF RunningRunIsHeld
<1>t. /\ job \in [Jobs -> JobRow] /\ worker \in [Workers -> Slot]
      /\ status \in [Runs -> RunStatus]
  BY DEF WellFormed, TypeOK
<1>h. \A w \in Workers : worker[w].pc # "idle" =>
          worker[w].job \in Jobs /\ job[worker[w].job].status = "doing"
  BY DEF WellFormed, Holding, WorkersHoldJobs
<1>c. status[r] = "running" => Held(r)
  BY FaultsGrow DEF RunningRunIsHeld
<1>1. ASSUME status[r] = "running",
             \A w \in Workers : worker[w].pc \in During =>
                 worker'[w].pc \in During /\ RunOf(w)' = RunOf(w)
      PROVE  Held(r)'
  BY <1>c, <1>1 DEF Has
<1>2. ASSUME \/ Tick
             \/ \E c \in Clients, s \in Sources, p \in Products :
                   Request(c, {s}, p) \/ Request(c, Sources, p) \/ CreateRun(c, s, p)
             \/ UNCHANGED vars
      PROVE  Held(r)'
  <2>1. UNCHANGED <<job, worker>> /\ status[r] = "running"
    BY <1>2, <1>t DEF Tick, Request, CreateRun, vars
  <2>. QED BY <1>1, <2>1 DEF RunOf
<1>3. ASSUME NEW c \in Clients, NEW j \in Jobs, Defer(c, j)
      PROVE  Held(r)'
  <2>1. /\ UNCHANGED <<worker, status>> /\ job[j].status = "none"
        /\ \A i \in Jobs \ {j} : job'[i] = job[i]
    BY <1>3, <1>t DEF Defer
  <2>. QED BY <1>1, <1>h, <2>1 DEF RunOf, During
<1>4. ASSUME NEW w \in Workers, NEW j \in Jobs, Fetch(w, j)
      PROVE  Held(r)'
  <2>1. /\ UNCHANGED status /\ worker[w].pc = "idle" /\ job[j].status = "todo"
        /\ \A i \in Jobs \ {j} : job'[i] = job[i]
        /\ \A v \in Workers \ {w} : worker'[v] = worker[v]
    BY <1>4, <1>t DEF Fetch
  <2>. QED BY <1>1, <1>h, <2>1 DEF RunOf, During
<1>5. ASSUME NEW w \in Workers, MarkRunning(w)
      PROVE  Held(r)'
  <2>1. /\ UNCHANGED job /\ worker'[w].pc = "launch" /\ worker'[w].job = worker[w].job
        /\ \A v \in Workers \ {w} : worker'[v] = worker[v]
        /\ worker[w].pc = "mark"
    BY <1>5, <1>t DEF MarkRunning, Slot
  <2>2. CASE RunOf(w) = r
    BY <2>1, <2>2 DEF Has, RunOf, During
  <2>3. CASE RunOf(w) # r
    <3>1. status[r] = "running"
      BY <1>5, <1>t, <2>3 DEF MarkRunning
    <3>. QED BY <1>1, <2>1, <3>1 DEF RunOf, During
  <2>. QED BY <2>2, <2>3
<1>6. ASSUME NEW w \in Workers,
             \/ CheckRun(w) \/ LaunchSpider(w) \/ GetStats(w) \/ CountPending(w) \/ SpiderStep(w)
             \/ \E ok \in BOOLEAN : SpiderExit(w, ok)
      PROVE  Held(r)'
  <2>1. /\ UNCHANGED <<job, status>> /\ worker'[w].job = worker[w].job
        /\ worker[w].pc \in During => worker'[w].pc \in During
        /\ \A v \in Workers \ {w} : worker'[v] = worker[v]
    <3>1. CASE CheckRun(w) \/ LaunchSpider(w) \/ GetStats(w) \/ CountPending(w)
      BY <3>1, <1>t DEF CheckRun, LaunchSpider, GetStats, CountPending, Slot, During
    <3>2. CASE SpiderStep(w) \/ \E ok \in BOOLEAN : SpiderExit(w, ok)
      BY <3>2, <1>t DEF SpiderStep, Visit, Observe, MarkCollected, ItemLost, SpiderExit, Slot, During
    <3>. QED BY <1>6, <3>1, <3>2
  <2>. QED BY <1>1, <2>1 DEF RunOf
<1>7. ASSUME NEW w \in Workers, Fail(w) \/ Finish(w)
      PROVE  Held(r)'
  <2>1. \E outcome \in Terminal : FinishRun(w, outcome)
    BY <1>7 DEF Fail, Finish, Terminal
  <2>2. /\ RunOf(w) # r /\ status[r] = "running" /\ UNCHANGED job
        /\ \A v \in Workers \ {w} : worker'[v] = worker[v]
    BY <1>t, <2>1 DEF FinishRun, Terminal
  <2>. QED BY <1>c, <2>2 DEF Has, RunOf
<1>8. ASSUME NEW w \in Workers, Return(w)
      PROVE  Held(r)'
  <2>1. /\ worker[w].pc = "return" /\ UNCHANGED status /\ worker[w].job \in Jobs
        /\ job'[worker[w].job].run = job[worker[w].job].run
        /\ \A i \in Jobs \ {worker[w].job} : job'[i] = job[i]
        /\ \A v \in Workers \ {w} : worker'[v] = worker[v]
    BY <1>8, <1>t, <1>h DEF Return, JobRow
  <2>. QED BY <1>1, <1>h, <2>1 DEF RunOf, During
<1>9. ASSUME \/ \E c \in Clients : ApiCrash(c)
             \/ \E w \in Workers : TaskError(w) \/ WorkerCrash(w)
      PROVE  FALSE
  BY <1>9, FaultsGrow DEF ApiCrash, TaskError, WorkerCrash
<1>. QED
  BY <1>2, <1>3, <1>4, <1>5, <1>6, <1>7, <1>8, <1>9 DEF Next, ApiNext, TaskStep

(* Whatever the number of workers: while nothing raises and nothing dies,  *)
(* a running run has a worker between mark_running and finish_run.         *)
THEOREM RunningRunHasWorker == Spec => []RunningRunIsHeld
<1>1. Init => WellFormed /\ RunningRunIsHeld
  <2>1. Init => RunningRunIsHeld
    BY DEF Init, RunningRunIsHeld
  <2>. QED BY <2>1, WellFormedInit
<1>2. WellFormed /\ RunningRunIsHeld /\ [Next]_vars => (WellFormed /\ RunningRunIsHeld)'
  BY TypeStep, HoldingStep, HeldStep DEF WellFormed
<1>. QED BY <1>1, <1>2, PTL DEF Spec
=============================================================================
