--------------------------- MODULE CollectionRun ---------------------------
(***************************************************************************)
(* A collection run from the click to its final status: the API process    *)
(* that creates the run and defers a job (discovery/service.py), the       *)
(* Procrastinate queue, the worker that executes run_collection            *)
(* (jobs/tasks.py) and the spider subprocess that fills the database while *)
(* the worker waits for it.  Every action is one database transaction.     *)
(*                                                                         *)
(* A run is identified with its idempotency key, <<source, product,        *)
(* minute>>: collection_run.idempotency_key is UNIQUE.  A page carries one *)
(* offer, so observations are named by their page; ListingPipeline has the *)
(* detail of one listing.  Reads that change nothing and gate nothing      *)
(* (product, variants) are left out, and so is a source that disappears:   *)
(* collection_run.source_id is a foreign key, and no code deletes a source.*)
(***************************************************************************)
EXTENDS Integers, FiniteSets

CONSTANTS
    Clients,       \* requests the API serves at a time
    Workers,       \* procrastinate worker slots; compose.yaml starts one
    Sources,       \* enabled sources
    LabSources,    \* those whose spider registers the pages it will visit
    Products,
    Pages,         \* product pages of a source
    Jobs,          \* rows of procrastinate_jobs
    MaxMinute,     \* bound: the clock stops here
    MaxClicks,     \* bound: requests over a behaviour
    MaxErrors,     \* bound: exceptions raised inside the task
    MaxCrashes,    \* bound: deaths of an API or worker process
    MaxRetries,    \* retry=2 of the task
    NoRun, NoJob, NoPage

Minutes == 0..MaxMinute
Runs == Sources \X Products \X Minutes

ASSUME LabSourcesAssumption == LabSources \subseteq Sources
ASSUME PagesAssumption == IsFiniteSet(Pages)
ASSUME BoundsAssumption ==
    /\ MaxMinute \in Nat /\ MaxClicks \in Nat
    /\ MaxErrors \in Nat /\ MaxCrashes \in Nat /\ MaxRetries \in Nat
ASSUME NullsAssumption == NoRun \notin Runs /\ NoJob \notin Jobs /\ NoPage \notin Pages

VARIABLES
    minute,    \* the clock the idempotency key is cut from
    clicks,    \* requests received so far
    errors,    \* exceptions so far
    crashes,   \* process deaths so far
    api,       \* one trigger_collection (or trigger_all_enabled) call per client
    job,       \* procrastinate_jobs
    worker,    \* the run_collection call each worker slot is in
    status,    \* collection_run.status, "none" before the row exists
    stats,     \* collection_run.stats["offers_observed"], -1 while unset
    observed,  \* pages with a price_observation of the run
    page,      \* discovered_page.status of each page of each source
    visited,   \* history: the pages the run's spiders went to
    spiders    \* history: spider subprocesses started for the run

vars == <<minute, clicks, errors, crashes, api, job, worker, status, stats,
          observed, page, visited, spiders>>
history == <<visited, spiders>>
faults == <<errors, crashes>>

Terminal == {"succeeded", "partial", "failed"}
RunStatus == {"none", "pending", "running"} \cup Terminal
PageStatus == {"unknown", "pending", "collected"}
JobStatus == {"none", "todo", "doing", "succeeded", "failed"}
Step == {"idle", "check", "mark", "launch", "spider", "exited", "counted", "judged", "return"}

(* What a client is asking for and the run it is about to defer a job for. *)
Call == [todo : SUBSET (Sources \X Products), run : Runs \cup {NoRun}]
JobRow == [status : JobStatus, run : Runs \cup {NoRun}, attempts : 0..MaxRetries]
(* The locals of run_collection, and the page its spider is busy with. *)
Slot == [pc : Step, job : Jobs \cup {NoJob}, page : Pages \cup {NoPage},
         ok : BOOLEAN, seen : Nat, left : BOOLEAN]

NoCall == [todo |-> {}, run |-> NoRun]
IdleWorker == [pc |-> "idle", job |-> NoJob, page |-> NoPage, ok |-> FALSE,
               seen |-> 0, left |-> FALSE]

Source(r) == r[1]
RunOf(w) == job[worker[w].job].run

Init ==
    /\ minute = 0 /\ clicks = 0 /\ errors = 0 /\ crashes = 0
    /\ api = [c \in Clients |-> NoCall]
    /\ job = [j \in Jobs |-> [status |-> "none", run |-> NoRun, attempts |-> 0]]
    /\ worker = [w \in Workers |-> IdleWorker]
    /\ status = [r \in Runs |-> "none"]
    /\ stats = [r \in Runs |-> -1]
    /\ observed = [r \in Runs |-> {}]
    /\ page = [s \in Sources |-> [p \in Pages |-> "unknown"]]
    /\ visited = [r \in Runs |-> {}]
    /\ spiders = [r \in Runs |-> 0]

-----------------------------------------------------------------------------
(* The API process *)

Tick ==
    /\ minute < MaxMinute
    /\ minute' = minute + 1
    /\ UNCHANGED <<clicks, faults, api, job, worker, status, stats, observed, page, history>>

(* A request for the sources ss, one after the other: POST                 *)
(* /sources/{id}/collect names one, trigger_all_enabled all of them.       *)
Request(c, ss, p) ==
    /\ clicks < MaxClicks
    /\ api[c] = NoCall
    /\ clicks' = clicks + 1
    /\ api' = [api EXCEPT ![c] = [todo |-> ss \X {p}, run |-> NoRun]]
    /\ UNCHANGED <<minute, faults, job, worker, status, stats, observed, page, history>>

(* The call once <<s, p>> is served: the next source of the list, if any.  *)
Served(call, s, p) == [todo |-> call.todo \ {<<s, p>>}, run |-> NoRun]

(* create_run inserts the row of this minute or returns the one there is;  *)
(* the call goes on to defer a job only when the row it got is pending.    *)
CreateRun(c, s, p) ==
    /\ api[c].run = NoRun
    /\ <<s, p>> \in api[c].todo
    /\ LET r == <<s, p, minute>>
           pending == status[r] \in {"none", "pending"}
       IN  /\ status' = [status EXCEPT ![r] = IF pending THEN "pending" ELSE @]
           /\ api' = [api EXCEPT ![c] = IF pending THEN [@ EXCEPT !.run = r]
                                                   ELSE Served(@, s, p)]
    /\ UNCHANGED <<minute, clicks, faults, job, worker, stats, observed, page, history>>

(* defer_async commits the job in a transaction of its own. *)
Defer(c, j) ==
    /\ api[c].run # NoRun
    /\ job[j].status = "none"
    /\ job' = [job EXCEPT ![j] = [status |-> "todo", run |-> api[c].run, attempts |-> 0]]
    /\ api' = [api EXCEPT ![c] = Served(@, @.run[1], @.run[2])]
    /\ UNCHANGED <<minute, clicks, faults, worker, status, stats, observed, page, history>>

(* The process dies with the call: what it committed stays. *)
ApiCrash(c) ==
    /\ crashes < MaxCrashes
    /\ api[c] # NoCall
    /\ crashes' = crashes + 1
    /\ api' = [api EXCEPT ![c] = NoCall]
    /\ UNCHANGED <<minute, clicks, errors, job, worker, status, stats, observed, page, history>>

-----------------------------------------------------------------------------
(* The worker process: run_collection, one action per database transaction *)

(* Procrastinate hands a job to one slot (SELECT ... FOR UPDATE SKIP LOCKED). *)
Fetch(w, j) ==
    /\ worker[w].pc = "idle"
    /\ job[j].status = "todo"
    /\ job' = [job EXCEPT ![j].status = "doing"]
    /\ worker' = [worker EXCEPT ![w].pc = "check", ![w].job = j]
    /\ UNCHANGED <<minute, clicks, faults, api, status, stats, observed, page, history>>

(* Bug: only a running run is left alone, so a finished one is collected again. *)
CheckRunReplaysFinished(w) ==
    /\ worker[w].pc = "check"
    /\ worker' = [worker EXCEPT ![w].pc =
                     IF status[RunOf(w)] = "running" THEN "return" ELSE "mark"]
    /\ UNCHANGED <<minute, clicks, faults, api, job, status, stats, observed, page, history>>

(* get_run: a run that is no longer pending is left alone. *)
CheckRun(w) ==
    /\ worker[w].pc = "check"
    /\ worker' = [worker EXCEPT ![w].pc =
                     IF status[RunOf(w)] = "pending" THEN "mark" ELSE "return"]
    /\ UNCHANGED <<minute, clicks, faults, api, job, status, stats, observed, page, history>>

(* mark_running: the UPDATE is conditional, its row count is not read. *)
MarkRunning(w) ==
    /\ worker[w].pc = "mark"
    /\ status' = [status EXCEPT ![RunOf(w)] = IF @ = "pending" THEN "running" ELSE @]
    /\ worker' = [worker EXCEPT ![w].pc = "launch"]
    /\ UNCHANGED <<minute, clicks, faults, api, job, stats, observed, page, history>>

(* run_spider starts the subprocess. *)
LaunchSpider(w) ==
    /\ worker[w].pc = "launch"
    /\ worker' = [worker EXCEPT ![w].pc = "spider"]
    /\ spiders' = [spiders EXCEPT ![RunOf(w)] = @ + 1]
    /\ UNCHANGED <<minute, clicks, faults, api, job, status, stats, observed, page, visited>>

(* The spider goes to a product page.  A lab spider first registers it     *)
(* (upsert_discovered_page, which leaves the status of a known page as it  *)
(* is); a retail spider requests it and registers nothing.                 *)
Visit(w, p) ==
    /\ worker[w].pc = "spider"
    /\ p \notin visited[RunOf(w)]
    /\ visited' = [visited EXCEPT ![RunOf(w)] = @ \cup {p}]
    /\ page' = [page EXCEPT ![Source(RunOf(w))][p] =
                   IF Source(RunOf(w)) \in LabSources /\ @ = "unknown" THEN "pending" ELSE @]
    /\ UNCHANGED <<minute, clicks, faults, api, job, worker, status, stats, observed, spiders>>

(* A listing was extracted from the page and its observation committed:    *)
(* once per run, ON CONFLICT DO NOTHING.                                   *)
Observe(w, p) ==
    /\ worker[w].pc = "spider"
    /\ worker[w].page = NoPage
    /\ p \in visited[RunOf(w)]
    /\ observed' = [observed EXCEPT ![RunOf(w)] = @ \cup {p}]
    /\ worker' = [worker EXCEPT ![w].page = p]
    /\ UNCHANGED <<minute, clicks, faults, api, job, status, stats, page, history>>

(* The end of _handle_listing: the page is upserted and marked collected.  *)
MarkCollected(w) ==
    /\ worker[w].pc = "spider"
    /\ worker[w].page # NoPage
    /\ page' = [page EXCEPT ![Source(RunOf(w))][worker[w].page] = "collected"]
    /\ worker' = [worker EXCEPT ![w].page = NoPage]
    /\ UNCHANGED <<minute, clicks, faults, api, job, status, stats, observed, history>>

(* An exception on the way to the mark drops the item, not the spider. *)
ItemLost(w) ==
    /\ worker[w].pc = "spider"
    /\ worker[w].page # NoPage
    /\ worker' = [worker EXCEPT ![w].page = NoPage]
    /\ UNCHANGED <<minute, clicks, faults, api, job, status, stats, observed, page, history>>

(* The subprocess ends: well, between two listings, with any part of the   *)
(* site unseen (extraction errors, CLOSESPIDER limits); or badly, anywhere.*)
SpiderExit(w, ok) ==
    /\ worker[w].pc = "spider"
    /\ ok => worker[w].page = NoPage
    /\ worker' = [worker EXCEPT ![w].pc = "exited", ![w].page = NoPage, ![w].ok = ok]
    /\ UNCHANGED <<minute, clicks, faults, api, job, status, stats, observed, page, history>>

(* get_run_stats *)
GetStats(w) ==
    /\ worker[w].pc = "exited"
    /\ worker' = [worker EXCEPT ![w].pc = "counted", ![w].seen = Cardinality(observed[RunOf(w)])]
    /\ UNCHANGED <<minute, clicks, faults, api, job, status, stats, observed, page, history>>

(* finish_run: the UPDATE has no condition on the status it replaces. *)
FinishRun(w, outcome) ==
    /\ status' = [status EXCEPT ![RunOf(w)] = outcome]
    /\ stats' = [stats EXCEPT ![RunOf(w)] = worker[w].seen]
    /\ worker' = [worker EXCEPT ![w].pc = "return"]
    /\ UNCHANGED <<minute, clicks, faults, api, job, observed, page, history>>

(* Bug: a crawl that observed nothing is not told from one that did. *)
FailOnExitCodeOnly(w) ==
    /\ worker[w].pc = "counted"
    /\ ~worker[w].ok
    /\ FinishRun(w, "failed")

(* Bug: the early return of a failed spider skips finish_run. *)
FailWithoutFinish(w) ==
    /\ worker[w].pc = "counted"
    /\ ~worker[w].ok \/ worker[w].seen = 0
    /\ worker' = [worker EXCEPT ![w].pc = "return"]
    /\ UNCHANGED <<minute, clicks, faults, api, job, status, stats, observed, page, history>>

(* The spider failed, or there is nothing to show for it. *)
Fail(w) ==
    /\ worker[w].pc = "counted"
    /\ ~worker[w].ok \/ worker[w].seen = 0
    /\ FinishRun(w, "failed")

(* count_pending_product_pages: pages of the source, whichever run found them. *)
PendingPages(s) == {p \in Pages : page[s][p] = "pending"}

(* Bug: partial only when no page at all was collected. *)
CountPendingAllLeft(w) ==
    /\ worker[w].pc = "counted"
    /\ worker[w].ok /\ worker[w].seen > 0
    /\ worker' = [worker EXCEPT ![w].pc = "judged",
                                ![w].left = PendingPages(Source(RunOf(w))) = Pages]
    /\ UNCHANGED <<minute, clicks, faults, api, job, status, stats, observed, page, history>>

CountPending(w) ==
    /\ worker[w].pc = "counted"
    /\ worker[w].ok /\ worker[w].seen > 0
    /\ worker' = [worker EXCEPT ![w].pc = "judged",
                                ![w].left = PendingPages(Source(RunOf(w))) # {}]
    /\ UNCHANGED <<minute, clicks, faults, api, job, status, stats, observed, page, history>>

Finish(w) ==
    /\ worker[w].pc = "judged"
    /\ FinishRun(w, IF worker[w].left THEN "partial" ELSE "succeeded")

(* The task returned; Procrastinate closes the job. *)
Return(w) ==
    /\ worker[w].pc = "return"
    /\ job' = [job EXCEPT ![worker[w].job].status = "succeeded"]
    /\ worker' = [worker EXCEPT ![w] = IdleWorker]
    /\ UNCHANGED <<minute, clicks, faults, api, status, stats, observed, page, history>>

(* Bug: one retry fewer than the task declares. *)
RequeuedOneShort(row) ==
    IF row.attempts + 1 < MaxRetries
    THEN [row EXCEPT !.status = "todo", !.attempts = row.attempts + 1]
    ELSE [row EXCEPT !.status = "failed"]

(* The job of a task that raised goes back to the queue until its retries  *)
(* are spent.                                                              *)
Requeued(row) ==
    IF row.attempts < MaxRetries
    THEN [row EXCEPT !.status = "todo", !.attempts = row.attempts + 1]
    ELSE [row EXCEPT !.status = "failed"]

(* A statement or the start of the subprocess raises. *)
TaskError(w) ==
    /\ errors < MaxErrors
    /\ worker[w].pc \in {"check", "mark", "launch", "exited", "counted", "judged"}
    /\ errors' = errors + 1
    /\ job' = [job EXCEPT ![worker[w].job] = Requeued(@)]
    /\ worker' = [worker EXCEPT ![w] = IdleWorker]
    /\ UNCHANGED <<minute, clicks, crashes, api, status, stats, observed, page, history>>

(* The worker container dies, and its spider with it.  The restarted       *)
(* worker fetches jobs in "todo" only: the one it held stays in "doing".   *)
WorkerCrash(w) ==
    /\ crashes < MaxCrashes
    /\ worker[w].pc # "idle"
    /\ crashes' = crashes + 1
    /\ worker' = [worker EXCEPT ![w] = IdleWorker]
    /\ UNCHANGED <<minute, clicks, errors, api, job, status, stats, observed, page, history>>

-----------------------------------------------------------------------------

ApiNext(c) ==
    \/ \E s \in Sources, p \in Products :
          Request(c, {s}, p) \/ Request(c, Sources, p) \/ CreateRun(c, s, p)
    \/ \E j \in Jobs : Defer(c, j)

(* The task itself, once it holds a job. *)
TaskStep(w) ==
    \/ CheckRun(w) \/ MarkRunning(w) \/ LaunchSpider(w) \/ GetStats(w)
    \/ Fail(w) \/ CountPending(w) \/ Finish(w) \/ Return(w)

SpiderStep(w) ==
    \/ \E p \in Pages : Visit(w, p) \/ Observe(w, p)
    \/ MarkCollected(w) \/ ItemLost(w)

Next ==
    \/ Tick
    \/ \E c \in Clients : ApiNext(c) \/ ApiCrash(c)
    \/ \E w \in Workers :
          \/ \E j \in Jobs : Fetch(w, j)
          \/ TaskStep(w)
          \/ SpiderStep(w)
          \/ \E ok \in BOOLEAN : SpiderExit(w, ok)
          \/ TaskError(w)
          \/ WorkerCrash(w)

Spec == Init /\ [][Next]_vars

(* The API finishes the calls it has taken, the worker polls the queue and *)
(* executes the task, and Scrapy ends every crawl: CLOSESPIDER_TIMEOUT = 300.*)
(* Nothing promises a click, a tick, an error or a crash.                  *)
Fairness ==
    /\ \A c \in Clients :
         /\ WF_vars(\E s \in Sources, p \in Products : CreateRun(c, s, p))
         /\ WF_vars(\E j \in Jobs : Defer(c, j))
    /\ \A w \in Workers :
         /\ WF_vars(\E j \in Jobs : Fetch(w, j))
         /\ WF_vars(TaskStep(w))
         /\ WF_vars(\E ok \in BOOLEAN : SpiderExit(w, ok))

FairSpec == Spec /\ Fairness

-----------------------------------------------------------------------------
(* Properties *)

(* Every column and every local of the task has one of the values the code *)
(* can give it; a job is retried at most MaxRetries times (tasks.py:22).   *)
TypeOK ==
    /\ minute \in Minutes
    /\ clicks \in 0..MaxClicks /\ errors \in 0..MaxErrors /\ crashes \in 0..MaxCrashes
    /\ api \in [Clients -> Call]
    /\ job \in [Jobs -> JobRow]
    /\ worker \in [Workers -> Slot]
    /\ status \in [Runs -> RunStatus]
    /\ stats \in [Runs -> Nat \cup {-1}]
    /\ observed \in [Runs -> SUBSET Pages]
    /\ page \in [Sources -> [Pages -> PageStatus]]
    /\ visited \in [Runs -> SUBSET Pages]
    /\ spiders \in [Runs -> Nat]

(* No replay, duplicated job, retry or restart starts a second spider for  *)
(* a run: the check at tasks.py:29 and the UPDATE at sql.py:66 together    *)
(* keep it to one, as long as one worker slot serves the queue.            *)
AtMostOneSpider == \A r \in Runs : spiders[r] <= 1

(* The steps at which a worker has its run still pending, or running.      *)
Before == {"check", "mark"}
During == {"launch", "spider", "exited", "counted", "judged"}

Has(w, r, steps) == worker[w].pc \in steps /\ RunOf(w) = r

Carried(r) ==
    \/ \E c \in Clients : api[c].run = r
    \/ \E j \in Jobs : job[j].run = r /\ job[j].status = "todo"
    \/ \E w \in Workers : Has(w, r, Before)

(* A pending run is never forgotten: a request is about to defer its job,  *)
(* or the job is queued, or a worker has it and has not marked the run     *)
(* yet.  Two transactions of the API and two of the worker hand the run    *)
(* over; retries keep the chain whole, the death of a process does not.    *)
PendingRunIsCarried ==
    (crashes = 0 /\ errors <= MaxRetries) =>
        \A r \in Runs : status[r] = "pending" => Carried(r)

(* A running run has a worker that will finish it, until an exception or a *)
(* crash takes the worker away: nothing else in the system ends a run.     *)
RunningRunIsHeld ==
    (crashes = 0 /\ errors = 0) =>
        \A r \in Runs : status[r] = "running" => \E w \in Workers : Has(w, r, During)

(* The verdict agrees with the pages of the source at the moment it is     *)
(* written, not only when they were counted: succeeded with no product     *)
(* page pending, partial with one (tasks.py:104-107).                      *)
OutcomeReflectsPages ==
    [][\A r \in Runs : status'[r] # status[r] =>
         /\ status'[r] = "succeeded" => PendingPages(Source(r)) = {}
         /\ status'[r] = "partial" => PendingPages(Source(r)) # {}]_vars

(* The state machine of a run, its observations and its statistics.  It    *)
(* says that a finished run never changes, that observations arrive only   *)
(* while it runs, that the stored count is the final one.                  *)
Promise == INSTANCE RunStateMachine WITH Offers <- Pages
RunPromise == Promise!Spec

(* "O run termina em succeeded, partial ou failed" (docs/architecture.md): *)
(* once it has started running it ends.                                    *)
StartedRunTerminates ==
    \A r \in Runs : status[r] = "running" ~> status[r] \in Terminal

(* Without a fault, every run that is created ends, started or not.        *)
EveryRunTerminates ==
    \A r \in Runs : status[r] = "pending" ~>
                       (status[r] \in Terminal \/ errors + crashes > 0)

(* A queued job gets its run started, through as many exceptions as the    *)
(* task has retries, whatever else is queued.                              *)
QueuedRunIsTakenUp ==
    \A r \in Runs : (\E j \in Jobs : job[j].run = r /\ job[j].status = "todo") ~>
                       (status[r] # "pending" \/ crashes > 0 \/ errors > MaxRetries)

(* "páginas descobertas que não chegaram a uma observação mantêm o run     *)
(* partial" (docs/architecture.md): a succeeded run has an observation of  *)
(* every page its spider visited.                                          *)
SucceededRunObservedItsPages ==
    \A r \in Runs : status[r] = "succeeded" => visited[r] \subseteq observed[r]
=============================================================================
