------------------------------- MODULE Discovery -------------------------------
(***************************************************************************)
(* A network scan, from the console's discovery page through the           *)
(* controller's scan store to the connector and back.  The page asks for a *)
(* scan and, once it has its id, polls for the status on an interval timer *)
(* until the scan is over.  A tick of the timer does not wait for the      *)
(* answer of the tick before, an answer is applied whenever it arrives,    *)
(* and a continuation also runs after its page was left.  The controller   *)
(* creates the job, sends the command and marks the job as three steps,    *)
(* while the connector's report arrives on another goroutine.              *)
(***************************************************************************)
EXTENDS Integers, FiniteSets

CONSTANTS
    Hits,       \* services a scan may find
    MaxScans,   \* bound: scans asked for
    MaxMounts,  \* bound: times the page is opened
    MaxAdds,    \* bound: requests to add a resource
    MaxTroubles \* bound: dropped streams, restarts, failed requests, and ticks
                \* of a timer that meet an unanswered poll

Scans == 1 .. MaxScans
Mounts == 1 .. MaxMounts

ASSUME DiscoveryAssumption ==
    /\ MaxScans \in Nat \ {0} /\ MaxMounts \in Nat \ {0} /\ MaxTroubles \in Nat
    /\ MaxAdds \in Nat

VARIABLES
    open, mount,  \* the page is open; how often it was opened
    scanning,     \* the page's start button is disabled
    shown,        \* the page's scanJob
    added,        \* the page's addedResources
    ref,          \* per page instance, the scan of its pollRef, or 0
    intervals,    \* timers that run, as << page instance, scan >>
    reqs,         \* requests sent and not finished
    jobs,         \* controller: the ScanStore
    stream,       \* the connector's control stream is up
    tasks,        \* connector: per scan, its task and report
    stored,       \* controller: how often a hit was added as a resource
    hist          \* counters and what has happened

page == << open, mount, scanning, shown, added, ref, intervals >>
vars == << page, reqs, jobs, stream, tasks, stored, hist >>

Final == {"completed", "failed"}
NoJob == [scan |-> 0, status |-> "none", results |-> {}]
Pending(s) == [scan |-> s, status |-> "pending", results |-> {}]
NoTask == [st |-> "none", ok |-> FALSE, found |-> {}]

\* A request of page instance m; n tells polls of one timer apart.
Request(kind, m, s, n, h) ==
    [kind |-> kind, m |-> m, s |-> s, n |-> n, h |-> h, st |-> "sent", got |-> NoJob]

Here(f) == open /\ f.m = mount
Replace(f, g) == reqs' = (reqs \ {f}) \cup {g}
Troubled == hist.faults + hist.overlaps < MaxTroubles
Fault == Troubled /\ hist' = [hist EXCEPT !.faults = @ + 1]

-----------------------------------------------------------------------------
(* The page.                                                               *)

OpenPage ==
    /\ ~open /\ mount < MaxMounts
    /\ open' = TRUE /\ mount' = mount + 1
    /\ scanning' = FALSE /\ shown' = NoJob /\ added' = {}
    /\ UNCHANGED << ref, intervals, reqs, jobs, stream, tasks, stored, hist >>

\* Mutant: the effect has no clean-up.
ClosePageKeeps ==
    /\ open /\ open' = FALSE
    /\ hist' = [hist EXCEPT !.left = @ \cup { f.m : f \in { r \in reqs : r.kind = "start" /\ r.m = mount } }]
    /\ UNCHANGED << mount, scanning, shown, added, ref, intervals, reqs, jobs, stream, tasks, stored >>

\* The effect's clean-up clears the timer in pollRef; a start that is still
\* outstanding sets its timer later.
ClosePage ==
    /\ open /\ open' = FALSE
    /\ intervals' = intervals \ {<< mount, ref[mount] >>}
    /\ hist' = [hist EXCEPT !.left = @ \cup { f.m : f \in { r \in reqs : r.kind = "start" /\ r.m = mount } }]
    /\ UNCHANGED << mount, scanning, shown, added, ref, reqs, jobs, stream, tasks, stored >>

\* The form's button.
CanStart == open /\ ~scanning

\* Mutant: the page keeps the job it shows.
StartScanKeeps ==
    /\ CanStart /\ hist.asked < MaxScans
    /\ scanning' = TRUE
    /\ reqs' = reqs \cup {Request("start", mount, hist.asked + 1, 0, {})}
    /\ hist' = [hist EXCEPT !.asked = @ + 1]
    /\ UNCHANGED << open, mount, shown, added, ref, intervals, jobs, stream, tasks, stored >>

\* handleStartScan; input it refuses only blanks the page.
StartScan ==
    /\ CanStart
    /\ shown' = NoJob /\ added' = {}
    /\ \/ UNCHANGED << scanning, reqs, hist >>
       \/ /\ hist.asked < MaxScans
          /\ scanning' = TRUE
          /\ reqs' = reqs \cup {Request("start", mount, hist.asked + 1, 0, {})}
          /\ hist' = [hist EXCEPT !.asked = @ + 1]
    /\ UNCHANGED << open, mount, ref, intervals, jobs, stream, tasks, stored >>

\* The answer sets the timer, whether or not the page is still there.
StartAnswer(f) ==
    /\ f \in reqs /\ f.kind = "start" /\ f.st \in {"ok", "failed"}
    /\ reqs' = reqs \ {f}
    /\ IF f.st = "ok"
       THEN /\ ref' = [ref EXCEPT ![f.m] = f.s]
            /\ intervals' = intervals \cup {<< f.m, f.s >>}
            /\ shown' = IF Here(f) THEN Pending(f.s) ELSE shown
            /\ UNCHANGED scanning
       ELSE /\ scanning' = (scanning /\ ~Here(f))
            /\ UNCHANGED << ref, intervals, shown >>
    /\ UNCHANGED << open, mount, added, jobs, stream, tasks, stored, hist >>

Slots == 1 .. (MaxTroubles + 1)
Polls(m, s) == { f \in reqs : f.kind = "poll" /\ f.m = m /\ f.s = s }

\* The timer fires, whatever is outstanding.
Poll(m, s) ==
    /\ << m, s >> \in intervals
    /\ \/ Polls(m, s) = {} /\ UNCHANGED hist
       \/ /\ Polls(m, s) # {} /\ Troubled
          /\ hist' = [hist EXCEPT !.overlaps = @ + 1]
    /\ LET n == CHOOSE k \in Slots : \A f \in Polls(m, s) : f.n # k IN
       reqs' = reqs \cup {Request("poll", m, s, n, {})}
    /\ UNCHANGED << page, jobs, stream, tasks, stored >>

\* Mutant: only a completed scan stops the timer.
PollAnswerCompleted(f) ==
    /\ f \in reqs /\ f.kind = "poll" /\ f.st # "sent"
    /\ reqs' = reqs \ {f}
    /\ shown' = IF f.st = "ok" /\ Here(f) THEN f.got ELSE shown
    /\ IF f.st = "ok" /\ f.got.status = "completed"
       THEN /\ intervals' = intervals \ {<< f.m, ref[f.m] >>}
            /\ ref' = [ref EXCEPT ![f.m] = 0]
            /\ scanning' = (scanning /\ ~Here(f))
       ELSE UNCHANGED << ref, intervals, scanning >>
    /\ UNCHANGED << open, mount, added, jobs, stream, tasks, stored, hist >>

\* The status is shown; a final one stops the timer that pollRef holds now.
\* After an error the timer goes on.
PollAnswer(f) ==
    /\ f \in reqs /\ f.kind = "poll" /\ f.st # "sent"
    /\ reqs' = reqs \ {f}
    /\ shown' = IF f.st = "ok" /\ Here(f) THEN f.got ELSE shown
    /\ IF f.st = "ok" /\ f.got.status \in Final
       THEN /\ intervals' = intervals \ {<< f.m, ref[f.m] >>}
            /\ ref' = [ref EXCEPT ![f.m] = 0]
            /\ scanning' = (scanning /\ ~Here(f))
       ELSE UNCHANGED << ref, intervals, scanning >>
    /\ UNCHANGED << open, mount, added, jobs, stream, tasks, stored, hist >>

\* The rows whose button is enabled.
Addable == IF open /\ shown.status = "completed" THEN shown.results \ added ELSE {}

\* handleAddResource: the button stays enabled until the answer.
AddResource(h) ==
    /\ h \in Addable /\ hist.adds < MaxAdds
    /\ reqs' = reqs \cup {Request("add", mount, 0, hist.adds + 1, {h})}
    /\ hist' = [hist EXCEPT !.adds = @ + 1]
    /\ UNCHANGED << page, jobs, stream, tasks, stored >>

AddAnswer(f) ==
    /\ f \in reqs /\ f.kind = "add" /\ f.st # "sent"
    /\ reqs' = reqs \ {f}
    /\ added' = IF f.st = "ok" /\ Here(f) THEN added \cup f.h ELSE added
    /\ UNCHANGED << open, mount, scanning, shown, ref, intervals, jobs, stream, tasks, stored, hist >>

-----------------------------------------------------------------------------
(* The controller.                                                         *)

\* The job is created and the command sent; nobody knows the job's id in
\* between.  Without a stream the job fails at once; the answer is a success
\* all the same.
SendCommand(f) ==
    /\ f \in reqs /\ f.kind = "start" /\ f.st = "sent" /\ jobs[f.s].status = "none"
    /\ jobs' = [jobs EXCEPT ![f.s] = [Pending(f.s) EXCEPT !.status = IF stream THEN "pending" ELSE "failed"]]
    /\ IF stream
       THEN /\ tasks' = [tasks EXCEPT ![f.s] = [NoTask EXCEPT !.st = "scan"]]
            /\ Replace(f, [f EXCEPT !.st = "marking"])
       ELSE /\ Replace(f, [f EXCEPT !.st = "ok"])
            /\ UNCHANGED tasks
    /\ UNCHANGED << page, stream, stored, hist >>

\* MarkInProgress looks at nothing: a report may have come before it.
MarkInProgress(f) ==
    /\ f \in reqs /\ f.st = "marking"
    /\ hist' = [hist EXCEPT !.raced = IF jobs[f.s].status \in Final THEN @ \cup {f.s} ELSE @]
    /\ jobs' = [jobs EXCEPT ![f.s].status = "in_progress"]
    /\ Replace(f, [f EXCEPT !.st = "ok"])
    /\ UNCHANGED << page, stream, tasks, stored >>

\* A poll reads the job without the store's lock: it may find the status of
\* a report whose results are not there yet.
ServePoll(f) ==
    /\ f \in reqs /\ f.kind = "poll" /\ f.st = "sent"
    /\ IF jobs[f.s].status = "none"
       THEN Replace(f, [f EXCEPT !.st = "failed"])
       ELSE Replace(f, [f EXCEPT !.st = "ok", !.got = jobs[f.s]])
    /\ UNCHANGED << page, jobs, stream, tasks, stored, hist >>

ServeAdd(f) ==
    /\ f \in reqs /\ f.kind = "add" /\ f.st = "sent"
    /\ stored' = [h \in Hits |-> stored[h] + (IF h \in f.h THEN 1 ELSE 0)]
    /\ Replace(f, [f EXCEPT !.st = "ok"])
    /\ UNCHANGED << page, jobs, stream, tasks, hist >>

\* An error of the proxy or the network: the request is not served, or it is
\* and the answer is lost.
ServeFails(f) ==
    /\ f \in reqs /\ f.st \in {"sent", "ok"} /\ Fault
    /\ Replace(f, [f EXCEPT !.st = "failed"])
    /\ UNCHANGED << page, jobs, stream, tasks, stored >>

\* The stream's goroutine takes a report: Fail, or the first half of
\* Complete.  A job the store does not know is left alone.
TakeReport(s) ==
    /\ tasks[s].st = "reported"
    /\ IF jobs[s].status = "none"
       THEN tasks' = [tasks EXCEPT ![s] = NoTask] /\ UNCHANGED jobs
       ELSE IF tasks[s].ok
       THEN /\ jobs' = [jobs EXCEPT ![s].status = "completed"]
            /\ tasks' = [tasks EXCEPT ![s].st = "storing"]
       ELSE /\ jobs' = [jobs EXCEPT ![s].status = "failed"]
            /\ tasks' = [tasks EXCEPT ![s] = NoTask]
    /\ UNCHANGED << page, reqs, stream, stored, hist >>

\* The second half of Complete, which holds the lock in between.
StoreResults(s) ==
    /\ tasks[s].st = "storing"
    /\ jobs' = [jobs EXCEPT ![s].results = tasks[s].found]
    /\ tasks' = [tasks EXCEPT ![s] = NoTask]
    /\ UNCHANGED << page, reqs, stream, stored, hist >>

-----------------------------------------------------------------------------
(* The connector.                                                          *)

\* execute_scan ends with what it found or with an error.
ExecuteScan(s) ==
    /\ tasks[s].st = "scan"
    /\ \/ \E found \in SUBSET Hits : tasks' = [tasks EXCEPT ![s] = [st |-> "reported", ok |-> TRUE, found |-> found]]
       \/ tasks' = [tasks EXCEPT ![s].st = "reported"]
    /\ UNCHANGED << page, reqs, jobs, stream, stored, hist >>

\* The stream breaks: a report for it goes nowhere, and none is sent again.
Drop ==
    /\ stream /\ Fault
    /\ stream' = FALSE
    /\ tasks' = [s \in Scans |-> IF tasks[s].st = "storing" THEN tasks[s] ELSE NoTask]
    /\ UNCHANGED << page, reqs, jobs, stored >>

Redial ==
    /\ ~stream /\ stream' = TRUE
    /\ UNCHANGED << page, reqs, jobs, tasks, stored, hist >>

\* The controller restarts: the store is in memory.
Restart ==
    /\ Fault
    /\ stream' = FALSE
    /\ tasks' = [s \in Scans |-> NoTask]
    /\ jobs' = [s \in Scans |-> NoJob]
    /\ reqs' = { IF f.st \in {"sent", "marking"} THEN [f EXCEPT !.st = "failed"] ELSE f : f \in reqs }
    /\ UNCHANGED << page, stored >>

-----------------------------------------------------------------------------
Init ==
    /\ open = FALSE /\ mount = 0 /\ scanning = FALSE /\ shown = NoJob /\ added = {}
    /\ ref = [m \in Mounts |-> 0] /\ intervals = {} /\ reqs = {}
    /\ jobs = [s \in Scans |-> NoJob]
    /\ stream = TRUE /\ tasks = [s \in Scans |-> NoTask] /\ stored = [h \in Hits |-> 0]
    /\ hist = [asked |-> 0, adds |-> 0, faults |-> 0, overlaps |-> 0,
               left |-> {}, raced |-> {}]

User == OpenPage \/ ClosePage \/ StartScan \/ \E h \in Hits : AddResource(h)
Timer == \E i \in intervals : Poll(i[1], i[2])
Answer == \E f \in reqs : StartAnswer(f) \/ PollAnswer(f) \/ AddAnswer(f)
Controller == \/ \E f \in reqs : SendCommand(f) \/ MarkInProgress(f) \/ ServePoll(f) \/ ServeAdd(f)
              \/ \E s \in Scans : TakeReport(s) \/ StoreResults(s)
Connector == Redial \/ \E s \in Scans : ExecuteScan(s)
Faulty == Drop \/ Restart \/ \E f \in reqs : ServeFails(f)

Next == User \/ Timer \/ Answer \/ Controller \/ Connector \/ Faulty

\* One step of the request with which scan s was started, or of one of its
\* polls.
StartStep(s) == \E f \in reqs : f.s = s /\ (SendCommand(f) \/ MarkInProgress(f) \/ StartAnswer(f))
PollStep(s, n) == \E f \in reqs : f.s = s /\ f.n = n /\ (ServePoll(f) \/ PollAnswer(f))

\* Timers fire, requests are served and answered, scans end and reports are
\* taken, each by a process or goroutine of its own; users and faults are free.
Fairness ==
    \A s \in Scans :
        /\ WF_vars(\E m \in Mounts : Poll(m, s))
        /\ WF_vars(StartStep(s)) /\ \A n \in Slots : WF_vars(PollStep(s, n))
        /\ WF_vars(ExecuteScan(s)) /\ WF_vars(TakeReport(s) \/ StoreResults(s))

Spec == Init /\ [][Next]_vars
FairSpec == Spec /\ Fairness

-----------------------------------------------------------------------------
(* Properties.                                                             *)

Jobs == [scan : Scans \cup {0}, status : {"none", "pending", "in_progress"} \cup Final, results : SUBSET Hits]

TypeOK ==
    /\ open \in BOOLEAN /\ scanning \in BOOLEAN /\ mount \in 0 .. MaxMounts
    /\ shown \in Jobs /\ added \subseteq Hits
    /\ ref \in [Mounts -> Scans \cup {0}] /\ intervals \subseteq Mounts \X Scans
    /\ jobs \in [Scans -> Jobs]
    /\ stored \in [Hits -> 0 .. MaxAdds]

\* A scan whose results arrived counts as completed, unless its report
\* overtook MarkInProgress: the job is then in progress for good, and
\* /discovery/results leaves its results out (handlers_discovery.go 81-90).
ReportKept == \A s \in Scans : (jobs[s].results # {} /\ s \notin hist.raced) => jobs[s].status = "completed"

\* While no tick met an unanswered one, a timer belongs to the open page, or to
\* one that was left while its start was outstanding (NetworkDiscoveryPage.tsx
\* 38-48 and 93).  After such a tick a second final answer can enable the
\* button under a start that is outstanding, and of the timers of two starts
\* pollRef holds one only.
PollersOwned ==
    hist.overlaps = 0 => \A i \in intervals : (open /\ i[1] = mount) \/ i[1] \in hist.left

\* While no tick met an unanswered one, pollRef knows every timer: none can
\* outlive the clean-up or the end of its scan.
RefKnowsTimers == hist.overlaps = 0 => \A i \in intervals : ref[i[1]] = i[2]

\* Every timer is known to somebody who can stop it.
TimersOK == TypeOK /\ PollersOwned /\ RefKnowsTimers

\* While no tick met an unanswered one, the page shows the scan asked for
\* last, never an earlier one's status or results.
ShowsLastScan == (open /\ hist.overlaps = 0 /\ shown # NoJob) => shown.scan = hist.asked

\* A page that shows a completed scan shows what the connector found, or
\* nothing at all when the poll read the job in the middle of Complete:
\* never a part of the results or those of another scan.
ShowsResults ==
    (open /\ shown.status = "completed" /\ jobs[shown.scan].status = "completed")
        => shown.results \in {{}, jobs[shown.scan].results}

\* "Added" on a row means that the controller has the resource.
AddedMeansStored == open => \A h \in added : stored[h] > 0

\* What the page says of a scan, and of what was added from it, is true of the
\* controller's store.
PageIsTrue == ReportKept /\ ShowsLastScan /\ ShowsResults /\ AddedMeansStored

\* The start button comes back, unless a fault or a report that overtook
\* MarkInProgress leaves the job in progress for good.
Trouble == hist.faults > 0 \/ hist.raced # {}
ScanEnds == scanning ~> (~scanning \/ ~open \/ Trouble)

\* Every timer ends with its scan, also one whose page is gone.
TimersEnd == intervals # {} ~> (intervals = {} \/ Trouble \/ hist.overlaps > 0)

\* A scan comes to its end, on the page and behind it.
ScansEnd == ScanEnds /\ TimersEnd
=============================================================================
