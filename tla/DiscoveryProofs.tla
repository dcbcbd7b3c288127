---------------------------- MODULE DiscoveryProofs ----------------------------
(***************************************************************************)
(* Proofs about Discovery for any hits and bounds.                         *)
(***************************************************************************)
EXTENDS Discovery, FiniteSetTheorems, TLAPS

\* A request; polls are told apart by any value.
ReqOK(f) ==
    /\ f \in [kind : {"start", "poll", "add"}, m : Mounts, s : Scans \cup {0}, n : {f.n}, h : SUBSET Hits,
              st : {"sent", "marking", "ok", "failed"}, got : Jobs]
    /\ f.kind \in {"start", "poll"} => f.s \in Scans
    /\ f.st = "marking" => f.kind = "start"

Tasks == [st : {"none", "scan", "reported", "storing"}, ok : BOOLEAN, found : SUBSET Hits]
Histories == [asked : 0 .. MaxScans, adds : 0 .. MaxAdds, faults : Nat, overlaps : Nat,
              left : SUBSET Mounts, raced : SUBSET Scans]

\* The shape of the whole state.
Shapes ==
    /\ TypeOK /\ (open => mount \in Mounts) /\ stream \in BOOLEAN
    /\ \A f \in reqs : ReqOK(f)
    /\ tasks \in [Scans -> Tasks] /\ hist \in Histories

\* The requests to add hit h that have not been served.
Unserved(h) == { f \in reqs : f.kind = "add" /\ f.st = "sent" /\ h \in f.h }
AddsCounted ==
    \A h \in Hits : IsFiniteSet(Unserved(h)) /\ stored[h] + Cardinality(Unserved(h)) <= hist.adds

-----------------------------------------------------------------------------
(* Timers.                                                                 *)

\* Requests and timers are of pages that were opened, starts of the open page
\* or of one that was left too early.
Dated ==
    /\ \A f \in reqs : f.m <= mount
    /\ \A i \in intervals : i[1] <= mount
    /\ \A f \in reqs : f.kind = "start" => (open /\ f.m = mount) \/ f.m \in hist.left

\* f starts or polls a scan of page instance m.
Busy(f, m) == f.kind \in {"start", "poll"} /\ f.m = m

\* A page instance is starting one scan or polling one: with a start
\* outstanding there is no timer and no other request; a timer has one poll
\* outstanding at most, for its own scan; all are of the scan asked for last.
OneAtATime ==
    /\ \A f, g \in reqs : Busy(f, f.m) /\ Busy(g, f.m) => f = g
    /\ \A f \in reqs, i \in intervals : Busy(f, i[1]) => f.kind = "poll" /\ f.s = i[2]
    /\ (open /\ ~scanning) => /\ \A f \in reqs : ~Busy(f, mount)
                              /\ \A i \in intervals : i[1] # mount
    /\ open => /\ \A f \in reqs : Busy(f, mount) => f.s = hist.asked
               /\ \A i \in intervals : i[1] = mount => i[2] = hist.asked

Sequential == hist.overlaps = 0 => OneAtATime

TimerInv == Dated /\ Sequential /\ PollersOwned /\ RefKnowsTimers

-----------------------------------------------------------------------------
(* What is known of a scan.                                                *)

\* The scans after the last have no job; a job without status has no task; a
\* task that is not over has stored nothing, and one that is being stored is
\* completed or was raced.
JobsOK ==
    \A s \in Scans : /\ jobs[s].status # "none" => jobs[s].scan = s /\ s <= hist.asked
                     /\ jobs[s].status = "none" => tasks[s].st = "none" /\ jobs[s].results = {}
                     /\ tasks[s].st # "none" => jobs[s].results = {}
                     /\ tasks[s].st = "storing" => jobs[s].status = "completed" \/ s \in hist.raced

\* A scan is asked for once; a start that is not served has no job, and one
\* that is about to mark its job has one.
StartsOK ==
    /\ \A f \in reqs :
          f.kind = "start" => /\ f.s <= hist.asked
                              /\ f.st = "sent" => jobs[f.s].status = "none"
                              /\ f.st = "marking" => jobs[f.s].status # "none"
    /\ \A f, g \in reqs : f.kind = "start" /\ g.kind = "start" /\ f.s = g.s => f = g

JobInv == JobsOK /\ StartsOK

\* A snapshot of a job says which job it is of; if it has results, nothing more
\* happens to them but a restart.
Snapshot(x) ==
    x.status # "none" =>
        /\ x.scan \in Scans /\ x.scan <= hist.asked
        /\ \A f \in reqs : f.kind = "start" /\ f.s = x.scan => f.st # "sent"
        /\ (x.status = "completed" /\ x.results # {}) =>
              /\ tasks[x.scan].st = "none"
              /\ jobs[x.scan].status = "none" \/ jobs[x.scan].results = x.results

\* The page's copy and the answers under way are snapshots; those of a poll are
\* of its scan.
SnapshotInv ==
    /\ Snapshot(shown) /\ (shown # NoJob => shown.status # "none")
    /\ \A f \in reqs : /\ f.kind = "poll" => (f.st = "ok" => f.got.scan = f.s /\ f.got.status # "none")
                       /\ Snapshot(f.got)

\* A resource whose addition was confirmed is stored.
ConfirmedStored ==
    \A f \in reqs : f.kind = "add" /\ f.st = "ok" => \A h \in f.h : stored[h] > 0

PageInv == JobInv /\ SnapshotInv /\ ConfirmedStored /\ ReportKept /\ ShowsLastScan /\ AddedMeansStored

IInv == Shapes /\ AddsCounted /\ TimerInv /\ PageInv

-----------------------------------------------------------------------------
(* The shape of the state.                                                 *)

LEMMA JobFacts == NoJob \in Jobs /\ (\A s \in Scans : Pending(s) \in Jobs) /\ NoTask \in Tasks
  BY DEF NoJob, Pending, Jobs, Final, NoTask, Tasks

LEMMA TaskFacts ==
    ASSUME NEW t \in Tasks, NEW st \in {"none", "scan", "reported", "storing"}
    PROVE  [t EXCEPT !.st = st] \in Tasks
  BY DEF Tasks

LEMMA FoundFacts == ASSUME NEW found \in SUBSET Hits PROVE [st |-> "reported", ok |-> TRUE, found |-> found] \in Tasks
  BY DEF Tasks

LEMMA NewRequest ==
    ASSUME NEW kind \in {"start", "poll", "add"}, NEW m \in Mounts, NEW s \in Scans \cup {0}, NEW n,
           NEW h \in SUBSET Hits, kind # "add" => s \in Scans
    PROVE  ReqOK(Request(kind, m, s, n, h))
  BY JobFacts DEF ReqOK, Request

\* A request is served: its state and perhaps its answer change.
LEMMA ServedRequest ==
    ASSUME NEW f, ReqOK(f), NEW st \in {"sent", "marking", "ok", "failed"}, NEW got \in Jobs,
           st = "marking" => f.kind = "start"
    PROVE  /\ ReqOK([f EXCEPT !.st = st]) /\ ReqOK([f EXCEPT !.st = st, !.got = got])
           /\ [f EXCEPT !.st = st].st = st
           /\ [f EXCEPT !.st = st, !.got = got].st = st /\ [f EXCEPT !.st = st, !.got = got].got = got
           /\ [f EXCEPT !.st = st].got = f.got
           /\ \A g \in {[f EXCEPT !.st = st], [f EXCEPT !.st = st, !.got = got]} :
                 g.kind = f.kind /\ g.m = f.m /\ g.s = f.s /\ g.n = f.n /\ g.h = f.h
  BY DEF ReqOK

\* A request to add that is not served leaves room for what it will store.
LEMMA RoomToAdd ==
    ASSUME Shapes, AddsCounted, NEW f \in reqs, f.kind = "add", f.st = "sent", NEW h \in f.h
    PROVE  h \in Hits /\ stored[h] < MaxAdds
<1>1. h \in Hits /\ f \in Unserved(h)
  BY DEF Shapes, ReqOK, Unserved
<1>2. IsFiniteSet(Unserved(h)) /\ stored[h] + Cardinality(Unserved(h)) <= hist.adds
  BY <1>1 DEF AddsCounted
<1>3. Cardinality(Unserved(h)) \in Nat /\ Cardinality(Unserved(h)) # 0
  BY <1>1, <1>2, FS_CardinalityType, FS_EmptySet
<1>4. stored[h] \in 0 .. MaxAdds /\ hist.adds \in 0 .. MaxAdds
  BY <1>1 DEF Shapes, TypeOK, Histories
<1>5. QED
  BY <1>1, <1>2, <1>3, <1>4, DiscoveryAssumption

\* The counters and the sets of a history each keep their range.
LEMMA HistoryFacts ==
    ASSUME hist \in Histories
    PROVE  /\ hist.asked < MaxScans => [hist EXCEPT !.asked = @ + 1] \in Histories
           /\ hist.adds < MaxAdds => [hist EXCEPT !.adds = @ + 1] \in Histories
           /\ [hist EXCEPT !.faults = @ + 1] \in Histories
           /\ [hist EXCEPT !.overlaps = @ + 1] \in Histories
           /\ \A S \in SUBSET Mounts : [hist EXCEPT !.left = @ \cup S] \in Histories
           /\ \A s \in Scans : [hist EXCEPT !.raced = @ \cup {s}] \in Histories
<1>1. hist.asked < MaxScans => hist.asked + 1 \in 0 .. MaxScans
  BY DiscoveryAssumption DEF Histories
<1>2. hist.adds < MaxAdds => hist.adds + 1 \in 0 .. MaxAdds
  BY DiscoveryAssumption DEF Histories
<1>3. hist.faults + 1 \in Nat /\ hist.overlaps + 1 \in Nat
  BY DEF Histories
<1>4. (\A S \in SUBSET Mounts : hist.left \cup S \in SUBSET Mounts) /\ \A s \in Scans : hist.raced \cup {s} \in SUBSET Scans
  BY DEF Histories
<1>5. QED
  BY <1>1, <1>2, <1>3, <1>4 DEF Histories

LEMMA ShapesStep == ASSUME Shapes, AddsCounted, Next PROVE Shapes'
<1> USE DEF page
<1>h. hist \in Histories
  BY DEF Shapes
<1>1. CASE OpenPage
  <2>1. mount' \in Mounts /\ mount' \in 0 .. MaxMounts
    BY <1>1, DiscoveryAssumption DEF OpenPage, Shapes, TypeOK, Mounts
  <2>2. QED
    BY <1>1, <2>1, JobFacts DEF OpenPage, Shapes, TypeOK
<1>2. CASE ClosePage
  <2>1. { f.m : f \in { r \in reqs : r.kind = "start" /\ r.m = mount } } \in SUBSET Mounts
    BY DEF Shapes, ReqOK
  <2>2. hist' \in Histories
    BY <1>2, <1>h, <2>1, HistoryFacts DEF ClosePage
  <2>3. QED
    BY <1>2, <2>2 DEF ClosePage, Shapes, TypeOK
<1>3. CASE StartScan
  <2>1. CASE UNCHANGED << scanning, reqs, hist >>
    BY <1>3, <2>1, JobFacts DEF StartScan, Shapes, TypeOK
  <2>2. CASE hist.asked < MaxScans /\ scanning' = TRUE /\ hist' = [hist EXCEPT !.asked = @ + 1]
             /\ reqs' = reqs \cup {Request("start", mount, hist.asked + 1, 0, {})}
    <3>1. mount \in Mounts /\ hist.asked + 1 \in Scans
      BY <1>3, <1>h, <2>2, DiscoveryAssumption DEF StartScan, CanStart, Shapes, Histories, Scans
    <3>2. ReqOK(Request("start", mount, hist.asked + 1, 0, {}))
      BY <3>1, NewRequest
    <3>3. hist' \in Histories
      BY <1>h, <2>2, HistoryFacts
    <3>4. QED
      BY <1>3, <2>2, <3>2, <3>3, JobFacts DEF StartScan, Shapes, TypeOK
  <2>3. QED
    BY <1>3, <2>1, <2>2 DEF StartScan
<1>4. ASSUME NEW h \in Hits, AddResource(h) PROVE Shapes'
  <2>1. mount \in Mounts
    BY <1>4 DEF AddResource, Addable, Shapes
  <2>2. ReqOK(Request("add", mount, 0, hist.adds + 1, {h}))
    BY <2>1, NewRequest
  <2>3. hist' \in Histories
    BY <1>4, <1>h, HistoryFacts DEF AddResource
  <2>4. QED
    BY <1>4, <2>2, <2>3 DEF AddResource, Shapes, TypeOK
<1>5. ASSUME NEW i \in intervals, Poll(i[1], i[2]) PROVE Shapes'
  <2>1. i[1] \in Mounts /\ i[2] \in Scans
    BY DEF Shapes, TypeOK
  <2>2. PICK n : reqs' = reqs \cup {Request("poll", i[1], i[2], n, {})}
    BY <1>5 DEF Poll
  <2>3. ReqOK(Request("poll", i[1], i[2], n, {}))
    BY <2>1, NewRequest
  <2>4. hist' \in Histories
    BY <1>5, <1>h, HistoryFacts DEF Poll
  <2>5. QED
    BY <1>5, <2>2, <2>3, <2>4 DEF Poll, Shapes, TypeOK
<1>6. ASSUME NEW f \in reqs, StartAnswer(f) PROVE Shapes'
  <2>1. f.m \in Mounts /\ f.s \in Scans
    BY <1>6 DEF StartAnswer, Shapes, ReqOK
  <2>2. CASE f.st = "ok"
    BY <1>6, <2>1, <2>2, JobFacts DEF StartAnswer, Shapes, TypeOK
  <2>3. CASE f.st # "ok"
    <3>1. scanning' \in BOOLEAN
      BY <1>6, <2>3 DEF StartAnswer
    <3>2. QED
      BY <1>6, <2>3, <3>1 DEF StartAnswer, Shapes, TypeOK
  <2>4. QED
    BY <2>2, <2>3
<1>7. ASSUME NEW f \in reqs, PollAnswer(f) PROVE Shapes'
  <2>1. f.m \in Mounts /\ f.got \in Jobs
    BY <1>7 DEF PollAnswer, Shapes, ReqOK
  <2>2. QED
    BY <1>7, <2>1 DEF PollAnswer, Shapes, TypeOK
<1>8. ASSUME NEW f \in reqs, AddAnswer(f) PROVE Shapes'
  <2>1. f.h \subseteq Hits
    BY DEF Shapes, ReqOK
  <2>2. QED
    BY <1>8, <2>1 DEF AddAnswer, Shapes, TypeOK
<1>9. ASSUME NEW f \in reqs, SendCommand(f) PROVE Shapes'
  <2>1. f.s \in Scans /\ ReqOK(f) /\ NoJob \in Jobs
    BY <1>9, JobFacts DEF SendCommand, Shapes, ReqOK
  <2>2. ReqOK([f EXCEPT !.st = "marking"]) /\ ReqOK([f EXCEPT !.st = "ok"])
    BY <1>9, <2>1, ServedRequest DEF SendCommand
  <2>3. jobs' \in [Scans -> Jobs]
    BY <1>9, <2>1 DEF SendCommand, Shapes, TypeOK, Pending, Jobs, Final
  <2>4. tasks' \in [Scans -> Tasks]
    BY <1>9, <2>1 DEF SendCommand, Shapes, NoTask, Tasks
  <2>5. QED
    BY <1>9, <2>2, <2>3, <2>4 DEF SendCommand, Replace, Shapes, TypeOK
<1>10. ASSUME NEW f \in reqs, MarkInProgress(f) PROVE Shapes'
  <2>1. f.s \in Scans /\ ReqOK(f) /\ NoJob \in Jobs
    BY <1>10, JobFacts DEF MarkInProgress, Shapes, ReqOK
  <2>2. ReqOK([f EXCEPT !.st = "ok"])
    BY <2>1, ServedRequest
  <2>3. jobs' \in [Scans -> Jobs]
    BY <1>10, <2>1 DEF MarkInProgress, Shapes, TypeOK, Jobs
  <2>4. hist' \in Histories
    BY <1>10, <2>1, <1>h DEF MarkInProgress, Histories
  <2>5. QED
    BY <1>10, <2>2, <2>3, <2>4 DEF MarkInProgress, Replace, Shapes, TypeOK
<1>11. ASSUME NEW f \in reqs, ServePoll(f) PROVE Shapes'
  <2>1. f.s \in Scans /\ ReqOK(f) /\ jobs[f.s] \in Jobs
    BY <1>11 DEF ServePoll, Shapes, ReqOK, TypeOK
  <2>2. ReqOK([f EXCEPT !.st = "failed"]) /\ ReqOK([f EXCEPT !.st = "ok", !.got = jobs[f.s]])
    BY <2>1, ServedRequest
  <2>3. QED
    BY <1>11, <2>2 DEF ServePoll, Replace, Shapes, TypeOK
<1>12. ASSUME NEW f \in reqs, ServeAdd(f) PROVE Shapes'
  <2>1. ReqOK(f) /\ NoJob \in Jobs
    BY JobFacts DEF Shapes
  <2>2. ReqOK([f EXCEPT !.st = "ok"])
    BY <2>1, ServedRequest
  <2>3. \A h \in Hits : stored[h] \in 0 .. MaxAdds /\ (h \in f.h => stored[h] < MaxAdds)
    BY <1>12, RoomToAdd DEF ServeAdd, Shapes, TypeOK
  <2>4. \A h \in Hits : stored[h] + (IF h \in f.h THEN 1 ELSE 0) \in 0 .. MaxAdds
    BY <2>3, DiscoveryAssumption
  <2>5. stored' \in [Hits -> 0 .. MaxAdds]
    BY <1>12, <2>4 DEF ServeAdd
  <2>6. QED
    BY <1>12, <2>2, <2>5 DEF ServeAdd, Replace, Shapes, TypeOK
<1>13. ASSUME NEW f \in reqs, ServeFails(f) PROVE Shapes'
  <2>1. ReqOK(f) /\ NoJob \in Jobs
    BY JobFacts DEF Shapes
  <2>2. ReqOK([f EXCEPT !.st = "failed"])
    BY <2>1, ServedRequest
  <2>3. hist' \in Histories
    BY <1>13, <1>h, HistoryFacts DEF ServeFails, Fault
  <2>4. QED
    BY <1>13, <2>2, <2>3 DEF ServeFails, Replace, Shapes, TypeOK
<1>14. ASSUME NEW s \in Scans, TakeReport(s) PROVE Shapes'
  <2>1. jobs' \in [Scans -> Jobs]
    BY <1>14 DEF TakeReport, Shapes, TypeOK, Jobs, Final
  <2>2. tasks' \in [Scans -> Tasks]
    <3>1. tasks \in [Scans -> Tasks] /\ NoTask \in Tasks
      BY JobFacts DEF Shapes
    <3>2. [tasks[s] EXCEPT !.st = "storing"] \in Tasks
      BY <3>1, TaskFacts
    <3>3. tasks' = tasks \/ tasks' = [tasks EXCEPT ![s] = NoTask]
          \/ tasks' = [tasks EXCEPT ![s] = [tasks[s] EXCEPT !.st = "storing"]]
      BY <1>14 DEF TakeReport
    <3>4. QED
      BY <3>1, <3>2, <3>3
  <2>3. QED
    BY <1>14, <2>1, <2>2 DEF TakeReport, Shapes, TypeOK
<1>15. ASSUME NEW s \in Scans, StoreResults(s) PROVE Shapes'
  BY <1>15, JobFacts DEF StoreResults, Shapes, TypeOK, Jobs, Tasks
<1>16. ASSUME NEW s \in Scans, ExecuteScan(s) PROVE Shapes'
  <2>1. tasks' \in [Scans -> Tasks]
    <3>1. tasks \in [Scans -> Tasks]
      BY DEF Shapes
    <3>2. [tasks[s] EXCEPT !.st = "reported"] \in Tasks
      BY <3>1, TaskFacts
    <3>3. \/ \E found \in SUBSET Hits : tasks' = [tasks EXCEPT ![s] = [st |-> "reported", ok |-> TRUE, found |-> found]]
          \/ tasks' = [tasks EXCEPT ![s] = [tasks[s] EXCEPT !.st = "reported"]]
      BY <1>16 DEF ExecuteScan
    <3>4. \E t \in Tasks : tasks' = [tasks EXCEPT ![s] = t]
      BY <3>2, <3>3, FoundFacts
    <3>5. QED
      BY <3>1, <3>4
  <2>2. QED
    BY <1>16, <2>1 DEF ExecuteScan, Shapes, TypeOK
<1>17. CASE Redial
  BY <1>17 DEF Redial, Shapes, TypeOK
<1>18. CASE Drop
  <2>1. hist' \in Histories
    BY <1>18, <1>h, HistoryFacts DEF Drop, Fault
  <2>2. QED
    BY <1>18, <2>1, JobFacts DEF Drop, Shapes, TypeOK
<1>19. CASE Restart
  <2>1. hist' \in Histories
    BY <1>19, <1>h, HistoryFacts DEF Restart, Fault
  <2>2. \A f \in reqs : ReqOK(f) /\ ReqOK([f EXCEPT !.st = "failed"])
    BY JobFacts, ServedRequest DEF Shapes
  <2>3. \A f \in reqs' : ReqOK(f)
    BY <1>19, <2>2 DEF Restart
  <2>4. QED
    BY <1>19, <2>1, <2>3, JobFacts DEF Restart, Shapes, TypeOK
<1>20. QED
  BY <1>1, <1>2, <1>3, <1>4, <1>5, <1>6, <1>7, <1>8, <1>9, <1>10, <1>11, <1>12, <1>13, <1>14, <1>15, <1>16, <1>17, <1>18, <1>19
     DEF Next, User, Timer, Answer, Controller, Connector, Faulty

-----------------------------------------------------------------------------
(* The count of additions.                                                 *)

\* No request to add is new: what is not served yet was not before.
NoNewAdds == \A f \in reqs' : f.kind = "add" /\ f.st = "sent" => f \in reqs

LEMMA CountKeeps ==
    ASSUME Shapes, AddsCounted, NoNewAdds, stored' = stored, hist'.adds = hist.adds
    PROVE  AddsCounted'
<1>1. SUFFICES ASSUME NEW h \in Hits
               PROVE  IsFiniteSet(Unserved(h)') /\ stored[h] + Cardinality(Unserved(h)') <= hist.adds
  BY DEF AddsCounted
<1>2. Unserved(h)' \subseteq Unserved(h)
  BY DEF Unserved, NoNewAdds
<1>3. IsFiniteSet(Unserved(h)) /\ stored[h] + Cardinality(Unserved(h)) <= hist.adds
  BY DEF AddsCounted
<1>4. IsFiniteSet(Unserved(h)') /\ Cardinality(Unserved(h)') <= Cardinality(Unserved(h))
  BY <1>2, <1>3, FS_Subset
<1>5. Cardinality(Unserved(h)') \in Nat /\ Cardinality(Unserved(h)) \in Nat
  BY <1>3, <1>4, FS_CardinalityType
<1>6. stored[h] \in Nat /\ hist.adds \in Nat
  BY DiscoveryAssumption DEF Shapes, TypeOK, Histories
<1>7. QED
  BY <1>3, <1>4, <1>5, <1>6

LEMMA CountAdds == ASSUME Shapes, AddsCounted, NEW h \in Hits, AddResource(h) PROVE AddsCounted'
<1> DEFINE r == Request("add", mount, 0, hist.adds + 1, {h})
<1>1. reqs' = reqs \cup {r} /\ stored' = stored /\ hist'.adds = hist.adds + 1
  BY DEF AddResource, Shapes, Histories
<1>2. PICK q : q = r
  OBVIOUS
<1>3. SUFFICES ASSUME NEW x \in Hits
               PROVE  IsFiniteSet(Unserved(x)') /\ stored[x] + Cardinality(Unserved(x)') <= hist.adds + 1
  BY <1>1 DEF AddsCounted
<1>4. Unserved(x)' \subseteq Unserved(x) \cup {q}
  BY <1>1, <1>2 DEF Unserved
<1>5. IsFiniteSet(Unserved(x)) /\ stored[x] + Cardinality(Unserved(x)) <= hist.adds
  BY DEF AddsCounted
<1>6. Cardinality(Unserved(x)) \in Nat
  BY <1>5, FS_CardinalityType
<1>7. IsFiniteSet(Unserved(x) \cup {q}) /\ Cardinality(Unserved(x) \cup {q}) <= Cardinality(Unserved(x)) + 1
  BY <1>5, <1>6, FS_AddElement
<1>8. IsFiniteSet(Unserved(x)') /\ Cardinality(Unserved(x)') <= Cardinality(Unserved(x) \cup {q})
  BY <1>4, <1>7, FS_Subset
<1>9. Cardinality(Unserved(x)') \in Nat /\ Cardinality(Unserved(x) \cup {q}) \in Nat
  BY <1>7, <1>8, FS_CardinalityType
<1>10. stored[x] \in Nat /\ hist.adds \in Nat
  BY DiscoveryAssumption DEF Shapes, TypeOK, Histories
<1>11. QED
  BY <1>5, <1>6, <1>7, <1>8, <1>9, <1>10

LEMMA CountServes == ASSUME Shapes, AddsCounted, NEW f \in reqs, ServeAdd(f) PROVE AddsCounted'
<1>1. SUFFICES ASSUME NEW h \in Hits
               PROVE  IsFiniteSet(Unserved(h)') /\ stored'[h] + Cardinality(Unserved(h)') <= hist.adds
  BY DEF AddsCounted, ServeAdd
<1>2. IsFiniteSet(Unserved(h)) /\ stored[h] + Cardinality(Unserved(h)) <= hist.adds
  BY DEF AddsCounted
<1>3. PICK g : g = [f EXCEPT !.st = "ok"]
  OBVIOUS
<1>4. g.st = "ok" /\ reqs' = (reqs \ {f}) \cup {g}
  BY <1>3 DEF Shapes, ReqOK, ServeAdd, Replace
<1>5. Unserved(h)' \subseteq Unserved(h) \ {f}
  BY <1>4 DEF Unserved
<1>6. IsFiniteSet(Unserved(h) \ {f})
      /\ Cardinality(Unserved(h) \ {f}) = IF f \in Unserved(h) THEN Cardinality(Unserved(h)) - 1 ELSE Cardinality(Unserved(h))
  BY <1>2, FS_RemoveElement
<1>7. IsFiniteSet(Unserved(h)') /\ Cardinality(Unserved(h)') <= Cardinality(Unserved(h) \ {f})
  BY <1>5, <1>6, FS_Subset
<1>8. Cardinality(Unserved(h)') \in Nat /\ Cardinality(Unserved(h)) \in Nat
  BY <1>2, <1>7, FS_CardinalityType
<1>9. stored[h] \in Nat /\ hist.adds \in Nat /\ stored'[h] = stored[h] + (IF h \in f.h THEN 1 ELSE 0)
  BY DiscoveryAssumption DEF Shapes, TypeOK, Histories, ServeAdd
<1>10. (h \in f.h) <=> f \in Unserved(h)
  BY DEF Unserved, ServeAdd
<1>11. QED
  BY <1>2, <1>6, <1>7, <1>8, <1>9, <1>10

LEMMA CountStep == ASSUME Shapes, AddsCounted, Next PROVE AddsCounted'
<1> USE DEF page, NoNewAdds
<1>r. ASSUME NEW f \in reqs, NEW g, g.st # "sent" \/ g.kind # "add", Replace(f, g), stored' = stored, hist'.adds = hist.adds
      PROVE  AddsCounted'
  BY <1>r, CountKeeps DEF Replace
<1>s. ASSUME NEW f \in reqs, NEW st \in {"sent", "marking", "ok", "failed"}, NEW got
      PROVE  [f EXCEPT !.st = st].st = st /\ [f EXCEPT !.st = st, !.got = got].st = st
  BY <1>s DEF Shapes, ReqOK
<1>h. hist \in Histories
  BY DEF Shapes
<1>1. CASE OpenPage
  BY <1>1, CountKeeps DEF OpenPage
<1>2. CASE ClosePage
  BY <1>2, <1>h, CountKeeps DEF ClosePage, Histories
<1>3. CASE StartScan
  BY <1>3, <1>h, CountKeeps DEF StartScan, Histories, Request
<1>4. ASSUME NEW h \in Hits, AddResource(h) PROVE AddsCounted'
  BY <1>4, CountAdds
<1>5. ASSUME NEW i \in intervals, Poll(i[1], i[2]) PROVE AddsCounted'
  BY <1>5, <1>h, CountKeeps DEF Poll, Histories, Request
<1>6. ASSUME NEW f \in reqs, StartAnswer(f) PROVE AddsCounted'
  BY <1>6, CountKeeps DEF StartAnswer
<1>7. ASSUME NEW f \in reqs, PollAnswer(f) PROVE AddsCounted'
  BY <1>7, CountKeeps DEF PollAnswer
<1>8. ASSUME NEW f \in reqs, AddAnswer(f) PROVE AddsCounted'
  BY <1>8, CountKeeps DEF AddAnswer
<1>9. ASSUME NEW f \in reqs, SendCommand(f) PROVE AddsCounted'
  BY <1>9, <1>r, <1>s DEF SendCommand
<1>10. ASSUME NEW f \in reqs, MarkInProgress(f) PROVE AddsCounted'
  BY <1>10, <1>r, <1>s, <1>h DEF MarkInProgress, Histories
<1>11. ASSUME NEW f \in reqs, ServePoll(f) PROVE AddsCounted'
  BY <1>11, <1>r, <1>s DEF ServePoll
<1>12. ASSUME NEW f \in reqs, ServeAdd(f) PROVE AddsCounted'
  BY <1>12, CountServes
<1>13. ASSUME NEW f \in reqs, ServeFails(f) PROVE AddsCounted'
  BY <1>13, <1>r, <1>s, <1>h DEF ServeFails, Fault, Histories
<1>14. ASSUME NEW s \in Scans, TakeReport(s) \/ StoreResults(s) \/ ExecuteScan(s) PROVE AddsCounted'
  BY <1>14, CountKeeps DEF TakeReport, StoreResults, ExecuteScan
<1>15. CASE Redial
  BY <1>15, CountKeeps DEF Redial
<1>16. CASE Drop
  BY <1>16, <1>h, CountKeeps DEF Drop, Fault, Histories
<1>17. CASE Restart
  <2>1. \A f \in reqs : [f EXCEPT !.st = "failed"].st = "failed"
    BY <1>s
  <2>2. QED
    BY <1>17, <2>1, <1>h, CountKeeps DEF Restart, Fault, Histories
<1>18. QED
  BY <1>1, <1>2, <1>3, <1>4, <1>5, <1>6, <1>7, <1>8, <1>9, <1>10, <1>11, <1>12, <1>13, <1>14, <1>15, <1>16, <1>17
     DEF Next, User, Timer, Answer, Controller, Connector, Faulty

-----------------------------------------------------------------------------
(* What a step that serves requests leaves alone.                          *)

\* f and g are one request, at two stages of its life.
Alike(f, g) == f.kind = g.kind /\ f.m = g.m /\ f.s = g.s /\ f.h = g.h

\* Every request comes from one there was, and no two from the same.
Derived ==
    \A f, g \in reqs' : \E x, y \in reqs : Alike(f, x) /\ Alike(g, y) /\ (x = y => f = g)

LEMMA DerivedRemove == ASSUME NEW f, reqs' = reqs \ {f} PROVE Derived
  BY DEF Derived, Alike

LEMMA DerivedReplace == ASSUME NEW f \in reqs, NEW g, Alike(g, f), Replace(f, g) PROVE Derived
  BY DEF Derived, Alike, Replace

LEMMA DerivedRestart == ASSUME Shapes, Restart PROVE Derived
<1>1. ASSUME NEW f \in reqs PROVE Alike([f EXCEPT !.st = "failed"], f) /\ Alike(f, f)
  BY <1>1 DEF Shapes, ReqOK, Alike
<1>2. \A f \in reqs' : \E x \in reqs : f = IF x.st \in {"sent", "marking"} THEN [x EXCEPT !.st = "failed"] ELSE x
  BY DEF Restart
<1>3. SUFFICES ASSUME NEW f \in reqs', NEW g \in reqs'
               PROVE  \E x, y \in reqs : Alike(f, x) /\ Alike(g, y) /\ (x = y => f = g)
  BY DEF Derived
<1>4. PICK x \in reqs : f = IF x.st \in {"sent", "marking"} THEN [x EXCEPT !.st = "failed"] ELSE x
  BY <1>2
<1>5. PICK y \in reqs : g = IF y.st \in {"sent", "marking"} THEN [y EXCEPT !.st = "failed"] ELSE y
  BY <1>2
<1>6. Alike(f, x) /\ Alike(g, y)
  BY <1>1, <1>4, <1>5
<1>7. x = y => f = g
  BY <1>4, <1>5
<1>8. QED
  BY <1>6, <1>7

\* A request that is served stays the request it was.
LEMMA ServedAlike ==
    ASSUME Shapes, NEW f \in reqs, NEW st \in {"sent", "marking", "ok", "failed"}, NEW got
    PROVE  Alike([f EXCEPT !.st = st], f) /\ Alike([f EXCEPT !.st = st, !.got = got], f)
  BY DEF Shapes, ReqOK, Alike

\* What the controller, the connector and the network do.
Elsewhere == Controller \/ Connector \/ Faulty

LEMMA ElsewhereDerived == ASSUME Shapes, Elsewhere PROVE Derived
<1> USE DEF page
<1>1. ASSUME reqs' = reqs PROVE Derived
  BY <1>1 DEF Derived, Alike
<1>2. ASSUME NEW f \in reqs, SendCommand(f) PROVE Derived
  BY <1>2, ServedAlike, DerivedReplace DEF SendCommand
<1>3. ASSUME NEW f \in reqs, MarkInProgress(f) PROVE Derived
  BY <1>3, ServedAlike, DerivedReplace DEF MarkInProgress
<1>4. ASSUME NEW f \in reqs, ServePoll(f) PROVE Derived
  BY <1>4, ServedAlike, DerivedReplace DEF ServePoll
<1>5. ASSUME NEW f \in reqs, ServeAdd(f) PROVE Derived
  BY <1>5, ServedAlike, DerivedReplace DEF ServeAdd
<1>6. ASSUME NEW f \in reqs, ServeFails(f) PROVE Derived
  BY <1>6, ServedAlike, DerivedReplace DEF ServeFails
<1>7. ASSUME NEW s \in Scans, TakeReport(s) \/ StoreResults(s) \/ ExecuteScan(s) PROVE Derived
  BY <1>7, <1>1 DEF TakeReport, StoreResults, ExecuteScan
<1>8. CASE Redial \/ Drop
  BY <1>8, <1>1 DEF Redial, Drop
<1>9. CASE Restart
  BY <1>9, DerivedRestart
<1>10. QED
  BY <1>2, <1>3, <1>4, <1>5, <1>6, <1>7, <1>8, <1>9 DEF Elsewhere, Controller, Connector, Faulty

LEMMA ElsewherePage ==
    ASSUME Shapes, Elsewhere
    PROVE  UNCHANGED page /\ hist'.left = hist.left /\ hist'.overlaps = hist.overlaps /\ hist'.asked = hist.asked
<1>1. hist \in Histories
  BY DEF Shapes
<1>2. hist' = hist \/ hist' = [hist EXCEPT !.faults = @ + 1] \/ \E S : hist' = [hist EXCEPT !.raced = S]
  BY DEF Elsewhere, Controller, Connector, Faulty, SendCommand, MarkInProgress, ServePoll, ServeAdd, ServeFails,
         TakeReport, StoreResults, ExecuteScan, Redial, Drop, Restart, Fault
<1>3. UNCHANGED page
  BY DEF Elsewhere, Controller, Connector, Faulty, SendCommand, MarkInProgress, ServePoll, ServeAdd, ServeFails,
         TakeReport, StoreResults, ExecuteScan, Redial, Drop, Restart
<1>4. QED
  BY <1>1, <1>2, <1>3 DEF Histories

-----------------------------------------------------------------------------
(* Timers.                                                                 *)

LEMMA TimerElsewhere == ASSUME Shapes, TimerInv, Elsewhere PROVE TimerInv'
<1>1. UNCHANGED << open, mount, scanning, ref, intervals >>
      /\ hist'.left = hist.left /\ hist'.overlaps = hist.overlaps /\ hist'.asked = hist.asked
  BY ElsewherePage DEF page
<1>2. Derived
  BY ElsewhereDerived
<1>3. \A f \in reqs' : \E x \in reqs : Alike(f, x)
  BY <1>2 DEF Derived
<1>4. Dated'
  BY <1>1, <1>3 DEF TimerInv, Dated, Alike
<1>5. ASSUME OneAtATime PROVE OneAtATime'
  <2>1. \A f, g \in reqs' : Busy(f, f.m) /\ Busy(g, f.m) => f = g
    BY <1>2, <1>5 DEF OneAtATime, Busy, Alike, Derived
  <2>2. \A f \in reqs', i \in intervals' : Busy(f, i[1]) => f.kind = "poll" /\ f.s = i[2]
    BY <1>1, <1>3, <1>5 DEF OneAtATime, Busy, Alike
  <2>3. (open /\ ~scanning)' => /\ \A f \in reqs' : ~Busy(f, mount')
                                /\ \A i \in intervals' : i[1] # mount'
    BY <1>1, <1>3, <1>5 DEF OneAtATime, Busy, Alike
  <2>4. open' => /\ \A f \in reqs' : Busy(f, mount') => f.s = hist'.asked
                 /\ \A i \in intervals' : i[1] = mount' => i[2] = hist'.asked
    BY <1>1, <1>3, <1>5 DEF OneAtATime, Busy, Alike
  <2>5. QED
    BY <2>1, <2>2, <2>3, <2>4 DEF OneAtATime, Busy
<1>6. QED
  BY <1>1, <1>4, <1>5 DEF TimerInv, Sequential, PollersOwned, RefKnowsTimers

LEMMA TimerOpen == ASSUME Shapes, TimerInv, OpenPage PROVE TimerInv'
<1>1. open' = TRUE /\ mount' = mount + 1 /\ mount \in Nat /\ ~open /\ UNCHANGED << ref, intervals, reqs, hist >>
  BY DiscoveryAssumption DEF OpenPage, Shapes, TypeOK
<1>2. (\A f \in reqs : f.m \in Nat /\ f.m <= mount) /\ (\A i \in intervals : i[1] \in Nat /\ i[1] <= mount)
  BY DEF TimerInv, Dated, Shapes, TypeOK, ReqOK, Mounts
<1>3. (\A f \in reqs : f.m # mount' /\ f.m <= mount') /\ (\A i \in intervals : i[1] # mount' /\ i[1] <= mount')
  BY <1>1, <1>2
<1>4. Dated'
  BY <1>1, <1>3 DEF TimerInv, Dated
<1>5. Sequential'
  BY <1>1, <1>3 DEF TimerInv, Sequential, OneAtATime, Busy
<1>6. QED
  BY <1>1, <1>4, <1>5 DEF TimerInv, PollersOwned, RefKnowsTimers

LEMMA TimerClose == ASSUME Shapes, TimerInv, ClosePage PROVE TimerInv'
<1>1. /\ open /\ open' = FALSE /\ intervals' = intervals \ {<< mount, ref[mount] >>}
      /\ UNCHANGED << mount, ref, reqs >>
      /\ hist'.left = hist.left \cup { f.m : f \in { r \in reqs : r.kind = "start" /\ r.m = mount } }
      /\ hist'.overlaps = hist.overlaps /\ hist'.asked = hist.asked
  BY DEF ClosePage, Shapes, Histories
<1>2. Dated'
  BY <1>1 DEF TimerInv, Dated
<1>3. Sequential'
  BY <1>1 DEF TimerInv, Sequential, OneAtATime, Busy
<1>4. PollersOwned'
  <2>1. \A i \in intervals : i = << i[1], i[2] >>
    BY DEF Shapes, TypeOK
  <2>2. QED
    BY <1>1, <2>1 DEF TimerInv, PollersOwned, RefKnowsTimers
<1>5. RefKnowsTimers'
  BY <1>1 DEF TimerInv, RefKnowsTimers
<1>6. QED
  BY <1>2, <1>3, <1>4, <1>5 DEF TimerInv

LEMMA TimerStart == ASSUME Shapes, TimerInv, StartScan PROVE TimerInv'
<1>1. CASE UNCHANGED << scanning, reqs, hist >>
  BY <1>1 DEF StartScan, TimerInv, Dated, Sequential, OneAtATime, Busy, PollersOwned, RefKnowsTimers
<1>2. CASE /\ scanning' = TRUE
           /\ reqs' = reqs \cup {Request("start", mount, hist.asked + 1, 0, {})}
           /\ hist' = [hist EXCEPT !.asked = @ + 1]
  <2>1. PICK r : r = Request("start", mount, hist.asked + 1, 0, {})
    OBVIOUS
  <2>2. r.kind = "start" /\ r.m = mount /\ r.s = hist.asked + 1 /\ reqs' = reqs \cup {r}
    BY <1>2, <2>1 DEF Request
  <2>3. hist'.asked = hist.asked + 1 /\ hist'.left = hist.left /\ hist'.overlaps = hist.overlaps
    BY <1>2 DEF Shapes, Histories
  <2>4. open /\ ~scanning /\ UNCHANGED << open, mount, ref, intervals >> /\ mount <= mount
    BY DEF StartScan, CanStart, Shapes, TypeOK
  <2>5. Dated'
    BY <2>2, <2>3, <2>4 DEF TimerInv, Dated
  <2>6. ASSUME OneAtATime PROVE OneAtATime'
    <3>1. (\A f \in reqs : ~Busy(f, mount)) /\ \A i \in intervals : i[1] # mount
      BY <2>4, <2>6 DEF OneAtATime
    <3>2. QED
      BY <1>2, <2>2, <2>3, <2>4, <2>6, <3>1 DEF OneAtATime, Busy
  <2>7. QED
    BY <2>3, <2>4, <2>5, <2>6 DEF TimerInv, Sequential, PollersOwned, RefKnowsTimers
<1>3. QED
  BY <1>1, <1>2 DEF StartScan

\* The answer to a start sets the only timer of its page.
LEMMA TimerStartAnswer == ASSUME Shapes, TimerInv, NEW f \in reqs, StartAnswer(f) PROVE TimerInv'
<1>1. f.kind = "start" /\ reqs' = reqs \ {f} /\ UNCHANGED << open, mount, hist >> /\ f.m \in Mounts /\ f.m <= mount
  BY DEF StartAnswer, Shapes, ReqOK, TimerInv, Dated
<1>2. CASE f.st = "ok"
  <2>1. /\ ref' = [ref EXCEPT ![f.m] = f.s] /\ intervals' = intervals \cup {<< f.m, f.s >>} /\ UNCHANGED scanning
        /\ ref \in [Mounts -> Scans \cup {0}] /\ intervals \subseteq Mounts \X Scans
    BY <1>2 DEF StartAnswer, Shapes, TypeOK
  <2>2. Dated'
    BY <1>1, <2>1 DEF TimerInv, Dated
  <2>3. PollersOwned'
    BY <1>1, <2>1 DEF TimerInv, Dated, PollersOwned
  <2>4. ASSUME OneAtATime PROVE \A i \in intervals : i[1] # f.m
    BY <1>1, <2>4 DEF OneAtATime, Busy
  <2>5. RefKnowsTimers'
    BY <1>1, <2>1, <2>4 DEF TimerInv, Sequential, RefKnowsTimers
  <2>6. ASSUME OneAtATime PROVE OneAtATime'
    BY <1>1, <2>1, <2>4, <2>6 DEF OneAtATime, Busy
  <2>7. QED
    BY <1>1, <2>2, <2>3, <2>5, <2>6 DEF TimerInv, Sequential
<1>3. CASE f.st # "ok"
  <2>1. UNCHANGED << ref, intervals >> /\ scanning' = (scanning /\ ~Here(f))
    BY <1>3 DEF StartAnswer
  <2>2. Dated' /\ PollersOwned' /\ RefKnowsTimers'
    BY <1>1, <2>1 DEF TimerInv, Dated, PollersOwned, RefKnowsTimers
  <2>3. ASSUME OneAtATime PROVE OneAtATime'
    BY <1>1, <2>1, <2>3 DEF OneAtATime, Busy, Here
  <2>4. QED
    BY <1>1, <2>2, <2>3 DEF TimerInv, Sequential
<1>4. QED
  BY <1>2, <1>3

\* A tick that met no other is the only request of its page.
LEMMA TimerPoll == ASSUME Shapes, TimerInv, NEW i \in intervals, Poll(i[1], i[2]) PROVE TimerInv'
<1>1. PICK r : r.kind = "poll" /\ r.m = i[1] /\ r.s = i[2] /\ reqs' = reqs \cup {r}
  BY DEF Poll, Request
<1>2. /\ UNCHANGED << open, mount, scanning, ref, intervals >> /\ hist'.left = hist.left /\ hist'.asked = hist.asked
      /\ hist'.overlaps = hist.overlaps \/ hist'.overlaps = hist.overlaps + 1
      /\ hist'.overlaps = hist.overlaps => Polls(i[1], i[2]) = {}
  BY DEF Poll, page, Shapes, Histories
<1>3. hist.overlaps \in Nat
  BY DEF Shapes, Histories
<1>4. hist'.overlaps = 0 => hist.overlaps = 0 /\ Polls(i[1], i[2]) = {}
  BY <1>2, <1>3
<1>5. Dated'
  BY <1>1, <1>2 DEF TimerInv, Dated
<1>6. ASSUME hist.overlaps = 0, OneAtATime, Polls(i[1], i[2]) = {} PROVE OneAtATime'
  <2>1. \A f \in reqs : ~Busy(f, i[1])
    BY <1>6 DEF OneAtATime, Polls, Busy
  <2>2. \A f, g \in reqs' : Busy(f, f.m) /\ Busy(g, f.m) => f = g
    BY <1>1, <1>6, <2>1 DEF OneAtATime, Busy
  <2>3. \A j \in intervals : j[1] = i[1] => j[2] = i[2]
    BY <1>6 DEF TimerInv, RefKnowsTimers
  <2>4. \A f \in reqs', j \in intervals' : Busy(f, j[1]) => f.kind = "poll" /\ f.s = j[2]
    BY <1>1, <1>2, <1>6, <2>3 DEF OneAtATime, Busy
  <2>5. QED
    BY <1>1, <1>2, <1>6, <2>2, <2>4 DEF OneAtATime, Busy
<1>7. QED
  BY <1>2, <1>4, <1>5, <1>6 DEF TimerInv, Sequential, PollersOwned, RefKnowsTimers

\* A final answer stops the only timer of its page.
LEMMA TimerPollAnswer == ASSUME Shapes, TimerInv, NEW f \in reqs, PollAnswer(f) PROVE TimerInv'
<1>1. f.kind = "poll" /\ reqs' = reqs \ {f} /\ UNCHANGED << open, mount, hist >> /\ f.m \in Mounts
  BY DEF PollAnswer, Shapes, ReqOK
<1>2. CASE f.st = "ok" /\ f.got.status \in Final
  <2>1. /\ ref' = [ref EXCEPT ![f.m] = 0] /\ intervals' = intervals \ {<< f.m, ref[f.m] >>}
        /\ scanning' = (scanning /\ ~Here(f))
        /\ ref \in [Mounts -> Scans \cup {0}] /\ intervals \subseteq Mounts \X Scans
    BY <1>2 DEF PollAnswer, Shapes, TypeOK
  <2>2. Dated' /\ PollersOwned'
    BY <1>1, <2>1 DEF TimerInv, Dated, PollersOwned
  <2>3. ASSUME hist.overlaps = 0 PROVE \A i \in intervals' : i[1] # f.m
    <3>1. \A i \in intervals : i = << i[1], i[2] >>
      BY <2>1
    <3>2. QED
      BY <2>1, <2>3, <3>1 DEF TimerInv, RefKnowsTimers
  <2>4. RefKnowsTimers'
    BY <1>1, <2>1, <2>3 DEF TimerInv, RefKnowsTimers
  <2>5. ASSUME hist.overlaps = 0, OneAtATime PROVE OneAtATime'
    <3>1. \A g \in reqs' : ~Busy(g, f.m)
      BY <1>1, <2>5 DEF OneAtATime, Busy
    <3>2. QED
      BY <1>1, <2>1, <2>3, <2>5, <3>1 DEF OneAtATime, Busy, Here
  <2>6. QED
    BY <1>1, <2>2, <2>4, <2>5 DEF TimerInv, Sequential
<1>3. CASE ~(f.st = "ok" /\ f.got.status \in Final)
  <2>1. UNCHANGED << ref, intervals, scanning >>
    BY <1>3 DEF PollAnswer
  <2>2. Dated' /\ PollersOwned' /\ RefKnowsTimers'
    BY <1>1, <2>1 DEF TimerInv, Dated, PollersOwned, RefKnowsTimers
  <2>3. ASSUME OneAtATime PROVE OneAtATime'
    BY <1>1, <2>1, <2>3 DEF OneAtATime, Busy
  <2>4. QED
    BY <1>1, <2>2, <2>3 DEF TimerInv, Sequential
<1>4. QED
  BY <1>2, <1>3

LEMMA TimerAdds ==
    ASSUME Shapes, TimerInv, (\E h \in Hits : AddResource(h)) \/ (\E f \in reqs : AddAnswer(f))
    PROVE  TimerInv'
<1>1. UNCHANGED << open, mount, scanning, ref, intervals >>
      /\ hist'.left = hist.left /\ hist'.overlaps = hist.overlaps /\ hist'.asked = hist.asked
  BY DEF AddResource, AddAnswer, page, Shapes, Histories
<1>2. \A f \in reqs' : f \in reqs \/ (f.kind = "add" /\ f.m = mount)
  BY DEF AddResource, AddAnswer, Request
<1>3. mount <= mount
  BY DEF Shapes, TypeOK
<1>4. Dated'
  BY <1>1, <1>2, <1>3 DEF TimerInv, Dated
<1>5. ASSUME OneAtATime PROVE OneAtATime'
  BY <1>1, <1>2, <1>5 DEF OneAtATime, Busy
<1>6. QED
  BY <1>1, <1>4, <1>5 DEF TimerInv, Sequential, PollersOwned, RefKnowsTimers

LEMMA TimerStep == ASSUME Shapes, TimerInv, Next PROVE TimerInv'
  BY TimerElsewhere, TimerOpen, TimerClose, TimerStart, TimerStartAnswer, TimerPoll, TimerPollAnswer, TimerAdds
     DEF Next, User, Timer, Answer, Elsewhere

-----------------------------------------------------------------------------
(* What is known of a scan.                                                *)

\* A start that is about to be served was so before, or is of a new scan.
StartsKept ==
    /\ \A f \in reqs' : f.kind = "start" /\ f.st = "sent" => f \in reqs \/ (f.s = hist.asked + 1 /\ hist'.asked = f.s)
    /\ hist'.asked = hist.asked \/ hist'.asked = hist.asked + 1

\* A scan that was served and whose task is over: only a restart touches its
\* job, but for the status.
Quiet(s) ==
    (s <= hist.asked /\ tasks[s].st = "none" /\ \A f \in reqs : f.kind = "start" /\ f.s = s => f.st # "sent") =>
        /\ tasks'[s].st = "none"
        /\ \/ jobs'[s].status = "none"
           \/ jobs[s].status # "none" /\ jobs'[s].results = jobs[s].results

LEMMA SnapshotKeeps ==
    ASSUME Shapes, StartsKept, \A s \in Scans : Quiet(s), NEW x \in Jobs, Snapshot(x)
    PROVE  Snapshot(x)'
<1>1. SUFFICES ASSUME x.status # "none"
               PROVE  /\ x.scan \in Scans /\ x.scan <= hist'.asked
                      /\ \A f \in reqs' : f.kind = "start" /\ f.s = x.scan => f.st # "sent"
                      /\ (x.status = "completed" /\ x.results # {}) =>
                            /\ tasks'[x.scan].st = "none"
                            /\ jobs'[x.scan].status = "none" \/ jobs'[x.scan].results = x.results
  BY DEF Snapshot
<1>2. x.scan \in Scans /\ x.scan <= hist.asked
      /\ \A f \in reqs : f.kind = "start" /\ f.s = x.scan => f.st # "sent"
  BY <1>1 DEF Snapshot
<1>3. hist.asked \in Nat /\ x.scan \in Nat
  BY <1>2, DiscoveryAssumption DEF Shapes, Histories, Scans
<1>4. x.scan <= hist'.asked /\ \A f \in reqs' : f.kind = "start" /\ f.s = x.scan => f.st # "sent"
  BY <1>2, <1>3 DEF StartsKept
<1>5. Quiet(x.scan)
  BY <1>2
<1>6. QED
  BY <1>1, <1>2, <1>4, <1>5 DEF Snapshot, Quiet

\* A step of the page but StartScan touches no job, and asks for no scan.
LEMMA PageSteps ==
    ASSUME Shapes, User \/ Timer \/ Answer, ~StartScan
    PROVE  /\ UNCHANGED << jobs, tasks, stored >> /\ hist'.asked = hist.asked /\ hist'.raced = hist.raced
           /\ \A f \in reqs' : f.kind = "start" => f \in reqs
<1>1. hist' = hist \/ (\E S : hist' = [hist EXCEPT !.left = S]) \/ hist' = [hist EXCEPT !.adds = @ + 1]
      \/ hist' = [hist EXCEPT !.overlaps = @ + 1]
  BY DEF User, Timer, Answer, OpenPage, ClosePage, AddResource, Poll, StartAnswer, PollAnswer, AddAnswer
<1>2. hist'.asked = hist.asked /\ hist'.raced = hist.raced
  BY <1>1 DEF Shapes, Histories
<1>3. UNCHANGED << jobs, tasks, stored >>
  BY DEF User, Timer, Answer, OpenPage, ClosePage, AddResource, Poll, StartAnswer, PollAnswer, AddAnswer
<1>4. \A f \in reqs' : f.kind = "start" => f \in reqs
  <2>1. CASE OpenPage \/ ClosePage
    BY <2>1 DEF OpenPage, ClosePage
  <2>2. ASSUME NEW h \in Hits, AddResource(h) PROVE \A f \in reqs' : f.kind = "start" => f \in reqs
    BY <2>2 DEF AddResource, Request
  <2>3. ASSUME NEW i \in intervals, Poll(i[1], i[2]) PROVE \A f \in reqs' : f.kind = "start" => f \in reqs
    BY <2>3 DEF Poll, Request
  <2>4. CASE Answer
    BY <2>4 DEF Answer, StartAnswer, PollAnswer, AddAnswer
  <2>5. QED
    BY <2>1, <2>2, <2>3, <2>4 DEF User, Timer
<1>5. QED
  BY <1>2, <1>3, <1>4

\* StartScan asks for the next scan, or for none.
LEMMA StartSteps ==
    ASSUME Shapes, StartScan
    PROVE  /\ UNCHANGED << jobs, tasks, stored >> /\ hist'.raced = hist.raced /\ hist.asked \in Nat
           /\ \/ reqs' = reqs /\ hist'.asked = hist.asked
              \/ /\ hist'.asked = hist.asked + 1 /\ hist.asked + 1 \in Scans
                 /\ \E r : /\ reqs' = reqs \cup {r} /\ r.s = hist.asked + 1
                          /\ r.kind = "start" /\ r.st = "sent" /\ r.got = NoJob
<1>1. UNCHANGED << jobs, tasks, stored >> /\ hist'.raced = hist.raced /\ hist.asked \in Nat
  BY DEF StartScan, Shapes, Histories
<1>2. CASE reqs' = reqs /\ hist' = hist
  BY <1>1, <1>2
<1>3. CASE /\ hist.asked < MaxScans /\ hist' = [hist EXCEPT !.asked = @ + 1]
           /\ reqs' = reqs \cup {Request("start", mount, hist.asked + 1, 0, {})}
  <2>1. hist'.asked = hist.asked + 1
    BY <1>3 DEF Shapes, Histories
  <2>2. hist.asked + 1 \in Scans
    BY <1>1, <1>3, DiscoveryAssumption DEF Scans
  <2>3. PICK r : r = Request("start", mount, hist.asked + 1, 0, {})
    OBVIOUS
  <2>4. r.s = hist.asked + 1 /\ r.kind = "start" /\ r.st = "sent" /\ r.got = NoJob
    BY <2>3 DEF Request
  <2>5. QED
    BY <1>1, <1>3, <2>1, <2>2, <2>3, <2>4
<1>4. QED
  BY <1>2, <1>3 DEF StartScan

LEMMA JobsStep == ASSUME Shapes, JobInv, Next PROVE JobsOK'
<1> USE DEF page
<1>1. CASE (User \/ Timer \/ Answer) /\ ~StartScan
  BY <1>1, PageSteps DEF JobInv, JobsOK
<1>2. CASE StartScan
  <2>1. UNCHANGED << jobs, tasks >> /\ hist'.raced = hist.raced /\ hist.asked \in Nat
        /\ (hist'.asked = hist.asked \/ hist'.asked = hist.asked + 1)
    BY <1>2, StartSteps
  <2>2. \A s \in Scans : s <= hist.asked => s <= hist'.asked
    BY <2>1 DEF Scans
  <2>3. QED
    BY <2>1, <2>2 DEF JobInv, JobsOK
<1>4. ASSUME NEW f \in reqs, SendCommand(f) PROVE JobsOK'
  <2>1. f.s \in Scans /\ f.s <= hist.asked
    <3>1. ReqOK(f) /\ f.kind = "start"
      BY <1>4 DEF SendCommand, Shapes
    <3>2. QED
      BY <1>4, <3>1 DEF ReqOK, JobInv, StartsOK
  <2>2. jobs'[f.s].scan = f.s /\ jobs'[f.s].status # "none" /\ jobs'[f.s].results = {} /\ tasks'[f.s].st # "storing"
    BY <1>4, <2>1 DEF SendCommand, Shapes, TypeOK, Pending, NoTask, JobInv, JobsOK
  <2>3. \A s \in Scans : s # f.s => jobs'[s] = jobs[s] /\ tasks'[s] = tasks[s]
    BY <1>4 DEF SendCommand, Shapes, TypeOK
  <2>4. hist' = hist
    BY <1>4 DEF SendCommand
  <2>5. QED
    BY <2>1, <2>2, <2>3, <2>4 DEF JobInv, JobsOK
<1>5. ASSUME NEW f \in reqs, MarkInProgress(f) PROVE JobsOK'
  <2>1. f.s \in Scans /\ jobs[f.s].status # "none" /\ f.kind = "start"
    <3>1. ReqOK(f) /\ f.st = "marking"
      BY <1>5 DEF MarkInProgress, Shapes
    <3>2. f.kind = "start" /\ f.s \in Scans
      BY <3>1 DEF ReqOK
    <3>3. QED
      BY <1>5, <3>1, <3>2 DEF JobInv, StartsOK
  <2>2. jobs'[f.s].scan = jobs[f.s].scan /\ jobs'[f.s].status = "in_progress" /\ jobs'[f.s].results = jobs[f.s].results
    BY <1>5, <2>1 DEF MarkInProgress, Shapes, TypeOK, Jobs
  <2>3. (\A s \in Scans : s # f.s => jobs'[s] = jobs[s]) /\ tasks' = tasks
    BY <1>5 DEF MarkInProgress, Shapes, TypeOK
  <2>4. hist'.asked = hist.asked /\ hist.raced \subseteq hist'.raced
        /\ (jobs[f.s].status = "completed" => f.s \in hist'.raced)
    BY <1>5 DEF MarkInProgress, Shapes, Histories, Final
  <2>5. QED
    BY <2>1, <2>2, <2>3, <2>4 DEF JobInv, JobsOK
<1>6. ASSUME NEW f \in reqs, ServePoll(f) \/ ServeAdd(f) PROVE JobsOK'
  BY <1>6 DEF ServePoll, ServeAdd, JobInv, JobsOK
<1>7. ASSUME NEW f \in reqs, ServeFails(f) PROVE JobsOK'
  BY <1>7 DEF ServeFails, Fault, Shapes, Histories, JobInv, JobsOK
<1>8. ASSUME NEW s \in Scans, TakeReport(s) PROVE JobsOK'
  <2>1. tasks[s].st = "reported" /\ jobs[s].status # "none" /\ jobs[s].results = {} /\ hist' = hist
    BY <1>8 DEF TakeReport, JobInv, JobsOK
  <2>2. /\ jobs'[s].status \in {"completed", "failed"} /\ jobs'[s].scan = jobs[s].scan /\ jobs'[s].results = {}
        /\ tasks'[s].st = "storing" => jobs'[s].status = "completed"
    <3>1. jobs \in [Scans -> Jobs] /\ tasks \in [Scans -> Tasks]
      BY DEF Shapes, TypeOK
    <3>2. CASE tasks[s].ok
      BY <1>8, <2>1, <3>1, <3>2 DEF TakeReport, Jobs
    <3>3. CASE ~tasks[s].ok
      BY <1>8, <2>1, <3>1, <3>3 DEF TakeReport, Jobs, NoTask
    <3>4. QED
      BY <3>2, <3>3
  <2>3. \A x \in Scans : x # s => jobs'[x] = jobs[x] /\ tasks'[x] = tasks[x]
    BY <1>8, <2>1 DEF TakeReport, Shapes, TypeOK
  <2>4. QED
    BY <2>1, <2>2, <2>3 DEF JobInv, JobsOK
<1>9. ASSUME NEW s \in Scans, StoreResults(s) PROVE JobsOK'
  <2>1. tasks[s].st = "storing" /\ jobs[s].status # "none" /\ hist' = hist
    BY <1>9 DEF StoreResults, JobInv, JobsOK
  <2>2. jobs'[s].status = jobs[s].status /\ jobs'[s].scan = jobs[s].scan /\ tasks'[s].st = "none"
    BY <1>9, <2>1 DEF StoreResults, Shapes, TypeOK, Jobs, NoTask
  <2>3. \A x \in Scans : x # s => jobs'[x] = jobs[x] /\ tasks'[x] = tasks[x]
    BY <1>9, <2>1 DEF StoreResults, Shapes, TypeOK
  <2>4. QED
    BY <2>1, <2>2, <2>3 DEF JobInv, JobsOK
<1>10. ASSUME NEW s \in Scans, ExecuteScan(s) PROVE JobsOK'
  <2>1. tasks[s].st = "scan" /\ tasks'[s].st = "reported" /\ hist' = hist /\ jobs' = jobs
    BY <1>10 DEF ExecuteScan, Shapes, Tasks
  <2>2. \A x \in Scans : x # s => tasks'[x] = tasks[x]
    BY <1>10 DEF ExecuteScan, Shapes
  <2>3. QED
    BY <2>1, <2>2 DEF JobInv, JobsOK
<1>11. CASE Redial
  BY <1>11 DEF Redial, JobInv, JobsOK
<1>12. CASE Drop
  <2>1. \A s \in Scans : tasks'[s] = tasks[s] \/ tasks'[s].st = "none"
    BY <1>12 DEF Drop, NoTask
  <2>2. jobs' = jobs /\ hist'.asked = hist.asked /\ hist'.raced = hist.raced
    BY <1>12 DEF Drop, Fault, Shapes, Histories
  <2>3. QED
    BY <2>1, <2>2 DEF JobInv, JobsOK
<1>13. CASE Restart
  BY <1>13 DEF Restart, NoJob, NoTask, JobsOK
<1>14. QED
  BY <1>1, <1>2, <1>4, <1>5, <1>6, <1>7, <1>8, <1>9, <1>10, <1>11, <1>12, <1>13
     DEF Next, Controller, Connector, Faulty

\* A step that serves requests turns none of them back.
OnlyForward ==
    \A f \in reqs' : f \in reqs \/ f.st \in {"ok", "failed"}
                    \/ \E g \in reqs : SendCommand(g) /\ f = [g EXCEPT !.st = "marking"]

LEMMA ElsewhereForward == ASSUME Shapes, Elsewhere PROVE OnlyForward
<1> USE DEF page
<1>0. ASSUME NEW f \in reqs, NEW st \in {"ok", "failed"}, NEW got
      PROVE  [f EXCEPT !.st = st].st = st /\ [f EXCEPT !.st = st, !.got = got].st = st
  BY <1>0 DEF Shapes, ReqOK
<1>1. ASSUME reqs' = reqs PROVE OnlyForward
  BY <1>1 DEF OnlyForward
<1>2. ASSUME NEW f \in reqs, SendCommand(f) PROVE OnlyForward
  <2>1. CASE stream
    <3>1. reqs' = (reqs \ {f}) \cup {[f EXCEPT !.st = "marking"]}
      BY <1>2, <2>1 DEF SendCommand, Replace
    <3>2. QED
      BY <1>2, <3>1 DEF OnlyForward
  <2>2. CASE ~stream
    <3>1. reqs' = (reqs \ {f}) \cup {[f EXCEPT !.st = "ok"]}
      BY <1>2, <2>2 DEF SendCommand, Replace
    <3>2. [f EXCEPT !.st = "ok"].st = "ok"
      BY <1>2, <1>0
    <3>3. QED
      BY <3>1, <3>2 DEF OnlyForward
  <2>3. QED
    BY <2>1, <2>2
<1>3. ASSUME NEW f \in reqs, MarkInProgress(f) \/ ServePoll(f) \/ ServeAdd(f) \/ ServeFails(f) PROVE OnlyForward
  <2>1. PICK st \in {"ok", "failed"} : \/ reqs' = (reqs \ {f}) \cup {[f EXCEPT !.st = st]}
                                      \/ reqs' = (reqs \ {f}) \cup {[f EXCEPT !.st = st, !.got = jobs[f.s]]}
    BY <1>3 DEF MarkInProgress, ServePoll, ServeAdd, ServeFails, Replace
  <2>2. [f EXCEPT !.st = st].st = st /\ [f EXCEPT !.st = st, !.got = jobs[f.s]].st = st
    BY <1>3, <1>0
  <2>3. CASE reqs' = (reqs \ {f}) \cup {[f EXCEPT !.st = st]}
    BY <2>2, <2>3 DEF OnlyForward
  <2>4. CASE reqs' = (reqs \ {f}) \cup {[f EXCEPT !.st = st, !.got = jobs[f.s]]}
    BY <2>2, <2>4 DEF OnlyForward
  <2>5. QED
    BY <2>1, <2>3, <2>4
<1>4. ASSUME NEW s \in Scans, TakeReport(s) \/ StoreResults(s) \/ ExecuteScan(s) PROVE OnlyForward
  BY <1>1, <1>4 DEF TakeReport, StoreResults, ExecuteScan
<1>5. CASE Redial \/ Drop
  BY <1>1, <1>5 DEF Redial, Drop
<1>6. CASE Restart
  <2>1. \A f \in reqs : [f EXCEPT !.st = "failed"].st = "failed"
    BY <1>0
  <2>2. QED
    BY <1>6, <2>1 DEF Restart, OnlyForward
<1>7. QED
  BY <1>2, <1>3, <1>4, <1>5, <1>6 DEF Elsewhere, Controller, Connector, Faulty

LEMMA StartsKeptStep == ASSUME Shapes, Next PROVE StartsKept
<1>1. CASE (User \/ Timer \/ Answer) /\ ~StartScan
  BY <1>1, PageSteps DEF StartsKept
<1>2. CASE StartScan
  BY <1>2, StartSteps DEF StartsKept
<1>3. CASE Elsewhere
  <2>1. \A g \in reqs : [g EXCEPT !.st = "marking"].st = "marking"
    BY DEF Shapes, ReqOK
  <2>2. hist'.asked = hist.asked
    BY <1>3, ElsewherePage
  <2>3. \A f \in reqs' : f.st = "sent" => f \in reqs
    BY <1>3, <2>1, ElsewhereForward DEF OnlyForward
  <2>4. QED
    BY <2>2, <2>3 DEF StartsKept
<1>4. QED
  BY <1>1, <1>2, <1>3 DEF Next, Elsewhere

\* Only a start that is served makes a job, and only a restart ends one.
LEMMA JobsBorn ==
    ASSUME Shapes, JobInv, Elsewhere, NEW s \in Scans, jobs[s].status = "none"
    PROVE  jobs'[s].status = "none" \/ \E f \in reqs : SendCommand(f) /\ f.s = s
<1> USE DEF page
<1>1. ASSUME NEW f \in reqs, SendCommand(f), f.s # s PROVE jobs'[s].status = "none"
  BY <1>1 DEF SendCommand, Shapes, TypeOK
<1>2. ASSUME NEW f \in reqs, MarkInProgress(f) PROVE jobs'[s].status = "none"
  <2>1. f.kind = "start" /\ f.st = "marking"
    BY <1>2 DEF MarkInProgress, Shapes, ReqOK
  <2>2. f.s # s
    BY <1>2, <2>1 DEF JobInv, StartsOK
  <2>3. QED
    BY <1>2, <2>2 DEF MarkInProgress, Shapes, TypeOK
<1>3. ASSUME NEW f \in reqs, ServePoll(f) \/ ServeAdd(f) \/ ServeFails(f) PROVE jobs'[s].status = "none"
  BY <1>3 DEF ServePoll, ServeAdd, ServeFails
<1>4. ASSUME NEW x \in Scans, TakeReport(x) PROVE jobs'[s].status = "none"
  BY <1>4 DEF TakeReport, Shapes, TypeOK
<1>5. ASSUME NEW x \in Scans, StoreResults(x) PROVE jobs'[s].status = "none"
  BY <1>5 DEF StoreResults, Shapes, TypeOK, Jobs
<1>6. CASE Connector \/ Drop
  BY <1>6 DEF Connector, ExecuteScan, Redial, Drop
<1>7. CASE Restart
  BY <1>7 DEF Restart, NoJob
<1>8. QED
  BY <1>1, <1>2, <1>3, <1>4, <1>5, <1>6, <1>7 DEF Elsewhere, Controller, Connector, Faulty

LEMMA JobsStay ==
    ASSUME Shapes, Elsewhere, ~Restart, NEW s \in Scans, jobs[s].status # "none"
    PROVE  jobs'[s].status # "none"
<1> USE DEF page
<1>1. ASSUME NEW f \in reqs, SendCommand(f) PROVE jobs'[s].status # "none"
  BY <1>1 DEF SendCommand, Shapes, TypeOK, Pending
<1>2. ASSUME NEW f \in reqs, MarkInProgress(f) PROVE jobs'[s].status # "none"
  BY <1>2 DEF MarkInProgress, Shapes, TypeOK, Jobs
<1>3. ASSUME NEW f \in reqs, ServePoll(f) \/ ServeAdd(f) \/ ServeFails(f) PROVE jobs'[s].status # "none"
  BY <1>3 DEF ServePoll, ServeAdd, ServeFails
<1>4. ASSUME NEW x \in Scans, TakeReport(x) PROVE jobs'[s].status # "none"
  BY <1>4 DEF TakeReport, Shapes, TypeOK, Jobs
<1>5. ASSUME NEW x \in Scans, StoreResults(x) PROVE jobs'[s].status # "none"
  BY <1>5 DEF StoreResults, Shapes, TypeOK, Jobs
<1>6. CASE Connector \/ Drop
  BY <1>6 DEF Connector, ExecuteScan, Redial, Drop
<1>7. QED
  BY <1>1, <1>2, <1>3, <1>4, <1>5, <1>6 DEF Elsewhere, Controller, Connector, Faulty

LEMMA StartsStep == ASSUME Shapes, JobInv, Next PROVE StartsOK'
<1>1. CASE (User \/ Timer \/ Answer) /\ ~StartScan
  BY <1>1, PageSteps DEF JobInv, StartsOK
<1>2. CASE StartScan
  <2>1. jobs' = jobs /\ hist.asked \in Nat
    BY <1>2, StartSteps
  <2>2. CASE reqs' = reqs /\ hist'.asked = hist.asked
    BY <2>1, <2>2 DEF JobInv, StartsOK
  <2>3. ASSUME hist'.asked = hist.asked + 1, hist.asked + 1 \in Scans,
               NEW r, reqs' = reqs \cup {r}, r.s = hist.asked + 1, r.st = "sent"
        PROVE  StartsOK'
    <3>1. jobs[r.s].status = "none"
      BY <2>1, <2>3 DEF JobInv, JobsOK
    <3>2. \A f \in reqs : f.kind = "start" => f.s \in Nat /\ f.s <= hist.asked
      BY DEF Shapes, ReqOK, Scans, JobInv, StartsOK
    <3>3. \A f \in reqs : f.kind = "start" => f.s # r.s /\ f.s <= hist'.asked
      BY <2>1, <2>3, <3>2
    <3>4. r.s <= hist'.asked
      BY <2>1, <2>3
    <3>5. QED
      BY <2>1, <2>3, <3>1, <3>3, <3>4 DEF JobInv, StartsOK
  <2>4. QED
    BY <1>2, <2>2, <2>3, StartSteps
<1>3. CASE Elsewhere
  <2>1. hist'.asked = hist.asked /\ Derived /\ OnlyForward
    BY <1>3, ElsewherePage, ElsewhereDerived, ElsewhereForward
  <2>2. \A f \in reqs' : f.kind = "start" => f.s <= hist'.asked
    BY <2>1 DEF JobInv, StartsOK, Derived, Alike
  <2>3. \A f, g \in reqs' : f.kind = "start" /\ g.kind = "start" /\ f.s = g.s => f = g
    <3>1. SUFFICES ASSUME NEW f \in reqs', NEW g \in reqs', f.kind = "start", g.kind = "start", f.s = g.s PROVE f = g
      OBVIOUS
    <3>2. PICK x \in reqs, y \in reqs : Alike(f, x) /\ Alike(g, y) /\ (x = y => f = g)
      BY <2>1 DEF Derived
    <3>3. QED
      BY <3>1, <3>2 DEF JobInv, StartsOK, Alike
  <2>4. ASSUME NEW f \in reqs', f.kind = "start", f.st = "sent"
        PROVE  jobs'[f.s].status = "none"
    <3>1. f \in reqs
      <4>1. hist.asked \in Nat /\ StartsKept
        BY <1>3, StartsKeptStep DEF Next, Elsewhere, Shapes, Histories
      <4>2. QED
        BY <2>1, <2>4, <4>1 DEF StartsKept
    <3>2. f.s \in Scans /\ jobs[f.s].status = "none"
      BY <2>4, <3>1 DEF Shapes, ReqOK, JobInv, StartsOK
    <3>3. ASSUME NEW g \in reqs, SendCommand(g), g.s = f.s PROVE FALSE
      <4>1. g = f
        BY <2>4, <3>1, <3>3 DEF SendCommand, JobInv, StartsOK
      <4>2. [f EXCEPT !.st = "marking"].st # "sent" /\ [f EXCEPT !.st = "ok"].st # "sent"
        BY <3>1 DEF Shapes, ReqOK
      <4>3. f \notin reqs'
        BY <2>4, <3>3, <4>1, <4>2 DEF SendCommand, Replace
      <4>4. QED
        BY <2>4, <4>3
    <3>4. QED
      BY <1>3, <3>2, <3>3, JobsBorn
  <2>5. ASSUME NEW f \in reqs', f.kind = "start", f.st = "marking"
        PROVE  jobs'[f.s].status # "none"
    <3>1. CASE Restart
      <4>1. \A x \in reqs : [x EXCEPT !.st = "failed"].st = "failed"
        BY DEF Shapes, ReqOK
      <4>2. QED
        BY <2>5, <3>1, <4>1 DEF Restart
    <3>2. CASE f \in reqs /\ ~Restart
      <4>1. f.s \in Scans /\ jobs[f.s].status # "none"
        BY <2>5, <3>2 DEF Shapes, ReqOK, JobInv, StartsOK
      <4>2. QED
        BY <1>3, <3>2, <4>1, JobsStay
    <3>3. ASSUME NEW g \in reqs, SendCommand(g), f = [g EXCEPT !.st = "marking"] PROVE jobs'[f.s].status # "none"
      <4>1. f.s = g.s /\ g.s \in Scans
        BY <3>3 DEF SendCommand, Shapes, ReqOK
      <4>2. QED
        BY <3>3, <4>1 DEF SendCommand, Shapes, TypeOK, Pending
    <3>4. QED
      BY <2>1, <2>5, <3>1, <3>2, <3>3 DEF OnlyForward
  <2>6. QED
    BY <2>2, <2>3, <2>4, <2>5 DEF StartsOK
<1>4. QED
  BY <1>1, <1>2, <1>3 DEF Next, Elsewhere

LEMMA QuietStep == ASSUME Shapes, JobInv, Next, NEW s \in Scans PROVE Quiet(s)
<1> USE DEF page
<1>1. CASE User \/ Timer \/ Answer
  BY <1>1, PageSteps, StartSteps DEF Quiet, JobInv, JobsOK
<1>2. ASSUME NEW f \in reqs, SendCommand(f) PROVE Quiet(s)
  <2>1. CASE f.s = s
    BY <1>2, <2>1 DEF SendCommand, Quiet
  <2>2. CASE f.s # s
    BY <1>2, <2>2 DEF SendCommand, Quiet, Shapes, TypeOK
  <2>3. QED
    BY <2>1, <2>2
<1>3. ASSUME NEW f \in reqs, MarkInProgress(f) PROVE Quiet(s)
  <2>1. tasks' = tasks /\ jobs'[s].results = jobs[s].results
    BY <1>3 DEF MarkInProgress, Shapes, TypeOK, Jobs
  <2>2. f.kind = "start" /\ f.st = "marking"
    BY <1>3 DEF MarkInProgress, Shapes, ReqOK
  <2>3. f.s = s => jobs[s].status # "none"
    BY <1>3, <2>2 DEF JobInv, StartsOK
  <2>4. f.s # s => jobs'[s] = jobs[s]
    BY <1>3 DEF MarkInProgress, Shapes, TypeOK
  <2>5. QED
    BY <2>1, <2>3, <2>4 DEF Quiet
<1>4. ASSUME NEW f \in reqs, ServePoll(f) \/ ServeAdd(f) \/ ServeFails(f) PROVE Quiet(s)
  BY <1>4 DEF ServePoll, ServeAdd, ServeFails, Quiet
<1>5. ASSUME NEW x \in Scans, TakeReport(x) \/ StoreResults(x) \/ ExecuteScan(x) PROVE Quiet(s)
  <2>1. tasks[x].st # "none"
    BY <1>5 DEF TakeReport, StoreResults, ExecuteScan
  <2>2. x # s => tasks'[s] = tasks[s] /\ jobs'[s] = jobs[s]
    BY <1>5 DEF TakeReport, StoreResults, ExecuteScan, Shapes, TypeOK
  <2>3. QED
    BY <2>1, <2>2 DEF Quiet
<1>6. CASE Redial
  BY <1>6 DEF Redial, Quiet
<1>7. CASE Drop
  BY <1>7 DEF Drop, NoTask, Quiet
<1>8. CASE Restart
  BY <1>8 DEF Restart, NoTask, NoJob, Quiet
<1>9. QED
  BY <1>1, <1>2, <1>3, <1>4, <1>5, <1>6, <1>7, <1>8 DEF Next, Controller, Connector, Faulty

\* Where what the page shows comes from.
LEMMA ShownCases ==
    ASSUME Shapes, Next
    PROVE  \/ shown' = shown \/ shown' = NoJob
           \/ \E f \in reqs : StartAnswer(f) /\ f.st = "ok" /\ shown' = Pending(f.s)
           \/ \E f \in reqs : PollAnswer(f) /\ f.st = "ok" /\ shown' = f.got
<1>1. CASE Elsewhere
  BY <1>1, ElsewherePage DEF page
<1>2. CASE User \/ Timer
  BY <1>2 DEF User, Timer, OpenPage, ClosePage, StartScan, AddResource, Poll, page
<1>3. ASSUME NEW f \in reqs, StartAnswer(f)
      PROVE  shown' = shown \/ (f.st = "ok" /\ shown' = Pending(f.s))
  BY <1>3 DEF StartAnswer
<1>4. ASSUME NEW f \in reqs, PollAnswer(f)
      PROVE  shown' = shown \/ (f.st = "ok" /\ shown' = f.got)
  BY <1>4 DEF PollAnswer
<1>5. ASSUME NEW f \in reqs, AddAnswer(f) PROVE shown' = shown
  BY <1>5 DEF AddAnswer
<1>6. QED
  BY <1>1, <1>2, <1>3, <1>4, <1>5 DEF Next, Answer, Elsewhere

\* Where the answer of a request comes from.
Carried(g) ==
    \/ g \in reqs
    \/ g.got = NoJob /\ g.st = "sent"
    \/ \E f \in reqs : g.got = f.got /\ (g.kind = "poll" => g.st # "ok")
    \/ \E f \in reqs : /\ f.s \in Scans /\ jobs[f.s].status # "none" /\ jobs' = jobs /\ tasks' = tasks
                      /\ g.s = f.s /\ g.got = jobs[f.s]

LEMMA GotCases == ASSUME Shapes, Next PROVE \A g \in reqs' : Carried(g)
<1> USE DEF page
<1>1. ASSUME NEW r, r.got = NoJob /\ r.st = "sent", reqs' = reqs \cup {r} PROVE \A g \in reqs' : Carried(g)
  BY <1>1 DEF Carried
<1>2. CASE User
  <2>1. CASE reqs' = reqs
    BY <2>1 DEF Carried
  <2>2. ASSUME NEW h \in Hits, AddResource(h) PROVE \A g \in reqs' : Carried(g)
    BY <2>2 DEF AddResource, Request, Carried
  <2>3. CASE StartScan
    BY <2>1, <2>3, <1>1, StartSteps
  <2>4. QED
    BY <1>2, <2>1, <2>2, <2>3 DEF User, OpenPage, ClosePage
<1>3. ASSUME NEW i \in intervals, Poll(i[1], i[2]) PROVE \A g \in reqs' : Carried(g)
  BY <1>3 DEF Poll, Request, Carried
<1>4. CASE Answer
  BY <1>4 DEF Answer, StartAnswer, PollAnswer, AddAnswer, Carried
<1>5. ASSUME NEW f \in reqs, SendCommand(f) \/ MarkInProgress(f) \/ ServeAdd(f) \/ ServeFails(f)
                          \/ (ServePoll(f) /\ jobs[f.s].status = "none")
      PROVE  \A g \in reqs' : Carried(g)
  <2>1. PICK st \in {"marking", "ok", "failed"} :
            reqs' = (reqs \ {f}) \cup {[f EXCEPT !.st = st]} /\ (f.kind = "poll" => st # "ok")
    <3>1. f.st = "marking" => f.kind = "start"
      BY <1>5 DEF Shapes, ReqOK
    <3>2. QED
      BY <1>5, <3>1 DEF SendCommand, MarkInProgress, ServeAdd, ServeFails, ServePoll, Replace
  <2>2. [f EXCEPT !.st = st].st = st /\ [f EXCEPT !.st = st].got = f.got /\ [f EXCEPT !.st = st].kind = f.kind
    BY <1>5 DEF Shapes, ReqOK
  <2>3. QED
    BY <1>5, <2>1, <2>2 DEF Carried
<1>6. ASSUME NEW f \in reqs, ServePoll(f), jobs[f.s].status # "none" PROVE \A g \in reqs' : Carried(g)
  <2>1. reqs' = (reqs \ {f}) \cup {[f EXCEPT !.st = "ok", !.got = jobs[f.s]]} /\ UNCHANGED << jobs, tasks >>
    BY <1>6 DEF ServePoll, Replace
  <2>2. [f EXCEPT !.st = "ok", !.got = jobs[f.s]].s = f.s /\ [f EXCEPT !.st = "ok", !.got = jobs[f.s]].got = jobs[f.s]
        /\ f.s \in Scans
    BY <1>6 DEF Shapes, ReqOK, ServePoll
  <2>3. QED
    BY <1>6, <2>1, <2>2 DEF Carried
<1>7. CASE Connector \/ Drop \/ \E s \in Scans : TakeReport(s) \/ StoreResults(s)
  BY <1>7 DEF Connector, Redial, ExecuteScan, Drop, TakeReport, StoreResults, Carried
<1>8. CASE Restart
  <2>1. \A f \in reqs : [f EXCEPT !.st = "failed"].st = "failed" /\ [f EXCEPT !.st = "failed"].got = f.got
    BY DEF Shapes, ReqOK
  <2>2. QED
    BY <1>8, <2>1 DEF Restart, Carried
<1>9. QED
  BY <1>2, <1>3, <1>4, <1>5, <1>6, <1>7, <1>8 DEF Next, Timer, Controller, Faulty

\* A poll that finds a job takes a snapshot of it.
LEMMA JobSnapshot == ASSUME Shapes, JobInv, NEW s \in Scans PROVE Snapshot(jobs[s])
<1>1. SUFFICES ASSUME jobs[s].status # "none" PROVE Snapshot(jobs[s])
  BY DEF Snapshot
<1>2. jobs[s].scan = s /\ s <= hist.asked /\ (jobs[s].results # {} => tasks[s].st = "none")
  BY <1>1 DEF JobInv, JobsOK
<1>3. \A f \in reqs : f.kind = "start" /\ f.s = s => f.st # "sent"
  BY <1>1 DEF JobInv, StartsOK
<1>4. QED
  BY <1>2, <1>3 DEF Snapshot

LEMMA SnapshotStep == ASSUME Shapes, JobInv, SnapshotInv, Next PROVE SnapshotInv'
<1>1. ASSUME NEW x \in Jobs, Snapshot(x) PROVE Snapshot(x)'
  BY <1>1, StartsKeptStep, QuietStep, SnapshotKeeps
<1>2. Snapshot(NoJob)'
  BY DEF Snapshot, NoJob
<1>3. \A f \in reqs : f.got \in Jobs /\ Snapshot(f.got)
  BY DEF Shapes, ReqOK, SnapshotInv
<1>4. \A f \in reqs : Snapshot(f.got)'
  BY <1>1, <1>3
<1>5. \E x : x = shown' /\ Snapshot(x)' /\ (x # NoJob => x.status # "none")
  <2>1. CASE shown' = shown
    <3>1. shown \in Jobs /\ Snapshot(shown) /\ (shown # NoJob => shown.status # "none")
      BY DEF Shapes, TypeOK, SnapshotInv
    <3>2. PICK x : x = shown
      OBVIOUS
    <3>3. Snapshot(x)'
      BY <1>1, <3>1, <3>2
    <3>4. QED
      BY <2>1, <3>1, <3>2, <3>3
  <2>2. CASE shown' = NoJob
    BY <1>2, <2>2
  <2>3. ASSUME NEW f \in reqs, StartAnswer(f), f.st = "ok", shown' = Pending(f.s)
        PROVE  \E x : x = shown' /\ Snapshot(x)' /\ (x # NoJob => x.status # "none")
    <3>1. f.kind = "start" /\ f.s \in Scans /\ f.s <= hist.asked
      BY <2>3 DEF StartAnswer, Shapes, ReqOK, JobInv, StartsOK
    <3>2. \A g \in reqs : g.kind = "start" /\ g.s = f.s => g.st # "sent"
      BY <2>3, <3>1 DEF JobInv, StartsOK
    <3>3. Pending(f.s) \in Jobs /\ Pending(f.s).status = "pending" /\ Snapshot(Pending(f.s))
      BY <3>1, <3>2, JobFacts DEF Snapshot, Pending
    <3>4. Snapshot(Pending(f.s))'
      BY <1>1, <3>3
    <3>5. QED
      BY <2>3, <3>3, <3>4
  <2>4. ASSUME NEW f \in reqs, PollAnswer(f), f.st = "ok", shown' = f.got
        PROVE  \E x : x = shown' /\ Snapshot(x)' /\ (x # NoJob => x.status # "none")
    <3>1. f.got.status # "none"
      BY <2>4 DEF PollAnswer, SnapshotInv
    <3>2. QED
      BY <1>4, <2>4, <3>1
  <2>5. QED
    BY <2>1, <2>2, <2>3, <2>4, ShownCases
<1>6. ASSUME NEW g \in reqs'
      PROVE  (g.kind = "poll" => (g.st = "ok" => g.got.scan = g.s /\ g.got.status # "none")) /\ Snapshot(g.got)'
  <2>1. Carried(g)
    BY <1>6, GotCases
  <2>2. CASE g \in reqs
    BY <1>4, <2>2 DEF SnapshotInv
  <2>3. CASE g.got = NoJob /\ g.st = "sent"
    BY <1>2, <2>3
  <2>4. ASSUME NEW f \in reqs, g.got = f.got, g.kind = "poll" => g.st # "ok" PROVE Snapshot(g.got)'
    BY <1>4, <2>4
  <2>5. ASSUME NEW f \in reqs, f.s \in Scans, jobs[f.s].status # "none", jobs' = jobs, tasks' = tasks,
               g.s = f.s, g.got = jobs[f.s]
        PROVE  Snapshot(g.got)' /\ g.got.scan = g.s /\ g.got.status # "none"
    <3>1. jobs[f.s] \in Jobs /\ Snapshot(jobs[f.s]) /\ jobs[f.s].scan = f.s
      BY <2>5, JobSnapshot DEF Shapes, TypeOK, JobInv, JobsOK
    <3>2. QED
      BY <1>1, <2>5, <3>1
  <2>6. QED
    BY <2>1, <2>2, <2>3, <2>4, <2>5 DEF Carried
<1>7. QED
  BY <1>5, <1>6 DEF SnapshotInv, Snapshot

-----------------------------------------------------------------------------
(* What the page says.                                                     *)

LEMMA ReportKeptStep == ASSUME Shapes, JobInv, ReportKept, Next PROVE ReportKept'
<1> USE DEF page
<1>1. CASE User \/ Timer \/ Answer
  BY <1>1, PageSteps, StartSteps DEF ReportKept
<1>2. ASSUME NEW f \in reqs, SendCommand(f) PROVE ReportKept'
  BY <1>2 DEF SendCommand, Shapes, TypeOK, Pending, ReportKept
<1>3. ASSUME NEW f \in reqs, MarkInProgress(f) PROVE ReportKept'
  <2>1. \A s \in Scans : jobs'[s].results = jobs[s].results /\ (s # f.s => jobs'[s] = jobs[s])
    BY <1>3 DEF MarkInProgress, Shapes, TypeOK, Jobs
  <2>2. hist.raced \subseteq hist'.raced /\ (jobs[f.s].status = "completed" => f.s \in hist'.raced)
    BY <1>3 DEF MarkInProgress, Shapes, Histories, Final
  <2>3. QED
    BY <2>1, <2>2 DEF ReportKept
<1>4. ASSUME NEW f \in reqs, ServePoll(f) \/ ServeAdd(f) \/ ServeFails(f) PROVE ReportKept'
  BY <1>4 DEF ServePoll, ServeAdd, ServeFails, Fault, Shapes, Histories, ReportKept
<1>5. ASSUME NEW s \in Scans, TakeReport(s) PROVE ReportKept'
  <2>1. jobs[s].results = {} /\ hist' = hist
    BY <1>5 DEF TakeReport, JobInv, JobsOK
  <2>2. \A x \in Scans : jobs'[x].results = jobs[x].results /\ (x # s => jobs'[x] = jobs[x])
    BY <1>5 DEF TakeReport, Shapes, TypeOK, Jobs
  <2>3. QED
    BY <2>1, <2>2 DEF ReportKept
<1>6. ASSUME NEW s \in Scans, StoreResults(s) PROVE ReportKept'
  <2>1. (jobs[s].status = "completed" \/ s \in hist.raced) /\ hist' = hist
    BY <1>6 DEF StoreResults, JobInv, JobsOK
  <2>2. \A x \in Scans : jobs'[x].status = jobs[x].status /\ (x # s => jobs'[x] = jobs[x])
    BY <1>6 DEF StoreResults, Shapes, TypeOK, Jobs
  <2>3. QED
    BY <2>1, <2>2 DEF ReportKept
<1>7. CASE Connector \/ Drop
  BY <1>7 DEF Connector, Redial, ExecuteScan, Drop, Fault, Shapes, Histories, ReportKept
<1>8. CASE Restart
  BY <1>8 DEF Restart, NoJob, ReportKept
<1>9. QED
  BY <1>1, <1>2, <1>3, <1>4, <1>5, <1>6, <1>7, <1>8 DEF Next, Controller, Connector, Faulty

LEMMA ShowsLastScanStep == ASSUME Shapes, TimerInv, SnapshotInv, ShowsLastScan, Next PROVE ShowsLastScan'
<1>1. SUFFICES ASSUME open', hist'.overlaps = 0, shown' # NoJob PROVE shown'.scan = hist'.asked
  BY DEF ShowsLastScan
<1>2. ~StartScan /\ ~OpenPage
  BY <1>1 DEF StartScan, OpenPage
<1>3. hist'.asked = hist.asked
  BY <1>2, PageSteps, ElsewherePage DEF Next, Elsewhere
<1>4. open
  BY <1>1, <1>2, ElsewherePage
     DEF Next, Elsewhere, User, Timer, Answer, ClosePage, AddResource, Poll, StartAnswer, PollAnswer, AddAnswer, page
<1>5. hist.overlaps = 0
  <2>1. hist' = hist \/ (\E S : hist' = [hist EXCEPT !.left = S]) \/ hist' = [hist EXCEPT !.adds = @ + 1]
        \/ hist' = [hist EXCEPT !.overlaps = @ + 1] \/ Elsewhere
    BY <1>2 DEF Next, Elsewhere, User, Timer, Answer, ClosePage, AddResource, Poll, StartAnswer, PollAnswer, AddAnswer
  <2>2. hist'.overlaps = hist.overlaps \/ hist'.overlaps = hist.overlaps + 1
    BY <2>1, ElsewherePage DEF Shapes, Histories
  <2>3. hist.overlaps \in Nat
    BY DEF Shapes, Histories
  <2>4. QED
    BY <1>1, <2>2, <2>3
<1>6. CASE shown' = shown
  BY <1>1, <1>3, <1>4, <1>5, <1>6 DEF ShowsLastScan
<1>7. ASSUME NEW f \in reqs, Here(f), f.kind \in {"start", "poll"} PROVE f.s = hist.asked
  BY <1>5, <1>7 DEF TimerInv, Sequential, OneAtATime, Busy, Here
<1>8. ASSUME NEW f \in reqs, StartAnswer(f), shown' # shown PROVE shown'.scan = hist'.asked
  <2>1. Here(f) /\ f.kind = "start" /\ shown' = Pending(f.s)
    BY <1>8 DEF StartAnswer
  <2>2. QED
    BY <1>3, <1>7, <1>8, <2>1 DEF Pending
<1>9. ASSUME NEW f \in reqs, PollAnswer(f), shown' # shown PROVE shown'.scan = hist'.asked
  <2>1. Here(f) /\ f.kind = "poll" /\ f.st = "ok" /\ shown' = f.got
    BY <1>9 DEF PollAnswer
  <2>2. f.got.scan = f.s
    BY <1>9, <2>1 DEF SnapshotInv
  <2>3. QED
    BY <1>3, <1>7, <1>9, <2>1, <2>2
<1>10. QED
  BY <1>1, <1>6, <1>8, <1>9, ShownCases

\* What is stored stays, and only ServeAdd confirms.
LEMMA StoredGrows == ASSUME Shapes, Next, NEW h \in Hits, stored[h] > 0 PROVE stored'[h] > 0
<1>1. CASE stored' = stored
  BY <1>1
<1>2. ASSUME NEW f \in reqs, ServeAdd(f) PROVE stored'[h] > 0
  <2>1. stored'[h] = stored[h] + (IF h \in f.h THEN 1 ELSE 0)
    BY <1>2 DEF ServeAdd
  <2>2. stored[h] \in Nat
    BY DEF Shapes, TypeOK
  <2>3. QED
    BY <2>1, <2>2
<1>3. CASE (User \/ Timer \/ Answer)
  BY <1>1, <1>3, PageSteps, StartSteps
<1>4. CASE Elsewhere /\ ~\E f \in reqs : ServeAdd(f)
  BY <1>1, <1>4 DEF Elsewhere, Controller, Connector, Faulty, SendCommand, MarkInProgress, ServePoll, ServeFails,
         TakeReport, StoreResults, ExecuteScan, Redial, Drop, Restart
<1>5. QED
  BY <1>2, <1>3, <1>4 DEF Next, Elsewhere

LEMMA Confirmations ==
    ASSUME Shapes, Next, NEW g \in reqs', g.kind = "add", g.st = "ok", g \notin reqs
    PROVE  \E f \in reqs : ServeAdd(f) /\ g.h = f.h
<1> USE DEF page
<1>1. ASSUME NEW f \in reqs, ServeAdd(f) PROVE g.h = f.h
  <2>1. [f EXCEPT !.st = "ok"].h = f.h
    BY <1>1 DEF Shapes, ReqOK
  <2>2. QED
    BY <1>1, <2>1 DEF ServeAdd, Replace
<1>2. ASSUME NEW f \in reqs PROVE [f EXCEPT !.st = "failed"].st = "failed"
  BY <1>2 DEF Shapes, ReqOK
<1>3. ASSUME NEW f \in reqs, SendCommand(f) PROVE FALSE
  <2>1. [f EXCEPT !.st = "marking"].kind = "start" /\ [f EXCEPT !.st = "ok"].kind = "start"
    BY <1>3 DEF SendCommand, Shapes, ReqOK
  <2>2. QED
    BY <1>3, <2>1 DEF SendCommand, Replace
<1>4. ASSUME NEW f \in reqs, MarkInProgress(f) PROVE FALSE
  <2>1. [f EXCEPT !.st = "ok"].kind = "start"
    BY <1>4 DEF MarkInProgress, Shapes, ReqOK
  <2>2. QED
    BY <1>4, <2>1 DEF MarkInProgress, Replace
<1>5. ASSUME NEW f \in reqs, ServePoll(f) PROVE FALSE
  <2>1. [f EXCEPT !.st = "failed"].kind = "poll" /\ [f EXCEPT !.st = "ok", !.got = jobs[f.s]].kind = "poll"
    BY <1>5 DEF ServePoll, Shapes, ReqOK
  <2>2. QED
    BY <1>5, <2>1 DEF ServePoll, Replace
<1>6. ASSUME NEW f \in reqs, ServeFails(f) PROVE FALSE
  BY <1>2, <1>6 DEF ServeFails, Replace
<1>7. CASE Restart
  <2>1. \A f \in reqs : [f EXCEPT !.st = "failed"].st = "failed"
    BY <1>2
  <2>2. QED
    BY <1>7, <2>1 DEF Restart
<1>8. CASE Connector \/ Drop \/ \E s \in Scans : TakeReport(s) \/ StoreResults(s)
  BY <1>8 DEF Connector, Redial, ExecuteScan, Drop, TakeReport, StoreResults
<1>9. CASE Answer
  BY <1>9 DEF Answer, StartAnswer, PollAnswer, AddAnswer
<1>10. ASSUME NEW r, r.st = "sent", reqs' = reqs \cup {r} PROVE FALSE
  BY <1>10
<1>11. CASE User
  <2>1. ASSUME NEW h \in Hits, AddResource(h) PROVE FALSE
    BY <2>1 DEF AddResource, Request
  <2>2. CASE StartScan
    BY <1>10, <2>2, StartSteps
  <2>3. QED
    BY <1>11, <2>1, <2>2 DEF User, OpenPage, ClosePage
<1>12. ASSUME NEW i \in intervals, Poll(i[1], i[2]) PROVE FALSE
  BY <1>12 DEF Poll, Request
<1>13. QED
  BY <1>1, <1>3, <1>4, <1>5, <1>6, <1>7, <1>8, <1>9, <1>11, <1>12 DEF Next, Timer, Controller, Faulty

LEMMA ConfirmedStep == ASSUME Shapes, ConfirmedStored, Next PROVE ConfirmedStored'
<1>1. SUFFICES ASSUME NEW g \in reqs', g.kind = "add", g.st = "ok", NEW h \in g.h PROVE stored'[h] > 0
  BY DEF ConfirmedStored
<1>2. CASE g \in reqs
  <2>1. h \in Hits /\ stored[h] > 0
    BY <1>1, <1>2 DEF Shapes, ReqOK, ConfirmedStored
  <2>2. QED
    BY <2>1, StoredGrows
<1>3. CASE g \notin reqs
  <2>1. PICK f \in reqs : ServeAdd(f) /\ g.h = f.h
    BY <1>1, <1>3, Confirmations
  <2>2. h \in Hits /\ h \in f.h
    BY <1>1, <2>1 DEF Shapes, ReqOK
  <2>3. stored'[h] = stored[h] + 1 /\ stored[h] \in Nat
    BY <2>1, <2>2 DEF ServeAdd, Shapes, TypeOK
  <2>4. QED
    BY <2>3
<1>4. QED
  BY <1>2, <1>3

LEMMA AddedStep == ASSUME Shapes, ConfirmedStored, AddedMeansStored, Next PROVE AddedMeansStored'
<1>1. SUFFICES ASSUME open', NEW h \in added' PROVE stored'[h] > 0
  BY DEF AddedMeansStored
<1>2. CASE open /\ h \in added
  <2>1. h \in Hits /\ stored[h] > 0
    BY <1>2 DEF Shapes, TypeOK, AddedMeansStored
  <2>2. QED
    BY <2>1, StoredGrows
<1>3. ASSUME NEW f \in reqs, f.kind = "add", f.st = "ok", h \in f.h PROVE stored'[h] > 0
  <2>1. h \in Hits /\ stored[h] > 0
    BY <1>3 DEF Shapes, ReqOK, ConfirmedStored
  <2>2. QED
    BY <2>1, StoredGrows
<1>4. \/ open /\ h \in added
      \/ \E f \in reqs : f.kind = "add" /\ f.st = "ok" /\ h \in f.h
  BY <1>1, ElsewherePage
     DEF Next, Elsewhere, User, Timer, Answer, OpenPage, ClosePage, StartScan, CanStart, AddResource, Poll,
         StartAnswer, PollAnswer, AddAnswer, Here, page
<1>5. QED
  BY <1>2, <1>3, <1>4

-----------------------------------------------------------------------------
(* The theorems.                                                           *)

LEMMA InitInv == Init => IInv
<1>1. SUFFICES ASSUME Init PROVE IInv
  OBVIOUS
<1>2. Shapes
  <2>1. 0 \in 0 .. MaxMounts /\ 0 \in 0 .. MaxScans /\ 0 \in 0 .. MaxAdds
    BY DiscoveryAssumption
  <2>2. QED
    BY <1>1, <2>1, JobFacts DEF Init, Shapes, TypeOK, Histories
<1>3. AddsCounted
  <2>1. \A h \in Hits : Unserved(h) = {} /\ stored[h] = 0
    BY <1>1 DEF Init, Unserved
  <2>2. QED
    BY <1>1, <2>1, FS_EmptySet DEF Init, AddsCounted
<1>4. TimerInv
  BY <1>1 DEF Init, TimerInv, Dated, Sequential, OneAtATime, PollersOwned, RefKnowsTimers
<1>5. PageInv
  BY <1>1 DEF Init, PageInv, JobInv, JobsOK, StartsOK, SnapshotInv, Snapshot, ConfirmedStored, ReportKept,
              ShowsLastScan, AddedMeansStored, NoJob, NoTask
<1>6. QED
  BY <1>2, <1>3, <1>4, <1>5 DEF IInv

LEMMA StutterInv == ASSUME IInv, UNCHANGED vars PROVE IInv'
<1>1. UNCHANGED << open, mount, scanning, shown, added, ref, intervals, reqs, jobs, stream, tasks, stored, hist >>
  BY DEF vars, page
<1>2. Shapes'
  BY <1>1 DEF IInv, Shapes, TypeOK
<1>3. AddsCounted'
  BY <1>1 DEF IInv, AddsCounted, Unserved
<1>4. TimerInv'
  BY <1>1 DEF IInv, TimerInv, Dated, Sequential, OneAtATime, Busy, PollersOwned, RefKnowsTimers
<1>5. PageInv'
  BY <1>1 DEF IInv, PageInv, JobInv, JobsOK, StartsOK, SnapshotInv, Snapshot, ConfirmedStored, ReportKept,
              ShowsLastScan, AddedMeansStored
<1>6. QED
  BY <1>2, <1>3, <1>4, <1>5 DEF IInv

LEMMA NextInv == ASSUME IInv, Next PROVE IInv'
<1>1. Shapes' /\ AddsCounted' /\ TimerInv'
  BY ShapesStep, CountStep, TimerStep DEF IInv
<1>2. JobInv' /\ SnapshotInv'
  BY JobsStep, StartsStep, SnapshotStep DEF IInv, PageInv, JobInv
<1>3. ConfirmedStored' /\ ReportKept' /\ ShowsLastScan' /\ AddedMeansStored'
  BY ConfirmedStep, ReportKeptStep, ShowsLastScanStep, AddedStep DEF IInv, PageInv
<1>4. QED
  BY <1>1, <1>2, <1>3 DEF IInv, PageInv

LEMMA Invariance == Spec => []IInv
  BY InitInv, StutterInv, NextInv, PTL DEF Spec

\* A page's completed scan shows the results the job has, or none: a snapshot
\* with results was taken when the job had its last ones.
LEMMA SnapshotShows == IInv => ShowsResults
<1>1. SUFFICES ASSUME IInv, shown.status = "completed", jobs[shown.scan].status = "completed", shown.results # {}
               PROVE  shown.results = jobs[shown.scan].results
  BY DEF ShowsResults
<1>2. Snapshot(shown)
  BY <1>1 DEF IInv, PageInv, SnapshotInv
<1>3. QED
  BY <1>1, <1>2 DEF Snapshot

\* Every timer is known to somebody who can stop it: while no tick of a timer
\* met an unanswered poll, pollRef holds every timer's handle, and a timer is
\* of the open page or of one left while its start was outstanding
\* (NetworkDiscoveryPage.tsx 38-48 and 93), for any number of scans, page
\* instances and faults.
THEOREM TimersOKTheorem == Spec => []TimersOK
<1>1. IInv => TimersOK
  BY DEF IInv, Shapes, TimerInv, TimersOK
<1>2. QED
  BY <1>1, Invariance, PTL

\* What the page says of a scan and of the resources added from it is true of
\* the controller's store, through lost reports, restarts, failed requests and
\* a report that overtakes MarkInProgress (scan_store.go, handlers_discovery.go).
THEOREM PageIsTrueTheorem == Spec => []PageIsTrue
<1>1. IInv => PageIsTrue
  BY SnapshotShows DEF IInv, PageInv, PageIsTrue
<1>2. QED
  BY <1>1, Invariance, PTL
=============================================================================
