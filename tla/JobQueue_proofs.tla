--------------------------- MODULE JobQueue_proofs ---------------------------
(***************************************************************************)
(* RequestQueue keeps the promises of JobQueue: every step of the table,   *)
(* the daemon and its processes is a step that JobQueue allows each job.   *)
(***************************************************************************)
EXTENDS RequestLimits_proofs

\* The commands whose after_request the code changes: when they are validated, or when they
\* postpone themselves.
Redirected == Hardware \cup {"start", "move_volume", "compact", "spinoff", "prepare_base"}

\* requirements_done forgets what after_request said when there is an after_request_ok: so no
\* caller gives both, nor gives the second to a command that may get the first.
OneRequirement ==
  \A r \in Ids : Args[r].after_request_ok # NoRequest =>
    Args[r].after_request = NoRequest /\ Command(r) \notin Redirected

-----------------------------------------------------------------------------
(* What a step does to a row.                                              *)

SameDeps(r) == /\ requests'[r].after_request = requests[r].after_request
               /\ requests'[r].after_request_ok = requests[r].after_request_ok

\* Whoever inserted r does nothing more with it.
StaysWithCaller(r) == r \in callers => r \in callers'

Untouched(r) ==
  /\ SameDeps(r) /\ StaysWithCaller(r)
  /\ \/ requests'[r].status = requests[r].status
     \/ requests[r].status # "absent" /\ requests'[r].status = "done"
     \/ /\ Restart /\ Command(r) \in DeletedAtRestart
        /\ requests[r].status # "absent" /\ requests'[r].status = "deleted"

IsCurrentStep(r) ==
  /\ SameDeps(r)
  /\ AboutToFork /\ current = r
  /\ requests'[r].status \in {"working", "waiting"}

IsCommandStep(r) ==
  /\ SameDeps(r)
  /\ IsExecuted(r)
  /\ requests'[r].status \notin {"absent", "deleted"}
  /\ requests'[r].status = "retry" => requests[r].status = "retry"

Postpones(r) ==
  \E p \in Pids, s \in Ids : /\ ChildPostpones(p, s) /\ proc[p].req = r
                             /\ requests'[r].after_request = s
                             /\ requests'[r].after_request_ok = requests[r].after_request_ok
                             /\ requests'[r].status \in {"retry", "done"}

Arrives(r) ==
  /\ Unready(r)
  /\ requests'[r].status \in {"requested", "done", "deleted"}
  /\ \/ NewRequest(r)
     \/ \E denied \in BOOLEAN : ValidateRequest(r, denied)
     \/ \E p \in Pids : ChildPostpones(p, r)

RowStep(r) == Untouched(r) \/ IsCurrentStep(r) \/ IsCommandStep(r) \/ Postpones(r) \/ Arrives(r)

\* Ending a request keeps its requirements.
LEMMA RowEnds ==
  ASSUME NEW row \in Row, NEW new,
         \/ new = [row EXCEPT !.status = "done"]
         \/ new = [row EXCEPT !.status = "done", !.error = TRUE]
  PROVE  /\ new.status = "done"
         /\ new.after_request = row.after_request
         /\ new.after_request_ok = row.after_request_ok
<1>1. CASE new = [row EXCEPT !.status = "done"]
  BY <1>1 DEF Row
<1>2. CASE new = [row EXCEPT !.status = "done", !.error = TRUE]
  BY <1>2 DEF Row
<1> QED
  BY <1>1, <1>2

\* A step that leaves the callers alone and makes at most some rows done.
LEMMA OnlyEnds ==
  ASSUME requests \in [Ids -> Row], callers' = callers,
         NEW victims, \A r \in victims : requests[r].status # "absent",
         requests' = Stopped(victims)
  PROVE  \A r \in Ids : Untouched(r)
BY DEF Stopped, Untouched, SameDeps, StaysWithCaller, Row

LEMMA CallerRows ==
  ASSUME TypeOK, NEW q \in Ids, NEW r \in Ids,
         NewRequest(q) \/ \E denied \in BOOLEAN : ValidateRequest(q, denied)
  PROVE  RowStep(r)
<1>0. requests \in [Ids -> Row]
  BY DEF TypeOK
<1>1. CASE NewRequest(q)
  <2>1. CASE r = q
    <3>1. requests'[r] = NewRow(r) /\ requests[r].status = "absent"
      BY <1>0, <1>1, <2>1 DEF NewRequest, IsNextId
    <3> QED
      BY <1>1, <2>1, <3>1 DEF RowStep, Arrives, Unready, NewRow
  <2>2. CASE r # q /\ r \in RemovedByStart(q)
    <3>1. requests'[r] = [requests[r] EXCEPT !.status = "done"] /\ callers \subseteq callers'
      BY <1>0, <1>1, <2>2 DEF NewRequest
    <3>2. requests[r].status # "absent"
      BY <2>2 DEF RemovedByStart, Pending
    <3> QED
      BY <1>0, <3>1, <3>2 DEF RowStep, Untouched, SameDeps, StaysWithCaller, Row
  <2>3. CASE r # q /\ r \notin RemovedByStart(q)
    BY <1>0, <1>1, <2>3 DEF NewRequest, RowStep, Untouched, SameDeps, StaysWithCaller
  <2> QED
    BY <2>1, <2>2, <2>3
<1>2. ASSUME NEW denied \in BOOLEAN, ValidateRequest(q, denied) PROVE RowStep(r)
  <2>1. CASE r = q
    <3>1. requests'[r] = Validated(requests[r], ValidatedAfter(r), denied)
      BY <1>0, <1>2, <2>1 DEF ValidateRequest
    <3>2. requests'[r].status \in {"requested", "done", "deleted"}
      BY <1>0, <3>1 DEF Validated, Row
    <3>3. Unready(r)
      BY <1>2, <2>1 DEF ValidateRequest, Unready
    <3> QED
      BY <1>2, <2>1, <3>2, <3>3 DEF RowStep, Arrives
  <2>2. CASE r # q
    <3>1. requests'[r] \in {requests[r], [requests[r] EXCEPT !.at = "none"]}
      BY <1>0, <1>2, <2>2 DEF ValidateRequest
    <3>2. SameDeps(r) /\ requests'[r].status = requests[r].status
      BY <1>0, <3>1 DEF SameDeps, Row
    <3>3. StaysWithCaller(r)
      BY <1>2, <2>2 DEF ValidateRequest, StaysWithCaller
    <3> QED
      BY <3>2, <3>3 DEF RowStep, Untouched
  <2> QED
    BY <2>1, <2>2
<1> QED
  BY <1>1, <1>2

LEMMA MasterRows ==
  ASSUME TypeOK, ProcessesKnown, NEW r \in Ids, Housekeeping \/ MasterStep
  PROVE  RowStep(r)
<1>0. requests \in [Ids -> Row] /\ callers' = callers
  BY DEF TypeOK, Housekeeping, MasterStep, KillStaleProcess, KillDeadProcess, TimeoutRequests,
         FetchRequests, SelectStep, PingBackend, FailRequest, SelectRequest, SkipRequest,
         CheckRequest, EndSelect, EndPass, MarkWorking, ReapBeforeFork, WaitForOthers, Fork,
         Restart
<1>1. CASE Housekeeping \/ ReapBeforeFork
  <2>1. WaitPids
    BY <1>1 DEF Housekeeping, ReapBeforeFork
  <2>2. \/ requests'[r] = requests[r]
        \/ /\ requests[r].status = "working"
           /\ requests'[r] = [requests[r] EXCEPT !.status = "done"]
    BY <1>0, <2>1 DEF WaitPids
  <2>3. /\ SameDeps(r)
        /\ \/ requests'[r].status = requests[r].status
           \/ (requests[r].status # "absent" /\ requests'[r].status = "done")
    BY <1>0, <2>2, RowEnds DEF SameDeps
  <2> QED
    BY <1>0, <2>3 DEF RowStep, Untouched, StaysWithCaller
<1>2. CASE KillStaleProcess \/ KillDeadProcess \/ TimeoutRequests
  <2>1. PICK victims : /\ requests' = Stopped(victims)
                       /\ \A o \in victims : requests[o].status # "absent"
    BY <1>2 DEF KillStaleProcess, KillDeadProcess, TimeoutRequests, StopSome, Pending
  <2> QED
    BY <1>0, <2>1, OnlyEnds DEF RowStep
<1>3. CASE \/ FetchRequests \/ EndSelect \/ EndPass
           \/ \E q \in Ids : SelectRequest(q) \/ SkipRequest(q) \/ CheckRequest(q)
  <2>1. requests' = requests
    BY <1>3 DEF FetchRequests, EndSelect, EndPass, SelectRequest, SkipRequest, CheckRequest
  <2> QED
    BY <1>0, <2>1 DEF RowStep, Untouched, SameDeps, StaysWithCaller
<1>4. ASSUME NEW q \in Ids, PingBackend(q) \/ FailRequest(q) PROVE RowStep(r)
  <2>1. requests[q].status # "absent"
    BY <1>4 DEF PingBackend, FailRequest, Exists
  <2>2. \/ requests'[r] = requests[r]
        \/ /\ q = r
           /\ \/ requests'[r] = [requests[r] EXCEPT !.status = "done"]
              \/ requests'[r] = [requests[r] EXCEPT !.status = "done", !.error = TRUE]
    BY <1>0, <1>4 DEF PingBackend, FailRequest
  <2>3. /\ SameDeps(r)
        /\ \/ requests'[r].status = requests[r].status
           \/ (requests[r].status # "absent" /\ requests'[r].status = "done")
    <3>1. CASE requests'[r] = requests[r]
      BY <3>1 DEF SameDeps
    <3>2. CASE requests'[r] # requests[r]
      <4>1. requests[r] \in Row /\ requests[r].status # "absent"
        BY <1>0, <2>1, <2>2, <3>2
      <4>2. /\ requests'[r].status = "done"
            /\ requests'[r].after_request = requests[r].after_request
            /\ requests'[r].after_request_ok = requests[r].after_request_ok
        BY <2>2, <3>2, <4>1, RowEnds
      <4> QED
        BY <4>1, <4>2 DEF SameDeps
    <3> QED
      BY <3>1, <3>2
  <2> QED
    BY <1>0, <2>3 DEF RowStep, Untouched, StaysWithCaller
<1>5. CASE MarkWorking
  <2> DEFINE victims == StoppedRefresh(current)
  <2>1. current \in Ids /\ AboutToFork
    BY <1>5 DEF MarkWorking, ProcessesKnown, AboutToFork
  <2>2. CASE r = current
    <3>1. requests'[r] = [requests[r] EXCEPT
            !.status = IF @ = "waiting" THEN @ ELSE "working", !.started = TRUE, !.error = FALSE]
      BY <1>0, <1>5, <2>1, <2>2, StopType DEF MarkWorking
    <3>2. SameDeps(r) /\ requests'[r].status \in {"working", "waiting"}
      BY <1>0, <3>1 DEF SameDeps, Row
    <3> QED
      BY <2>1, <2>2, <3>2 DEF RowStep, IsCurrentStep
  <2>3. CASE r # current
    <3>1. \/ requests'[r] = requests[r]
          \/ r \in victims /\ requests'[r] = [requests[r] EXCEPT !.status = "done"]
      BY <1>0, <1>5, <2>1, <2>3, StopType DEF MarkWorking, Stopped
    <3>2. r \in victims => requests[r].status # "absent"
      BY DEF StoppedRefresh
    <3>3. /\ SameDeps(r)
          /\ \/ requests'[r].status = requests[r].status
             \/ (r \in victims /\ requests'[r].status = "done")
      BY <1>0, <3>1, RowEnds DEF SameDeps
    <3> QED
      BY <1>0, <3>2, <3>3 DEF RowStep, Untouched, StaysWithCaller
  <2> QED
    BY <2>2, <2>3
<1>6. CASE WaitForOthers
  <2>1. current \in Ids /\ AboutToFork
    BY <1>6 DEF WaitForOthers, ProcessesKnown, AboutToFork
  <2>2. CASE r = current
    <3>1. requests'[r] = [requests[r] EXCEPT !.status = "waiting", !.error = TRUE, !.at = "later"]
      BY <1>0, <1>6, <2>1, <2>2 DEF WaitForOthers
    <3>2. SameDeps(r) /\ requests'[r].status = "waiting"
      BY <1>0, <3>1 DEF SameDeps, Row
    <3> QED
      BY <2>1, <2>2, <3>2 DEF RowStep, IsCurrentStep
  <2>3. CASE r # current
    BY <1>0, <1>6, <2>3 DEF WaitForOthers, RowStep, Untouched, SameDeps, StaysWithCaller
  <2> QED
    BY <2>2, <2>3
<1>7. ASSUME NEW p \in Pids, Fork(p) PROVE RowStep(r)
  <2>1. SameDeps(r) /\ requests'[r].status = requests[r].status
    BY <1>0, <1>7 DEF Fork, SameDeps, Row
  <2> QED
    BY <1>0, <2>1 DEF RowStep, Untouched, StaysWithCaller
<1>8. CASE Restart
  <2>1. \/ requests'[r] = requests[r]
        \/ /\ requests[r].status # "absent"
           /\ \/ requests'[r] = [requests[r] EXCEPT !.status = "done"]
              \/ /\ requests'[r] = [requests[r] EXCEPT !.status = "deleted"]
                 /\ Command(r) \in DeletedAtRestart
    BY <1>0, <1>8 DEF Restart
  <2>2. /\ SameDeps(r)
        /\ \/ requests'[r].status = requests[r].status
           \/ /\ requests[r].status # "absent"
              /\ \/ requests'[r].status = "done"
                 \/ requests'[r].status = "deleted" /\ Command(r) \in DeletedAtRestart
    <3>1. CASE requests'[r] = [requests[r] EXCEPT !.status = "deleted"]
      BY <1>0, <2>1, <3>1 DEF SameDeps, Row
    <3>2. CASE requests'[r] # [requests[r] EXCEPT !.status = "deleted"]
      BY <1>0, <2>1, <3>2, RowEnds DEF SameDeps
    <3> QED
      BY <3>1, <3>2
  <2> QED
    BY <1>0, <1>8, <2>2 DEF RowStep, Untouched, StaysWithCaller
<1> QED
  BY <1>1, <1>2, <1>3, <1>4, <1>5, <1>6, <1>7, <1>8 DEF MasterStep, SelectStep

LEMMA ChildRows ==
  ASSUME TypeOK, ProcessesKnown, NEW r \in Ids, NEW p \in Pids, ChildProgress(p) \/ ChildDies(p)
  PROVE  RowStep(r)
<1> DEFINE own == proc[p].req
<1>0. requests \in [Ids -> Row] /\ callers' = callers /\ own \in Ids
  BY ChildKeeps DEF TypeOK, ProcessesKnown
<1>1. CASE ChildBegin(p) \/ ChildAsksRetry(p) \/ \E failed \in BOOLEAN : ChildFinish(p, failed)
  <2>1. proc[p].state \in {"forked", "running"}
    BY <1>1 DEF ChildBegin, ChildAsksRetry, ChildFinish, ChildStep, SetProcess
  <2>2. CASE r # own
    BY <1>0, <1>1, <2>2
    DEF ChildBegin, ChildAsksRetry, ChildFinish, RowStep, Untouched, SameDeps, StaysWithCaller
  <2>3. CASE r = own
    <3>1. IsExecuted(r)
      BY <2>1, <2>3 DEF IsExecuted, Executing
    <3>2. \/ requests'[r] = [requests[r] EXCEPT !.status = "working", !.pid = p]
          \/ requests'[r] = [requests[r] EXCEPT !.status = "requested", !.error = TRUE]
          \/ \E failed \in BOOLEAN : requests'[r] = Finished(requests[r], failed)
      BY <1>0, <1>1, <2>3 DEF ChildBegin, ChildAsksRetry, ChildFinish
    <3>3. /\ SameDeps(r) /\ requests'[r].status \in {"working", "requested", "retry", "done"}
          /\ requests'[r].status = "retry" => requests[r].status = "retry"
      BY <1>0, <3>2 DEF SameDeps, Finished, Row
    <3> QED
      BY <3>1, <3>3 DEF RowStep, IsCommandStep
  <2> QED
    BY <2>2, <2>3
<1>2. CASE ChildReschedules(p)
  <2>1. requests'[r] = requests[r]
        \/ requests'[r] = [requests[r] EXCEPT !.at = "later", !.retry = proc[p].left]
    BY <1>0, <1>2 DEF ChildReschedules
  <2>2. SameDeps(r) /\ requests'[r].status = requests[r].status
    BY <1>0, <2>1 DEF SameDeps, Row
  <2> QED
    BY <1>0, <2>2 DEF RowStep, Untouched, StaysWithCaller
<1>3. ASSUME NEW s \in Ids, ChildPostpones(p, s) PROVE RowStep(r)
  <2>1. CASE r = s
    <3>1. requests'[r] = NewRow(r) /\ requests[r].status = "absent"
      BY <1>0, <1>3, <2>1 DEF ChildPostpones, IsNextId
    <3> QED
      BY <1>3, <2>1, <3>1 DEF RowStep, Arrives, Unready, NewRow
  <2>2. CASE r # s /\ r = own
    <3>1. requests'[r] = Postponed(requests[r], s)
      BY <1>0, <1>3, <2>2 DEF ChildPostpones
    <3>2. /\ requests'[r].after_request = s
          /\ requests'[r].after_request_ok = requests[r].after_request_ok
          /\ requests'[r].status \in {"retry", "done"}
      BY <1>0, <3>1 DEF Postponed, Row
    <3> QED
      BY <1>3, <2>2, <3>2 DEF RowStep, Postpones
  <2>3. CASE r # s /\ r # own
    BY <1>0, <1>3, <2>3 DEF ChildPostpones, RowStep, Untouched, SameDeps, StaysWithCaller
  <2> QED
    BY <2>1, <2>2, <2>3
<1>4. CASE ChildExit(p) \/ ChildDies(p)
  BY <1>0, <1>4 DEF ChildExit, ChildDies, RowStep, Untouched, SameDeps, StaysWithCaller
<1> QED
  BY <1>1, <1>2, <1>3, <1>4 DEF ChildProgress

LEMMA NextRows ==
  ASSUME TypeOK, ProcessesKnown, Next, NEW r \in Ids
  PROVE  RowStep(r)
<1>1. ASSUME NEW q \in Ids, TimePasses(q) PROVE RowStep(r)
  <2>1. SameDeps(r) /\ requests'[r].status = requests[r].status
    BY <1>1 DEF TimePasses, TypeOK, SameDeps, Row
  <2> QED
    BY <1>1, <2>1 DEF TimePasses, RowStep, Untouched, StaysWithCaller
<1>2. CASE Crash
  BY <1>2 DEF Crash, RowStep, Untouched, SameDeps, StaysWithCaller
<1> QED
  BY <1>1, <1>2, CallerRows, MasterRows, ChildRows DEF Next

-----------------------------------------------------------------------------
(* What the queue knows of the requirements of a request.                  *)

\* A request that is executed, or that the pass has chosen, comes only after jobs that are
\* over; nobody deletes it; and no request comes after one that is not ready.
Ordered ==
  /\ \A r \in Ids : requests[r].after_request_ok # NoRequest =>
       requests[r].after_request = NoRequest /\ Command(r) \notin Redirected
  /\ \A r \in Ids : requests[r].status # "absent" => \A d \in DepOf(r) : ~ Unready(d)
  /\ \A a \in callers : requests[a].status # "absent" /\ \A b \in callers : a = b
  /\ \A r \in Ids : Chosen(r) \/ IsExecuted(r) =>
       requests[r].status # "deleted" /\ \A d \in DepOf(r) : JobOf(d) = "over"
  /\ master = "down" => selected = {} /\ \A p \in Pids : proc[p].state = "none"

LEMMA DepsAreRequests ==
  ASSUME TypeOK, NEW r \in Ids
  PROVE  DepOf(r) \subseteq Ids
BY DEF DepOf, TypeOK, Row

\* Only the fork for current makes a request executed.
LEMMA OnlyCurrentStarts ==
  ASSUME TypeOK, ProcessesKnown, Next, NEW r \in Ids, IsExecuted(r)', ~ IsExecuted(r)
  PROVE  r = current /\ AboutToFork /\ \E p \in Pids : Fork(p)
<1>1. PICK p \in Pids : Executing(p)' /\ proc'[p].req = r
  BY DEF IsExecuted
<1>2. ~ (Executing(p) /\ proc'[p].req = proc[p].req)
  BY <1>1 DEF IsExecuted
<1>3. Fork(p)
  BY <1>1, <1>2, OnlyForkStarts
<1> QED
  BY <1>1, <1>3 DEF Fork, TypeOK, AboutToFork

\* Nothing executes a request that is not ready, and no pass has chosen it.
LEMMA UnreadyIdle ==
  ASSUME EachOnce, NEW r \in Ids, Unready(r)
  PROVE  ~ IsExecuted(r) /\ ~ Chosen(r)
BY DEF EachOnce, IsExecuted, Chosen

\* The life of a job, in the words of RequestQueue.
LEMMA JobsProgress ==
  ASSUME TypeOK, NEW r \in Ids,
         \/ JobOf(r)' = JobOf(r) /\ (JobOf(r) # "new" => DepOf(r)' = DepOf(r))
         \/ JobOf(r) = "new" /\ JobOf(r)' \in {"pending", "over"}
         \/ JobOf(r) = "running" /\ JobOf(r)' \in {"pending", "over"}
         \/ /\ DepOf(r)' = DepOf(r) /\ JobOf(r) = "pending"
            /\ \/ JobOf(r)' = "over"
               \/ JobOf(r)' = "running" /\ \A d \in DepOf(r) : JobOf(d) = "over"
  PROVE  Queue!Progress(r)
<1>1. DepOf(r) \subseteq Ids
  BY DepsAreRequests
<1> QED
  BY <1>1 DEF Queue!Progress, Queue!MayStart

LEMMA SameDepsSame ==
  ASSUME NEW r, SameDeps(r)
  PROVE  DepOf(r)' = DepOf(r)
BY DEF SameDeps, DepOf

\* A command that postpones itself ends.
LEMMA PostponesEnds ==
  ASSUME TypeOK, EachOnce, NEW r \in Ids, Postpones(r)
  PROVE  IsExecuted(r) /\ ~ IsExecuted(r)' /\ ~ Chosen(r)
<1>1. PICK p \in Pids, s \in Ids : ChildPostpones(p, s) /\ proc[p].req = r
  BY DEF Postpones
<1>2. Executing(p) /\ ~ Executing(p)'
  BY <1>1 DEF ChildPostpones, ChildStep, SetProcess, TypeOK, Process, Executing
<1>3. \A q \in Pids \ {p} : proc'[q] = proc[q] /\ (Executing(q) => proc[q].req # r)
  BY <1>1, <1>2, ChildKeeps DEF ChildProgress, EachOnce, OneProcessPerRequest
<1>4. r \notin selected /\ ~ (AboutToFork /\ current = r)
  BY <1>1, <1>2 DEF EachOnce
<1> QED
  BY <1>1, <1>2, <1>3, <1>4 DEF IsExecuted, Executing, Chosen

\* A job that was not submitted before.
LEMMA NewProgress ==
  ASSUME TypeOK, ProcessesKnown, EachOnce, Next, NEW r \in Ids, Unready(r)
  PROVE  Queue!Progress(r)
<1>1. RowStep(r)
  BY NextRows
<1>2. ~ IsExecuted(r) /\ ~ Chosen(r) /\ JobOf(r) = "new"
  BY UnreadyIdle DEF JobOf, Unready
<1>3. ~ IsExecuted(r)'
  BY <1>2, OnlyCurrentStarts DEF Chosen
<1>4. ~ IsCurrentStep(r) /\ ~ IsCommandStep(r) /\ ~ Postpones(r)
  <2>1. ~ Postpones(r)
    BY <1>2 DEF Postpones, ChildPostpones, IsExecuted, Executing
  <2> QED
    BY <1>2, <2>1 DEF IsCurrentStep, Chosen, IsCommandStep
<1>5. CASE Untouched(r)
  <2>1. Unready(r)'
    BY <1>5 DEF Untouched, StaysWithCaller, Unready
  <2>2. JobOf(r)' = "new"
    BY <2>1 DEF JobOf, Unready
  <2> QED
    BY <1>2, <2>2, JobsProgress
<1>6. CASE Arrives(r)
  <2>1. JobOf(r)' \in {"new", "pending", "over"}
    BY <1>3, <1>6 DEF Arrives, JobOf
  <2> QED
    BY <1>2, <2>1, JobsProgress
<1> QED
  BY <1>1, <1>4, <1>5, <1>6 DEF RowStep

\* A job that was.
LEMMA ReadyProgress ==
  ASSUME TypeOK, ProcessesKnown, EachOnce, NotDoneEarly, Ordered, Next,
         NEW r \in Ids, ~ Unready(r)
  PROVE  Queue!Progress(r)
<1>1. RowStep(r) /\ ~ Arrives(r) /\ ~ Unready(r)'
  BY NextRows, ReadyStays DEF Arrives
<1>2. /\ JobOf(r) = IF requests[r].status = "working" \/ IsExecuted(r) THEN "running"
                    ELSE IF requests[r].status \in {"done", "deleted"} THEN "over"
                    ELSE "pending"
      /\ JobOf(r)' = IF requests'[r].status = "working" \/ IsExecuted(r)' THEN "running"
                     ELSE IF requests'[r].status \in {"done", "deleted"} THEN "over"
                     ELSE "pending"
  BY <1>1 DEF JobOf, Unready
<1>3. AboutToFork /\ current = r => /\ requests[r].status \notin {"done", "deleted"}
                                    /\ \A d \in DepOf(r) : JobOf(d) = "over"
  BY DEF NotDoneEarly, IsDone, Ordered, Chosen
<1>4. CASE IsExecuted(r)' /\ ~ IsExecuted(r)
  <2>1. AboutToFork /\ current = r /\ \E p \in Pids : Fork(p)
    BY <1>4, OnlyCurrentStarts
  <2>2. SameDeps(r)
    BY <2>1 DEF Fork, TypeOK, Row, SameDeps
  <2> QED
    BY <1>2, <1>3, <1>4, <2>1, <2>2, SameDepsSame, JobsProgress
<1>5. CASE Untouched(r) /\ (IsExecuted(r)' => IsExecuted(r))
  <2>1. DepOf(r)' = DepOf(r)
    BY <1>5, SameDepsSame DEF Untouched
  <2>2. requests'[r].status \in {requests[r].status, "done", "deleted"}
    BY <1>5 DEF Untouched
  <2> QED
    BY <1>2, <1>5, <2>1, <2>2, JobsProgress
<1>6. CASE IsCurrentStep(r)
  BY <1>2, <1>3, <1>6, SameDepsSame, JobsProgress DEF IsCurrentStep
<1>7. CASE IsCommandStep(r)
  BY <1>2, <1>7, SameDepsSame, JobsProgress DEF IsCommandStep
<1>8. CASE Postpones(r)
  <2>1. requests'[r].status \in {"retry", "done"} /\ IsExecuted(r) /\ ~ IsExecuted(r)'
    BY <1>8, PostponesEnds DEF Postpones
  <2> QED
    BY <1>2, <2>1, JobsProgress
<1> QED
  BY <1>1, <1>4, <1>5, <1>6, <1>7, <1>8 DEF RowStep

\* A job that is over stays over.
LEMMA OverStays ==
  ASSUME TypeOK, ProcessesKnown, EachOnce, NotDoneEarly, Ordered, Next,
         NEW d \in Ids, JobOf(d) = "over"
  PROVE  JobOf(d)' = "over"
<1>1. ~ Unready(d)
  BY DEF JobOf, Unready
<1>2. Queue!Progress(d)
  BY <1>1, ReadyProgress
<1> QED
  BY <1>2 DEF Queue!Progress

-----------------------------------------------------------------------------
(* Ordered is an invariant.                                                *)

\* What searching and validating find are requests that are inserted, other than r.
LEMMA SearchFinds ==
  ASSUME NEW r \in Ids, NEW commands, SearchRequest(r, commands) # NoRequest
  PROVE  /\ SearchRequest(r, commands) \in Ids \ {r}
         /\ requests[SearchRequest(r, commands)].status # "absent"
<1> DEFINE found == Found(r, commands)
           dates == {Args[o].date_req : o \in found}
           first == {o \in found : \A q \in found : Args[o].date_req <= Args[q].date_req}
<1>1. found # {}
  BY DEF SearchRequest
<1>2. found \subseteq {o \in Ids \ {r} : requests[o].status # "absent"}
  BY DEF Found, Pending
<1>3. dates \subseteq Nat /\ dates # {}
  BY <1>1, <1>2, ArgsAssumption DEF ArgRecord
<1>4. \E d \in dates : \A e \in dates : d <= e
  BY <1>3, LeastNat
<1>5. first # {} /\ first \subseteq Ids
  BY <1>2, <1>4
<1>6. \E o \in first : \A q \in first : q <= o
  BY <1>5, GreatestNat, SizeAssumption DEF Ids
<1>7. SearchRequest(r, commands) \in found
  BY <1>1, <1>6 DEF SearchRequest
<1> QED
  BY <1>2, <1>7

LEMMA ValidatedFinds ==
  ASSUME NEW r \in Ids, NEW d, d = ValidatedAfter(r), d # NoRequest, d # requests[r].after_request
  PROVE  d \in Ids \ {r} /\ requests[d].status # "absent"
<1>1. \E commands : d = SearchRequest(r, commands)
  BY DEF ValidatedAfter, Later
<1> QED
  BY <1>1, SearchFinds

LEMMA ValidatedKeeps ==
  ASSUME NEW r \in Ids, Command(r) \notin Redirected
  PROVE  ValidatedAfter(r) = requests[r].after_request
BY DEF ValidatedAfter, Redirected

\* What a caller does to the requirements of a request, its own or another.
LEMMA CallerDeps ==
  ASSUME TypeOK, EachOnce, Ordered, OneRequirement, PromptCallers, NEW q \in Ids,
         NewRequest(q) \/ \E denied \in BOOLEAN : ValidateRequest(q, denied)
  PROVE  /\ requests'[q].after_request_ok # NoRequest =>
              requests'[q].after_request = NoRequest /\ Command(q) \notin Redirected
         /\ \A d \in DepOf(q)' : ~ Unready(d)'
         /\ \A a \in callers' : requests'[a].status # "absent" /\ \A b \in callers' : a = b
<1>0. requests \in [Ids -> Row] /\ callers \subseteq Ids
  BY DEF TypeOK
<1>1. CASE NewRequest(q)
  <2>1. /\ callers = {} /\ callers' = {q}
        /\ requests'[q] = NewRow(q)
        /\ \A o \in Ids : o < q => requests[o].status # "absent"
    BY <1>0, <1>1 DEF NewRequest, IsNextId
  <2>2. \A o \in Ids : requests[o].status # "absent" => requests'[o].status # "absent"
    BY <1>0, <1>1 DEF NewRequest, IsNextId, Row
  <2>3. /\ requests'[q].after_request = Args[q].after_request
        /\ requests'[q].after_request_ok = Args[q].after_request_ok
        /\ requests'[q].status = "requested"
    BY <2>1 DEF NewRow
  <2>4. ASSUME NEW d \in DepOf(q)' PROVE ~ Unready(d)'
    <3>1. d \in Ids /\ d < q
      BY <2>3, <2>4, ArgsAssumption DEF DepOf, ArgRecord
    <3>2. d # q
      BY <3>1 DEF Ids
    <3> QED
      BY <2>1, <2>2, <3>1, <3>2 DEF Unready
  <2> QED
    BY <2>1, <2>3, <2>4 DEF OneRequirement
<1>2. ASSUME NEW denied \in BOOLEAN, ValidateRequest(q, denied)
      PROVE  /\ requests'[q].after_request_ok # NoRequest =>
                  requests'[q].after_request = NoRequest /\ Command(q) \notin Redirected
             /\ \A d \in DepOf(q)' : ~ Unready(d)'
             /\ callers' = {}
  <2>1. callers = {q} /\ callers' = {} /\ requests[q].status # "absent"
    BY <1>2 DEF ValidateRequest, Ordered
  <2>2. requests'[q] = Validated(requests[q], ValidatedAfter(q), denied)
    BY <1>0, <1>2 DEF ValidateRequest
  <2>3. /\ requests'[q].after_request = ValidatedAfter(q)
        /\ requests'[q].after_request_ok = requests[q].after_request_ok
        /\ requests'[q].status # "absent"
    BY <1>0, <2>1, <2>2 DEF Validated, Row
  <2>4. \A o \in Ids \ {q} : requests'[o].status = requests[o].status
    BY <1>0, <1>2 DEF ValidateRequest, Row
  <2>5. ASSUME NEW d \in DepOf(q)' PROVE ~ Unready(d)'
    <3>1. CASE d \in DepOf(q)
      <4>1. d \in Ids /\ ~ Unready(d)
        BY <2>1, <3>1, DepsAreRequests DEF Ordered
      <4> QED
        BY <2>1, <2>3, <2>4, <4>1 DEF Unready
    <3>2. CASE d \notin DepOf(q)
      <4>1. d = ValidatedAfter(q) /\ d # NoRequest /\ d # requests[q].after_request
        BY <2>3, <2>5, <3>2 DEF DepOf
      <4>2. d \in Ids \ {q} /\ requests[d].status # "absent"
        BY <4>1, ValidatedFinds
      <4> QED
        BY <2>1, <2>4, <4>2 DEF Unready
    <3> QED
      BY <3>1, <3>2
  <2> QED
    BY <2>1, <2>3, <2>5, ValidatedKeeps DEF Ordered
<1> QED
  BY <1>1, <1>2

\* The shutdown that a prepare_base asks for is ready at once, and comes after nothing.
LEMMA PostponeDeps ==
  ASSUME TypeOK, ProcessesKnown, EachOnce, Ordered, NEW p \in Pids, NEW s \in Ids,
         ChildPostpones(p, s), NEW r \in Ids, proc[p].req = r
  PROVE  /\ DepOf(s)' = {} /\ ~ Unready(s)'
         /\ DepOf(r)' = {s}
         /\ requests'[r].after_request_ok = NoRequest
         /\ requests'[s].after_request_ok = NoRequest
<1>0. /\ requests \in [Ids -> Row]
      /\ requests[s].status = "absent" /\ callers' = callers
      /\ s \in callers => requests[s].status # "absent"
      /\ Command(r) = "prepare_base" /\ Executing(p)
  BY DEF TypeOK, ChildPostpones, IsNextId, ChildStep, SetProcess, Ordered,
         Executing
<1>1. r # s
  BY <1>0, UnreadyIdle DEF IsExecuted, Unready
<1>2. /\ requests'[s] = NewRow(s)
      /\ Args[s].after_request = NoRequest /\ Args[s].after_request_ok = NoRequest
      /\ requests'[r] = Postponed(requests[r], s)
  BY <1>0, <1>1 DEF ChildPostpones
<1>3. /\ requests'[s].status = "requested"
      /\ requests'[s].after_request = NoRequest /\ requests'[s].after_request_ok = NoRequest
  BY <1>2 DEF NewRow
<1>4. /\ requests'[r].after_request = s
      /\ requests'[r].after_request_ok = requests[r].after_request_ok
  BY <1>0, <1>2 DEF Postponed, Row
<1>5. requests[r].after_request_ok = NoRequest
  BY <1>0 DEF Ordered, Redirected
<1>6. s # NoRequest
  BY DEF Ids, NoRequest
<1> QED
  BY <1>0, <1>3, <1>4, <1>5, <1>6 DEF DepOf, Unready

\* The requirements of a request, after a step.
LEMMA NextDeps ==
  ASSUME TypeOK, ProcessesKnown, EachOnce, Ordered, OneRequirement, PromptCallers, Next,
         NEW r \in Ids
  PROVE  /\ requests'[r].after_request_ok # NoRequest =>
              requests'[r].after_request = NoRequest /\ Command(r) \notin Redirected
         /\ requests'[r].status # "absent" => \A d \in DepOf(r)' : ~ Unready(d)'
<1>1. RowStep(r)
  BY NextRows
<1>2. \A d \in Ids : Unready(d)' => Unready(d)
  BY ReadyStays
<1>3. CASE SameDeps(r) /\ (requests'[r].status # "absent" => requests[r].status # "absent")
  <2>1. DepOf(r)' = DepOf(r) /\ DepOf(r) \subseteq Ids
    BY <1>3, SameDepsSame, DepsAreRequests
  <2> QED
    BY <1>2, <1>3, <2>1 DEF SameDeps, Ordered
<1>4. CASE Untouched(r)
  BY <1>3, <1>4 DEF Untouched
<1>5. CASE IsCurrentStep(r) \/ IsCommandStep(r)
  <2>1. ~ Unready(r)
    BY <1>5, UnreadyIdle DEF IsCurrentStep, IsCommandStep, Chosen
  <2> QED
    BY <1>3, <1>5, <2>1 DEF IsCurrentStep, IsCommandStep, Unready
<1>6. CASE Postpones(r)
  BY <1>6, PostponeDeps DEF Postpones
<1>7. CASE Arrives(r)
  <2>1. CASE NewRequest(r) \/ \E denied \in BOOLEAN : ValidateRequest(r, denied)
    BY <2>1, CallerDeps
  <2>2. ASSUME NEW p \in Pids, ChildPostpones(p, r)
        PROVE  DepOf(r)' = {} /\ requests'[r].after_request_ok = NoRequest
    <3>1. proc[p].req \in Ids
      BY <2>2 DEF ChildPostpones, ChildStep, SetProcess, ProcessesKnown
    <3> QED
      BY <2>2, <3>1, PostponeDeps
  <2> QED
    BY <1>7, <2>1, <2>2 DEF Arrives
<1> QED
  BY <1>1, <1>4, <1>5, <1>6, <1>7 DEF RowStep

\* A pass selects a request when what it comes after is over.
LEMMA SelectedIsOrdered ==
  ASSUME TypeOK, ProcessesKnown, EachOnce, NotDoneEarly, Ordered,
         NEW r \in Ids, SelectRequest(r)
  PROVE  requests[r].status # "deleted" /\ \A d \in DepOf(r) : JobOf(d) = "over"
<1>1. requests[r].status \notin {"absent", "deleted"} /\ RequirementsDone(r)
  BY DEF SelectRequest, Exists
<1>2. ASSUME NEW d \in DepOf(r) PROVE JobOf(d) = "over"
  <2>1. d \in Ids /\ ~ Unready(d)
    BY <1>1, DepsAreRequests DEF Ordered
  <2>2. IsDone(d) \/ requests[d].status \in {"absent", "deleted"}
    <3>1. CASE requests[r].after_request_ok # NoRequest
      <4>1. d = requests[r].after_request_ok
        BY <3>1 DEF DepOf, Ordered
      <4> QED
        BY <1>1, <3>1, <4>1 DEF RequirementsDone
    <3>2. CASE requests[r].after_request_ok = NoRequest
      <4>1. d = requests[r].after_request /\ d # NoRequest
        BY <3>2 DEF DepOf
      <4> QED
        BY <1>1, <3>2, <4>1 DEF RequirementsDone, Exists
    <3> QED
      BY <3>1, <3>2
  <2>3. ~ IsExecuted(d)
    BY <2>1, <2>2 DEF NotDoneEarly, Ordered, IsExecuted, Unready
  <2> QED
    BY <2>1, <2>2, <2>3 DEF JobOf, Unready, IsDone
<1> QED
  BY <1>1, <1>2

\* Only selecting a request chooses it.
LEMMA OnlySelectChooses ==
  ASSUME ProcessesKnown, Next, TypeOK, NEW r \in Ids, Chosen(r)'
  PROVE  Chosen(r) \/ SelectRequest(r)
<1>1. CASE MasterStep
  BY <1>1
  DEF MasterStep, KillStaleProcess, KillDeadProcess, TimeoutRequests, FetchRequests, SelectStep,
      PingBackend, FailRequest, SelectRequest, SkipRequest, CheckRequest, ComesFirst, EndSelect,
      EndPass, MarkWorking, ReapBeforeFork, WaitForOthers, Fork, Restart, Chosen, AboutToFork,
      passVars
<1>2. CASE \/ \E q \in Ids : NewRequest(q) \/ TimePasses(q)
           \/ \E q \in Ids, denied \in BOOLEAN : ValidateRequest(q, denied)
           \/ Housekeeping \/ Crash
  BY <1>2 DEF NewRequest, TimePasses, ValidateRequest, Housekeeping, Crash, Chosen, AboutToFork,
              passVars
<1>3. ASSUME NEW p \in Pids, ChildProgress(p) \/ ChildDies(p) PROVE Chosen(r)
  BY <1>3, ChildKeeps DEF Chosen, AboutToFork, passVars
<1> QED
  BY <1>1, <1>2, <1>3 DEF Next

\* Nobody deletes a request that is chosen or executed.
LEMMA StaysUndeleted ==
  ASSUME TypeOK, ProcessesKnown, EachOnce, Ordered, Next, NEW r \in Ids,
         Chosen(r) \/ IsExecuted(r) \/ SelectRequest(r)
  PROVE  requests'[r].status # "deleted" /\ (~ Postpones(r) => SameDeps(r))
<1>1. RowStep(r) /\ requests[r].status # "deleted"
  BY NextRows DEF Ordered, SelectRequest, Exists
<1>2. ~ Arrives(r)
  <2>1. CASE SelectRequest(r)
    BY <2>1 DEF SelectRequest, IsOldest, Arrives, EachOnce
  <2> QED
    BY <2>1, UnreadyIdle DEF Arrives
<1>3. ~ Restart
  BY DEF Restart, Ordered, Chosen, AboutToFork, IsExecuted, Executing, SelectRequest
<1> QED
  BY <1>1, <1>2, <1>3 DEF RowStep, Untouched, IsCurrentStep, IsCommandStep, Postpones

LEMMA NextOrdered ==
  ASSUME TypeOK, ProcessesKnown, EachOnce, NotDoneEarly, Ordered,
         OneRequirement, PromptCallers, Next
  PROVE  Ordered'
<1>1. \A a \in callers' : requests'[a].status # "absent" /\ \A b \in callers' : a = b
  <2>1. CASE \E q \in Ids : NewRequest(q) \/ \E denied \in BOOLEAN : ValidateRequest(q, denied)
    BY <2>1, CallerDeps
  <2>2. CASE ~ \E q \in Ids : NewRequest(q) \/ \E denied \in BOOLEAN : ValidateRequest(q, denied)
    <3>1. callers' = callers
      BY <2>2, ChildKeeps
      DEF Next, TimePasses, Housekeeping, MasterStep, KillStaleProcess, KillDeadProcess,
          TimeoutRequests, FetchRequests, SelectStep, PingBackend, FailRequest, SelectRequest,
          SkipRequest, CheckRequest, EndSelect, EndPass, MarkWorking, ReapBeforeFork,
          WaitForOthers, Fork, Restart, Crash
    <3>2. ASSUME NEW a \in callers, requests'[a].status = "absent" PROVE FALSE
      <4>1. RowStep(a) /\ requests[a].status # "absent"
        BY NextRows DEF Ordered, TypeOK
      <4> QED
        BY <3>2, <4>1
        DEF RowStep, Untouched, IsCurrentStep, IsCommandStep, Postpones, Arrives
    <3> QED
      BY <3>1, <3>2 DEF Ordered
  <2> QED
    BY <2>1, <2>2
<1>2. ASSUME NEW r \in Ids, Chosen(r)' \/ IsExecuted(r)'
      PROVE  requests'[r].status # "deleted" /\ \A d \in DepOf(r)' : JobOf(d)' = "over"
  <2>1. Chosen(r) \/ IsExecuted(r) \/ SelectRequest(r)
    BY <1>2, OnlySelectChooses, OnlyCurrentStarts DEF Chosen
  <2>2. \A d \in DepOf(r) : JobOf(d) = "over"
    BY <2>1, SelectedIsOrdered DEF Ordered
  <2>3. ~ Postpones(r)
    <3>1. CASE Postpones(r)
      <4>1. SelectRequest(r)
        BY <1>2, <3>1, PostponesEnds, OnlySelectChooses
      <4>2. r \notin todo
        BY <3>1, PostponesEnds DEF EachOnce, IsExecuted
      <4> QED
        BY <4>1, <4>2 DEF SelectRequest, IsOldest
    <3> QED
      BY <3>1
  <2>4. requests'[r].status # "deleted" /\ DepOf(r)' = DepOf(r)
    BY <2>1, <2>3, StaysUndeleted, SameDepsSame
  <2>5. \A d \in DepOf(r) : JobOf(d)' = "over"
    BY <2>2, OverStays, DepsAreRequests
  <2> QED
    BY <2>4, <2>5
<1>4. master' = "down" => selected' = {} /\ \A p \in Pids : proc'[p].state = "none"
  <2>1. CASE Crash
    BY <2>1 DEF Crash, NoProcess
  <2>2. CASE \E p \in Pids : ChildProgress(p) \/ ChildDies(p)
    BY <2>2, ChildKeeps DEF Ordered
  <2>3. CASE \E r \in Ids : NewRequest(r) \/ TimePasses(r)
    BY <2>3, KilledKeeps DEF NewRequest, TimePasses, Ordered, passVars
  <2>4. CASE \E r \in Ids, denied \in BOOLEAN : ValidateRequest(r, denied)
    BY <2>4 DEF ValidateRequest, Ordered, passVars
  <2>5. CASE Housekeeping \/ MasterStep
    <3>1. master' # "down"
      BY <2>5
      DEF Housekeeping, MasterStep, KillStaleProcess, KillDeadProcess, TimeoutRequests,
          FetchRequests, SelectStep, PingBackend, FailRequest, SelectRequest, SkipRequest,
          CheckRequest, EndSelect, EndPass, MarkWorking, ReapBeforeFork, WaitForOthers, Fork,
          Restart
    <3> QED
      BY <3>1
  <2> QED
    BY <2>1, <2>2, <2>3, <2>4, <2>5 DEF Next
<1>5. \A r \in Ids :
        /\ requests'[r].after_request_ok # NoRequest =>
             requests'[r].after_request = NoRequest /\ Command(r) \notin Redirected
        /\ requests'[r].status # "absent" => \A d \in DepOf(r)' : ~ Unready(d)'
  BY NextDeps
<1> QED
  BY <1>1, <1>2, <1>4, <1>5 DEF Ordered

-----------------------------------------------------------------------------
(* RequestQueue implements JobQueue.                                       *)

LEMMA QueueInit == Init => Queue!Init
BY DEF Init, Queue!Init, JobOf, DepOf, NoRequest

LEMMA QueueTypes ==
  ASSUME TypeOK'
  PROVE  /\ [r \in Ids |-> JobOf(r)]' \in [Ids -> Queue!JobState]
         /\ [r \in Ids |-> DepOf(r)]' \in [Ids -> SUBSET Ids]
BY DEF JobOf, DepOf, Queue!JobState, TypeOK, Row

LEMMA QueueStep ==
  ASSUME TypeOK, TypeOK', ProcessesKnown, EachOnce, NotDoneEarly, Ordered, Next
  PROVE  Queue!Next
<1>1. \A r \in Ids : Queue!Progress(r)
  BY NewProgress, ReadyProgress
<1> QED
  BY <1>1, QueueTypes DEF Queue!Next

LEMMA QueueStutter == UNCHANGED vars => UNCHANGED <<[r \in Ids |-> JobOf(r)], [r \in Ids |-> DepOf(r)]>>
BY DEF vars, JobOf, DepOf, IsExecuted, Executing

LEMMA OrderedInductive ==
  /\ PromptChildren /\ PromptCallers /\ OneRequirement
  /\ Spec /\ []NotDoneEarly
  => []Ordered
<1> SUFFICES ASSUME PromptChildren, PromptCallers, OneRequirement
             PROVE  Spec /\ []NotDoneEarly => []Ordered
  OBVIOUS
<1>1. Init => Ordered
  BY DEF Init, Ordered, Chosen, AboutToFork, IsExecuted, Executing, NoProcess, NoRequest
<1>2. Ordered /\ EachOnce /\ NotDoneEarly /\ IInv /\ [Next]_vars => Ordered'
  <2>1. Ordered /\ EachOnce /\ NotDoneEarly /\ IInv /\ Next => Ordered'
    BY NextOrdered DEF IInv
  <2>2. Ordered /\ UNCHANGED vars => Ordered'
    BY DEF Ordered, Chosen, AboutToFork, IsExecuted, Executing, JobOf, DepOf, Unready, vars
  <2> QED
    BY <2>1, <2>2
<1> QED
  BY <1>1, <1>2, Inductive, OnceInductive, PTL DEF Spec

\* The queue keeps its promises as long as no request is done while it is executed: a request
\* starts only when all that it comes after is over, whatever validation and postponing made
\* of that, and no request that is over is executed again, whatever is killed or restarted.
THEOREM PromisesWhileNotDone ==
  /\ PromptChildren /\ PromptCallers /\ OneRequirement
  /\ Spec /\ []NotDoneEarly
  => KeepsPromises
<1> SUFFICES ASSUME PromptChildren, PromptCallers, OneRequirement
             PROVE  Spec /\ []NotDoneEarly => KeepsPromises
  OBVIOUS
<1>1. /\ IInv /\ IInv' /\ EachOnce /\ NotDoneEarly /\ Ordered /\ [Next]_vars
      => [Queue!Next]_<<[r \in Ids |-> JobOf(r)], [r \in Ids |-> DepOf(r)]>>
  BY QueueStep, QueueStutter DEF IInv
<1> QED
  BY <1>1, QueueInit, Inductive, OnceInductive, OrderedInductive, PTL
  DEF Spec, KeepsPromises, Queue!Spec

\* So it keeps them if no request comes back and there is no accident.
THEOREM PromisesKept ==
  /\ PromptChildren /\ PromptCallers /\ OneRequirement /\ NothingComesBack
  /\ Spec /\ [][~ Accident]_vars
  => KeepsPromises
BY NothingDoneEarly, PromisesWhileNotDone, PTL

\* Then a request executes only while what its after_request names is over: what the runs
\* afterretry and autostart refute needs a request that comes back, or one told of two
\* requests to come after.
THEOREM DependenciesRespected ==
  /\ PromptChildren /\ PromptCallers /\ OneRequirement
  /\ Spec /\ []NotDoneEarly
  => []DependencyRespected
<1>1. Ordered /\ IInv => DependencyRespected
  <2> SUFFICES ASSUME Ordered, IInv, NEW p \in Pids, Executing(p),
                      NEW o, o = requests[proc[p].req].after_request, o # NoRequest
               PROVE  requests[o].status \in {"done", "deleted"} /\ ~ IsExecuted(o)
    BY DEF DependencyRespected
  <2>1. proc[p].req \in Ids /\ IsExecuted(proc[p].req)
    BY DEF IInv, ProcessesKnown, Executing, IsExecuted
  <2>2. o \in DepOf(proc[p].req)
    BY DEF DepOf
  <2>3. JobOf(o) = "over"
    BY <2>1, <2>2 DEF Ordered
  <2> QED
    BY <2>3 DEF JobOf
<1> QED
  BY <1>1, Inductive, OrderedInductive, PTL
=============================================================================
