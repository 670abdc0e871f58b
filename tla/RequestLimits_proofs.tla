------------------------ MODULE RequestLimits_proofs ------------------------
(***************************************************************************)
(* What the limits of the types and the exclusion of two requests about    *)
(* one machine rest on: no request is done while a process executes it     *)
(* (NotDoneEarly), and what it takes to break that.                        *)
(***************************************************************************)
EXTENDS RequestQueue_proofs, FiniteSetTheorems

\* No request is executed a second time: none has retries, and none is a prepare_base,
\* which gives itself some.
NothingComesBack ==
  \A r \in Ids : Args[r].retry < 1 /\ Command(r) # "prepare_base"

\* A process dies before _do_execute_command has written its pid; or the start of a machine
\* cancels the request that the daemon is about to fork for.
Accident ==
  \/ \E p \in Pids : proc[p].state = "forked" /\ ChildDies(p)
  \/ \E r \in Ids : AboutToFork /\ NewRequest(r) /\ current \in RemovedByStart(r)

-----------------------------------------------------------------------------
(* Nothing is done early, but for retries and accidents.                   *)

HasPid(r) == \E p \in pids : proc[p].req = r

\* What the row of a request says while the master remembers a process of it.
RowFits(row, state) ==
  /\ state # "retrying"
  /\ state = "forked" => row.status \in {"working", "waiting"}
  /\ state = "running" => row.status = "working"
  /\ row.status \in {"working", "waiting", "done"}
  /\ row.status = "waiting" => state = "forked"

\* A request has one pid in its life, which no other row has and its own row does; the row
\* says what the process does, and the master is not about to execute it again.
OnePid ==
  /\ \A p \in pids : /\ requests[proc[p].req].pid = p
                     /\ RowFits(requests[proc[p].req], proc[p].state)
  /\ \A a, b \in Ids : requests[a].pid = requests[b].pid /\ requests[a].pid # NoPid => a = b
  /\ \A r \in Ids : requests[r].retry < 1
  /\ \A r \in Ids : r \in todo \cup selected \/ Unready(r) => ~ HasPid(r)
  /\ AboutToFork => ~ HasPid(current) /\ requests[current].status # "done"
  /\ master \in {"reap", "fork"} => requests[current].status \in {"working", "waiting"}
  /\ master = "down" => pids = {}

\* A step that starts no process and adds nothing to the lists keeps OnePid, if the rows
\* of the processes that are left still fit them.
LEMMA StillOnePid ==
  ASSUME OnePid,
         pids' \subseteq pids,
         \A p \in pids' : /\ proc'[p].req = proc[p].req
                          /\ requests'[proc[p].req].pid = p
                          /\ RowFits(requests'[proc[p].req], proc'[p].state),
         \A r \in Ids : /\ requests'[r].retry < 1
                        /\ requests'[r].pid \in {requests[r].pid, NoPid},
         todo' \subseteq todo,
         selected' \subseteq selected,
         \A r \in Ids : Unready(r)' => Unready(r),
         AboutToFork' => /\ AboutToFork /\ current' = current
                         /\ requests'[current].status # "done",
         master' \in {"reap", "fork"} => requests'[current].status \in {"working", "waiting"},
         master' = "down" => pids' = {}
  PROVE  OnePid'
<1>1. \A r \in Ids : HasPid(r)' => HasPid(r)
  BY DEF HasPid
<1>2. AboutToFork' => ~ HasPid(current)'
  BY DEF HasPid, OnePid
<1>3. master' \in {"reap", "fork"} => AboutToFork'
  BY DEF AboutToFork
<1> QED
  BY <1>1, <1>2, <1>3 DEF OnePid

\* stop() ends the process of a request that has one.
LEMMA StopFits ==
  ASSUME TypeOK, ProcessesKnown, OnePid, NEW victims, victims \subseteq Ids, NEW p \in pids
  PROVE  /\ Stopped(victims)[proc[p].req].pid = p
         /\ Killed(victims)[p].req = proc[p].req
         /\ RowFits(Stopped(victims)[proc[p].req], Killed(victims)[p].state)
<1> DEFINE r == proc[p].req
<1>1. p \in Pids /\ r \in Ids /\ requests[r] \in Row /\ proc[p] \in Process
  BY DEF TypeOK, ProcessesKnown
<1>2. requests[r].pid = p /\ RowFits(requests[r], proc[p].state)
  BY DEF OnePid
<1>3. CASE r \in victims
  <2>1. Stopped(victims)[r].status = "done" /\ Stopped(victims)[r].pid = p
    BY <1>1, <1>2, <1>3 DEF Stopped, Row
  <2>2. /\ Killed(victims)[p].req = r
        /\ Killed(victims)[p].state \notin Live
    BY <1>1, <1>2, <1>3 DEF Killed, IsLive, Live, Process
  <2> QED
    BY <2>1, <2>2 DEF RowFits, Live
<1>4. CASE r \notin victims
  <2>1. Stopped(victims)[r] = requests[r]
    BY <1>1, <1>4 DEF Stopped
  <2>2. /\ Killed(victims)[p].req = r
        /\ Killed(victims)[p].state \in {proc[p].state, "zombie"}
        /\ Killed(victims)[p].state # proc[p].state =>
             \E v \in victims : requests[v].pid = p
    BY <1>1 DEF Killed, IsLive, Process
  <2>3. \A v \in victims : requests[v].pid # p
    BY <1>1, <1>2, <1>4 DEF OnePid, Pids, NoPid
  <2> QED
    BY <1>2, <2>1, <2>2, <2>3
<1> QED
  BY <1>3, <1>4

\* The steps of a forked process, when none asks for a retry and none postpones itself.
LEMMA ChildOnePid ==
  ASSUME TypeOK, ProcessesKnown, OnePid, NothingComesBack, ~ Accident,
         NEW p \in Pids, ChildProgress(p) \/ ChildDies(p),
         \A r \in Ids : Unready(r)' => Unready(r)
  PROVE  OnePid'
<1> DEFINE r == proc[p].req
<1>0. /\ requests \in [Ids -> Row] /\ proc \in [Pids -> Process]
      /\ UNCHANGED <<pids, master, passVars>>
      /\ p \in pids /\ r \in Ids
      /\ \A q \in Pids : proc'[q].req = proc[q].req
      /\ \A q \in Pids \ {p} : proc'[q] = proc[q]
      /\ \A q \in pids : q \in Pids /\ proc[q].req \in Ids
      /\ \A q \in pids \ {p} : proc[q].req # r
      /\ requests[r].pid = p /\ RowFits(requests[r], proc[p].state)
  BY ChildKeeps DEF TypeOK, ProcessesKnown, OnePid
<1> SUFFICES /\ \A o \in Ids \ {r} : requests'[o] = requests[o]
             /\ requests'[r].pid = p /\ requests'[r].retry < 1
             /\ RowFits(requests'[r], proc'[p].state)
  <2>1. \A q \in pids : /\ proc'[q].req = proc[q].req
                        /\ requests'[proc[q].req].pid = q
                        /\ RowFits(requests'[proc[q].req], proc'[q].state)
    BY <1>0 DEF OnePid
  <2>2. \A o \in Ids : /\ requests'[o].retry < 1
                       /\ requests'[o].pid \in {requests[o].pid, NoPid}
    BY <1>0 DEF OnePid
  <2>3. AboutToFork => current # r /\ current \in Ids
    BY <1>0 DEF OnePid, HasPid, AboutToFork, ProcessesKnown
  <2>4. AboutToFork' => AboutToFork /\ current' = current /\ requests'[current].status # "done"
    BY <1>0, <2>3 DEF OnePid, AboutToFork, passVars
  <2>5. master' \in {"reap", "fork"} => requests'[current].status \in {"working", "waiting"}
    BY <1>0, <2>3 DEF OnePid, AboutToFork
  <2>6. pids' = pids /\ todo' = todo /\ selected' = selected /\ master' = master
    BY <1>0 DEF passVars
  <2> QED
    BY <2>1, <2>2, <2>4, <2>5, <2>6, StillOnePid DEF OnePid
<1>1. requests[r] \in Row /\ requests[r].retry < 1 /\ proc[p] \in Process
  BY <1>0 DEF OnePid
<1>2. CASE ChildBegin(p)
  BY <1>0, <1>1, <1>2 DEF ChildBegin, ChildStep, SetProcess, RowFits, Row, Process
<1>3. ASSUME NEW failed \in BOOLEAN, ChildFinish(p, failed)
      PROVE  /\ \A o \in Ids \ {r} : requests'[o] = requests[o]
             /\ requests'[r].pid = p /\ requests'[r].retry < 1
             /\ RowFits(requests'[r], proc'[p].state)
  <2>1. proc[p].state = "running" /\ proc'[p].state = "ending"
    BY <1>0, <1>3 DEF ChildFinish, ChildStep, SetProcess, Process
  <2>2. requests[r].status = "working"
    BY <1>0, <2>1 DEF RowFits
  <2>3. /\ requests'[r] = Finished(requests[r], failed)
        /\ \A o \in Ids \ {r} : requests'[o] = requests[o]
    BY <1>0, <1>3 DEF ChildFinish
  <2>4. requests'[r].status = "done" /\ requests'[r].pid = p /\ requests'[r].retry < 1
    BY <1>0, <1>1, <2>2, <2>3 DEF Finished, Row
  <2> QED
    BY <2>1, <2>3, <2>4 DEF RowFits
<1>4. CASE ChildAsksRetry(p)
  BY <1>1, <1>4 DEF ChildAsksRetry, Row, Undefined, MaxRetry
<1>5. CASE ChildReschedules(p)
  BY <1>0, <1>5 DEF ChildReschedules, ChildStep, SetProcess, RowFits
<1>6. CASE \E s \in Ids : ChildPostpones(p, s)
  BY <1>0, <1>6 DEF ChildPostpones, NothingComesBack
<1>7. CASE ChildExit(p) \/ ChildDies(p)
  <2>1. proc[p].state \in {"running", "retrying", "ending"} /\ proc'[p].state = "zombie"
    BY <1>0, <1>7 DEF ChildExit, ChildDies, ChildStep, SetProcess, Process, Accident
  <2>2. requests' = requests
    BY <1>7 DEF ChildExit, ChildDies
  <2> QED
    BY <1>0, <1>1, <2>1, <2>2 DEF RowFits
<1> QED
  BY <1>2, <1>3, <1>4, <1>5, <1>6, <1>7 DEF ChildProgress

\* Inserting and validating a request.
LEMMA InsertOnePid ==
  ASSUME TypeOK, ProcessesKnown, EachOnce, OnePid, NothingComesBack, ~ Accident,
         NEW r \in Ids, NewRequest(r) \/ \E denied \in BOOLEAN : ValidateRequest(r, denied),
         \A o \in Ids : Unready(o)' => Unready(o)
  PROVE  OnePid'
<1>0. /\ requests \in [Ids -> Row] /\ proc \in [Pids -> Process]
      /\ UNCHANGED <<pids, master, passVars>>
      /\ \A p \in pids : p \in Pids /\ proc[p].req \in Ids
  BY DEF TypeOK, ProcessesKnown, NewRequest, ValidateRequest
<1>1. Unready(r) /\ ~ HasPid(r) /\ (AboutToFork => current # r /\ current \in Ids)
  BY DEF NewRequest, IsNextId, ValidateRequest, Unready, OnePid, EachOnce, AboutToFork,
         ProcessesKnown
<1>2. CASE NewRequest(r)
  <2> DEFINE victims == RemovedByStart(r)
  <2>1. victims \subseteq Ids /\ r \notin victims
    BY <1>2 DEF NewRequest, IsNextId, RemovedByStart, Pending
  <2>2. \A o \in Ids \ {r} : requests'[o] = Stopped(victims)[o]
    BY <1>2 DEF NewRequest, Stopped
  <2>3. requests'[r].retry < 1 /\ requests'[r].pid = NoPid
    BY <1>2 DEF NewRequest, NewRow, NothingComesBack
  <2>4. \A o \in Ids \ {r} : /\ requests'[o].retry = requests[o].retry
                             /\ requests'[o].pid = requests[o].pid
                             /\ o \notin victims => requests'[o] = requests[o]
    BY <1>0, <2>2 DEF Stopped, Row
  <2>5. \A p \in pids : /\ proc'[p].req = proc[p].req
                        /\ requests'[proc[p].req].pid = p
                        /\ RowFits(requests'[proc[p].req], proc'[p].state)
    <3> TAKE p \in pids
    <3>1. proc[p].req # r /\ proc' = Killed(victims)
      BY <1>1, <1>2 DEF HasPid, NewRequest
    <3> QED
      BY <1>0, <2>1, <2>2, <3>1, StopFits
  <2>6. AboutToFork => current \notin victims
    BY <1>2 DEF Accident
  <2>7. AboutToFork => requests'[current] = requests[current]
    BY <1>1, <2>4, <2>6
  <2>8. \A o \in Ids : /\ requests'[o].retry < 1
                       /\ requests'[o].pid \in {requests[o].pid, NoPid}
    BY <2>3, <2>4 DEF OnePid
  <2>9. AboutToFork' <=> AboutToFork
    BY <1>0 DEF AboutToFork
  <2>10. AboutToFork' => /\ AboutToFork /\ current' = current
                        /\ requests'[current].status # "done"
    BY <1>0, <2>7, <2>9 DEF OnePid, passVars
  <2>11. /\ master' \in {"reap", "fork"} => requests'[current].status \in {"working", "waiting"}
         /\ master' = "down" => pids' = {}
    BY <1>0, <2>7 DEF OnePid, AboutToFork
  <2>12. pids' = pids /\ todo' = todo /\ selected' = selected
    BY <1>0 DEF passVars
  <2> QED
    BY <2>5, <2>8, <2>10, <2>11, <2>12, StillOnePid
<1>3. ASSUME NEW denied \in BOOLEAN, ValidateRequest(r, denied) PROVE OnePid'
  <2>1. \A o \in Ids : requests'[o].retry = requests[o].retry
                       /\ requests'[o].pid = requests[o].pid
    <3>1. requests'[r] = Validated(requests[r], ValidatedAfter(r), denied)
      BY <1>0, <1>3 DEF ValidateRequest
    <3>2. requests'[r].retry = requests[r].retry /\ requests'[r].pid = requests[r].pid
      BY <1>0, <3>1 DEF Validated, Row
    <3>3. \A o \in Ids \ {r} : requests'[o].retry = requests[o].retry
                              /\ requests'[o].pid = requests[o].pid
      BY <1>0, <1>3 DEF ValidateRequest, Row
    <3> QED
      BY <3>2, <3>3
  <2>2. \A o \in Ids \ {r} : requests'[o].status = requests[o].status
    BY <1>0, <1>3 DEF ValidateRequest, Row
  <2>3. \A p \in pids : proc[p].req # r
    BY <1>1 DEF HasPid
  <2> QED
    BY <1>0, <1>1, <1>3, <2>1, <2>2, <2>3, StillOnePid
    DEF OnePid, RowFits, AboutToFork, passVars, ValidateRequest
<1> QED
  BY <1>2, <1>3

\* The housekeeping of the master, and what it does before it forks.
LEMMA KeepOnePid ==
  ASSUME TypeOK, ProcessesKnown, OnePid,
         \/ Housekeeping \/ ReapBeforeFork
         \/ KillStaleProcess \/ KillDeadProcess \/ TimeoutRequests,
         \A o \in Ids : Unready(o)' => Unready(o)
  PROVE  OnePid'
<1>0. /\ requests \in [Ids -> Row] /\ proc \in [Pids -> Process]
      /\ \A p \in pids : p \in Pids /\ proc[p].req \in Ids
      /\ UNCHANGED <<todo, selected, current>>
  BY DEF TypeOK, ProcessesKnown, Housekeeping, ReapBeforeFork, KillStaleProcess,
         KillDeadProcess, TimeoutRequests, passVars
<1>1. CASE Housekeeping \/ ReapBeforeFork
  <2>1. WaitPids
    BY <1>1 DEF Housekeeping, ReapBeforeFork
  <2>2. \A p \in pids' : /\ p \in pids /\ p \notin GonePids
                         /\ proc'[p].req = proc[p].req
                         /\ proc'[p].state \in {proc[p].state, "none"}
                         /\ proc'[p].state = "none" => proc[p].state \notin {"forked", "running"}
    BY <1>0, <2>1 DEF WaitPids, GonePids, Process
  <2>3. \A o \in Ids : /\ requests'[o].pid = requests[o].pid
                       /\ requests'[o].retry = requests[o].retry
    BY <1>0, <2>1 DEF WaitPids, Row
  <2>4. \A o \in Ids : (\A q \in GonePids : proc[q].req # o) => requests'[o] = requests[o]
    BY <1>0, <2>1 DEF WaitPids
  <2>5. \A p \in pids' : /\ proc'[p].req = proc[p].req
                         /\ requests'[proc[p].req] = requests[proc[p].req]
                         /\ requests'[proc[p].req].pid = p
                         /\ RowFits(requests'[proc[p].req], proc'[p].state)
    <3> TAKE p \in pids'
    <3>1. \A q \in GonePids : proc[q].req # proc[p].req
      BY <2>2 DEF OnePid, GonePids
    <3> QED
      BY <1>0, <2>2, <2>4, <3>1 DEF OnePid, RowFits
  <2>6. AboutToFork /\ current \in Ids => requests'[current] = requests[current]
    BY <2>4 DEF OnePid, HasPid, GonePids
  <2>7. AboutToFork' => /\ AboutToFork /\ current \in Ids
                        /\ master = "reap" /\ master' = "fork"
    BY <1>1 DEF Housekeeping, ReapBeforeFork, AboutToFork, ProcessesKnown
  <2>8. master' # "down" /\ pids' \subseteq pids /\ (master' \in {"reap", "fork"} => AboutToFork')
    BY <1>1, <2>1 DEF Housekeeping, ReapBeforeFork, WaitPids, AboutToFork
  <2>9. \A o \in Ids : requests'[o].retry < 1 /\ requests'[o].pid \in {requests[o].pid, NoPid}
    BY <2>3 DEF OnePid
  <2>10. AboutToFork' => requests'[current].status # "done"
                         /\ requests'[current].status \in {"working", "waiting"}
    BY <2>6, <2>7 DEF OnePid
  <2> QED
    BY <1>0, <2>5, <2>7, <2>8, <2>9, <2>10, StillOnePid
<1>2. CASE KillStaleProcess \/ KillDeadProcess \/ TimeoutRequests
  <2>1. PICK victims : /\ victims \subseteq Ids
                       /\ requests' = Stopped(victims) /\ proc' = Killed(victims)
    BY <1>2 DEF KillStaleProcess, KillDeadProcess, TimeoutRequests, StopSome
  <2>2. pids' = pids /\ ~ AboutToFork' /\ master' \notin {"reap", "fork", "down"}
    BY <1>2 DEF KillStaleProcess, KillDeadProcess, TimeoutRequests, AboutToFork
  <2>3. \A o \in Ids : requests'[o].retry < 1 /\ requests'[o].pid \in {requests[o].pid, NoPid}
    BY <1>0, <2>1 DEF Stopped, Row, OnePid
  <2>4. \A p \in pids : /\ proc'[p].req = proc[p].req
                        /\ requests'[proc[p].req].pid = p
                        /\ RowFits(requests'[proc[p].req], proc'[p].state)
    BY <2>1, StopFits
  <2> QED
    BY <1>0, <2>2, <2>3, <2>4, StillOnePid
<1> QED
  BY <1>1, <1>2

\* Choosing what to execute.  FetchRequests takes no request that has a pid, because prompt
\* children have begun and their rows are working or done.
LEMMA PassOnePid ==
  ASSUME TypeOK, ProcessesKnown, EachOnce, OnePid, PromptChildren, PromptCallers,
         \/ FetchRequests \/ EndSelect \/ EndPass
         \/ \E r \in Ids : SelectStep(r) \/ CheckRequest(r),
         \A o \in Ids : Unready(o)' => Unready(o)
  PROVE  OnePid'
<1>0. /\ requests \in [Ids -> Row] /\ proc' = proc /\ pids' = pids
      /\ \A p \in pids : p \in Pids /\ proc[p].req \in Ids
      /\ \A r \in Ids : HasPid(r)' <=> HasPid(r)
      /\ master' # "down" /\ master' \notin {"reap", "fork"}
  BY DEF TypeOK, ProcessesKnown, FetchRequests, EndSelect, EndPass, CheckRequest, HasPid,
         SelectStep, PingBackend, FailRequest, SelectRequest, SkipRequest
<1>1. CASE FetchRequests
  <2>1. requests' = requests /\ ~ AboutToFork' /\ selected' = {}
        /\ todo' = {r \in Ids : /\ requests[r].status \in {"requested", "retry", "waiting"}
                                /\ requests[r].at # "later"}
        /\ callers' = callers
    BY <1>1 DEF FetchRequests, AboutToFork
  <2>2. \A p \in pids : proc[p].state # "forked"
    BY <1>0, <1>1 DEF FetchRequests
  <2>3. \A r \in todo' : ~ HasPid(r)
    BY <1>0, <2>1, <2>2 DEF HasPid, OnePid, RowFits
  <2> QED
    BY <1>0, <2>1, <2>3 DEF OnePid, RowFits, Unready
<1>2. CASE EndSelect \/ EndPass \/ \E r \in Ids : SelectRequest(r) \/ SkipRequest(r)
  <2>1. requests' = requests /\ ~ AboutToFork' /\ callers' = callers
        /\ todo' \cup selected' \subseteq todo \cup selected
    BY <1>2 DEF EndSelect, EndPass, SelectRequest, SkipRequest, IsOldest, AboutToFork, passVars
  <2> QED
    BY <1>0, <2>1 DEF OnePid, Unready
<1>3. ASSUME NEW r \in Ids, PingBackend(r) \/ FailRequest(r) PROVE OnePid'
  <2>1. /\ ~ AboutToFork' /\ todo' \subseteq todo /\ selected' = selected
        /\ r \in todo /\ ~ HasPid(r)
    BY <1>3 DEF PingBackend, FailRequest, IsOldest, AboutToFork, OnePid
  <2>2. \A o \in Ids : /\ requests'[o].pid = requests[o].pid
                       /\ requests'[o].retry = requests[o].retry
                       /\ o # r => requests'[o] = requests[o]
    <3>1. \A o \in Ids \ {r} : requests'[o] = requests[o]
      BY <1>0, <1>3 DEF PingBackend, FailRequest
    <3>2. CASE PingBackend(r)
      BY <1>0, <3>1, <3>2 DEF PingBackend, Row
    <3>3. CASE FailRequest(r)
      <4>1. requests'[r] = [requests[r] EXCEPT !.status = "done", !.error = TRUE]
        BY <1>0, <3>3 DEF FailRequest
      <4>2. requests'[r].pid = requests[r].pid /\ requests'[r].retry = requests[r].retry
        BY <1>0, <4>1 DEF Row
      <4> QED
        BY <3>1, <4>2
    <3> QED
      BY <1>3, <3>1, <3>2, <3>3
  <2>3. \A p \in pids : /\ proc'[p].req = proc[p].req
                        /\ requests'[proc[p].req].pid = p
                        /\ RowFits(requests'[proc[p].req], proc'[p].state)
    BY <1>0, <2>1, <2>2 DEF HasPid, OnePid
  <2>4. \A o \in Ids : requests'[o].retry < 1 /\ requests'[o].pid \in {requests[o].pid, NoPid}
    BY <2>2 DEF OnePid
  <2> QED
    BY <1>0, <2>1, <2>3, <2>4, StillOnePid
<1>4. ASSUME NEW r \in Ids, CheckRequest(r) PROVE OnePid'
  <2>1. /\ requests' = requests /\ callers' = callers
        /\ r \in selected /\ selected' \subseteq selected /\ todo' = todo
    BY <1>4 DEF CheckRequest, ComesFirst
  <2>2. AboutToFork' => current' = r /\ requests[r].status # "done"
    BY <1>4 DEF CheckRequest, AboutToFork
  <2>3. ~ HasPid(r)
    BY <2>1 DEF OnePid
  <2>4. AboutToFork' => ~ HasPid(current)' /\ requests'[current'].status # "done"
    BY <1>0, <2>1, <2>2, <2>3
  <2> QED
    BY <1>0, <2>1, <2>4 DEF OnePid, Unready
<1> QED
  BY <1>1, <1>2, <1>3, <1>4 DEF SelectStep

\* Executing a request: it gets a pid that no row has.
LEMMA ExecuteOnePid ==
  ASSUME TypeOK, ProcessesKnown, EachOnce, OnePid,
         MarkWorking \/ WaitForOthers \/ \E p \in Pids : Fork(p),
         \A o \in Ids : Unready(o)' => Unready(o)
  PROVE  OnePid'
<1>0. /\ requests \in [Ids -> Row] /\ proc \in [Pids -> Process]
      /\ current \in Ids /\ AboutToFork /\ ~ HasPid(current) /\ ~ Unready(current)
      /\ current \notin todo \cup selected
      /\ requests[current].status # "done"
      /\ \A p \in pids : p \in Pids /\ proc[p].req \in Ids /\ proc[p].req # current
      /\ UNCHANGED passVars
  BY DEF TypeOK, ProcessesKnown, EachOnce, OnePid, HasPid, AboutToFork, MarkWorking,
         WaitForOthers, Fork
<1>1. CASE MarkWorking
  <2> DEFINE victims == StoppedRefresh(current)
  <2>1. victims \subseteq Ids
    BY DEF StoppedRefresh
  <2>2. \A o \in Ids \ {current} : requests'[o] = Stopped(victims)[o]
    BY <1>0, <1>1 DEF MarkWorking, Stopped
  <2>3. /\ requests'[current].status \in {"working", "waiting"}
        /\ requests'[current].pid = requests[current].pid
        /\ requests'[current].retry = requests[current].retry
    BY <1>0, <1>1, StopType DEF MarkWorking, Row
  <2>4. \A o \in Ids : requests'[o].retry < 1 /\ requests'[o].pid \in {requests[o].pid, NoPid}
    <3>1. \A o \in Ids \ {current} : /\ requests'[o].retry = requests[o].retry
                                      /\ requests'[o].pid = requests[o].pid
      BY <1>0, <2>2 DEF Stopped, Row
    <3> QED
      BY <2>3, <3>1 DEF OnePid
  <2>5. \A p \in pids : /\ proc'[p].req = proc[p].req
                        /\ requests'[proc[p].req].pid = p
                        /\ RowFits(requests'[proc[p].req], proc'[p].state)
    <3> TAKE p \in pids
    <3>1. proc' = Killed(victims) /\ requests'[proc[p].req] = Stopped(victims)[proc[p].req]
      BY <1>0, <1>1, <2>2 DEF MarkWorking
    <3> QED
      BY <2>1, <3>1, StopFits
  <2>6. pids' = pids /\ master' = "reap"
    BY <1>1 DEF MarkWorking
  <2> QED
    BY <1>0, <2>3, <2>4, <2>5, <2>6, StillOnePid DEF AboutToFork, passVars
<1>2. CASE WaitForOthers
  <2>1. \A o \in Ids \ {current} : requests'[o] = requests[o]
    BY <1>0, <1>2 DEF WaitForOthers
  <2>2. /\ requests'[current].pid = requests[current].pid
        /\ requests'[current].retry = requests[current].retry
    BY <1>0, <1>2 DEF WaitForOthers, Row
  <2>3. \A o \in Ids : requests'[o].retry < 1 /\ requests'[o].pid \in {requests[o].pid, NoPid}
    BY <2>1, <2>2 DEF OnePid
  <2>4. \A p \in pids : /\ proc'[p].req = proc[p].req
                        /\ requests'[proc[p].req].pid = p
                        /\ RowFits(requests'[proc[p].req], proc'[p].state)
    BY <1>0, <1>2, <2>1 DEF WaitForOthers, OnePid
  <2>5. pids' = pids /\ master' = "check"
    BY <1>2 DEF WaitForOthers
  <2> QED
    BY <1>0, <2>3, <2>4, <2>5, StillOnePid DEF AboutToFork, passVars
<1>3. ASSUME NEW p \in Pids, Fork(p) PROVE OnePid'
  <2>1. /\ pids' = pids \cup {p} /\ p \notin pids /\ master' = "check" /\ ~ AboutToFork'
        /\ \A o \in Ids : requests[o].pid # p
    BY <1>3 DEF Fork, IsFreePid, AboutToFork
  <2>2. /\ proc'[p].state = "forked" /\ proc'[p].req = current
        /\ \A q \in Pids \ {p} : proc'[q] = proc[q]
    BY <1>0, <1>3 DEF Fork
  <2>3. /\ \A o \in Ids \ {current} : requests'[o] = requests[o]
        /\ requests'[current].pid = p
        /\ requests'[current].status = requests[current].status
        /\ requests'[current].retry = requests[current].retry
    BY <1>0, <1>3 DEF Fork, Row
  <2>4. requests[current].status \in {"working", "waiting"}
    BY <1>3 DEF Fork, OnePid
  <2>5. \A q \in pids' : /\ requests'[proc'[q].req].pid = q
                         /\ RowFits(requests'[proc'[q].req], proc'[q].state)
    BY <1>0, <2>1, <2>2, <2>3, <2>4 DEF OnePid, RowFits
  <2>6. \A o \in Ids : HasPid(o)' => HasPid(o) \/ o = current
    BY <1>0, <2>1, <2>2 DEF HasPid
  <2>7. \A o \in Ids : o \in todo' \cup selected' \/ Unready(o)' => ~ HasPid(o)'
    BY <1>0, <2>6 DEF OnePid, passVars
  <2>8. \A a, b \in Ids : requests'[a].pid = requests'[b].pid /\ requests'[a].pid # NoPid => a = b
    BY <2>1, <2>3 DEF OnePid
  <2>9. \A o \in Ids : requests'[o].retry < 1
    BY <2>3 DEF OnePid
  <2> QED
    BY <2>1, <2>5, <2>7, <2>8, <2>9 DEF OnePid
<1> QED
  BY <1>1, <1>2, <1>3

LEMMA NextOnePid ==
  ASSUME TypeOK, ProcessesKnown, EachOnce, OnePid, NothingComesBack,
         PromptChildren, PromptCallers, Next, ~ Accident
  PROVE  OnePid'
<1>0. \A o \in Ids : Unready(o)' => Unready(o)
  BY ReadyStays
<1>1. CASE \E r \in Ids : NewRequest(r) \/ \E denied \in BOOLEAN : ValidateRequest(r, denied)
  BY <1>0, <1>1, InsertOnePid
<1>2. ASSUME NEW r \in Ids, TimePasses(r) PROVE OnePid'
  <2>1. requests \in [Ids -> Row]
    BY DEF TypeOK
  <2>2. \A o \in Ids : /\ requests'[o].status = requests[o].status
                       /\ requests'[o].pid = requests[o].pid
                       /\ requests'[o].retry = requests[o].retry
    BY <1>2, <2>1 DEF TimePasses, Row
  <2>3. UNCHANGED <<proc, pids, master, passVars>>
    BY <1>2 DEF TimePasses
  <2>4. /\ \A p \in pids : proc[p].req \in Ids
        /\ AboutToFork => current \in Ids
    BY DEF ProcessesKnown, AboutToFork
  <2> QED
    BY <1>0, <2>2, <2>3, <2>4, StillOnePid DEF OnePid, RowFits, AboutToFork, passVars
<1>3. CASE \/ Housekeeping \/ ReapBeforeFork
           \/ KillStaleProcess \/ KillDeadProcess \/ TimeoutRequests
  BY <1>0, <1>3, KeepOnePid
<1>4. CASE \/ FetchRequests \/ EndSelect \/ EndPass
           \/ \E r \in Ids : SelectStep(r) \/ CheckRequest(r)
  BY <1>0, <1>4, PassOnePid
<1>5. CASE MarkWorking \/ WaitForOthers \/ \E p \in Pids : Fork(p)
  BY <1>0, <1>5, ExecuteOnePid
<1>6. ASSUME NEW p \in Pids, ChildProgress(p) \/ ChildDies(p) PROVE OnePid'
  BY <1>0, <1>6, ChildOnePid
<1>7. CASE Crash
  BY <1>0, <1>7 DEF Crash, OnePid, HasPid, AboutToFork
<1>8. CASE Restart
  <2>1. \A o \in Ids : /\ requests'[o].pid = requests[o].pid
                       /\ requests'[o].retry = requests[o].retry
    BY <1>8 DEF Restart, TypeOK, Row
  <2>2. pids = {} /\ UNCHANGED <<pids, passVars>> /\ master' = "idle"
    BY <1>8 DEF Restart, OnePid
  <2> QED
    BY <1>0, <2>1, <2>2, StillOnePid DEF OnePid, AboutToFork, passVars
<1> QED
  BY <1>1, <1>2, <1>3, <1>4, <1>5, <1>6, <1>7, <1>8 DEF Next, MasterStep

LEMMA OnePidInductive ==
  /\ PromptChildren /\ PromptCallers /\ NothingComesBack
  /\ Spec /\ [][~ Accident]_vars
  => []OnePid
<1> SUFFICES ASSUME PromptChildren, PromptCallers, NothingComesBack
             PROVE  Spec /\ [][~ Accident]_vars => []OnePid
  OBVIOUS
<1>1. Init => OnePid
  BY DEF Init, OnePid, HasPid, AboutToFork, NoPid, Undefined
<1>2. OnePid /\ EachOnce /\ IInv /\ [Next]_vars /\ [~ Accident]_vars => OnePid'
  <2>1. OnePid /\ EachOnce /\ IInv /\ Next /\ ~ Accident => OnePid'
    BY NextOnePid DEF IInv
  <2>2. OnePid /\ UNCHANGED vars => OnePid'
    BY DEF OnePid, HasPid, AboutToFork, Unready, vars
  <2> QED
    BY <2>1, <2>2
<1> QED
  BY <1>1, <1>2, Inductive, OnceInductive, PTL DEF Spec

\* No request is done while it is executed or about to be, whatever is killed, however often
\* the daemon is restarted, and whoever dies in the middle of a command, if no request comes
\* back and there is no accident.
THEOREM NothingDoneEarly ==
  /\ PromptChildren /\ PromptCallers /\ NothingComesBack
  /\ Spec /\ [][~ Accident]_vars
  => []NotDoneEarly
<1>1. OnePid /\ IInv => NotDoneEarly
  BY DEF OnePid, IInv, ProcessesKnown, NotDoneEarly, Executing, RowFits, IsDone
<1> QED
  BY <1>1, OnePidInductive, Inductive, PTL

-----------------------------------------------------------------------------
(* The limits of the types.                                                *)

\* Only a fork starts a process.
LEMMA OnlyForkStarts ==
  ASSUME TypeOK, ProcessesKnown, Next, NEW p \in Pids, Executing(p)'
  PROVE  \/ Fork(p)
         \/ /\ Executing(p) /\ proc'[p].req = proc[p].req
            /\ proc'[p].state \in {proc[p].state, "running"}
<1>0. proc \in [Pids -> Process] /\ proc'[p].state \in {"forked", "running"}
  BY DEF TypeOK, Executing
<1>1. CASE proc' = proc
  BY <1>0, <1>1 DEF Executing
<1>2. CASE \E victims : proc' = Killed(victims)
  BY <1>0, <1>2, KilledKeeps DEF Executing
<1>3. CASE Housekeeping \/ ReapBeforeFork
  BY <1>0, <1>3, WaitPidsKeeps DEF Housekeeping, ReapBeforeFork, Executing
<1>4. ASSUME NEW q \in Pids, Fork(q)
      PROVE  Fork(p) \/ proc'[p] = proc[p]
  BY <1>0, <1>4 DEF Fork
<1>5. ASSUME NEW q \in Pids, ChildProgress(q) \/ ChildDies(q)
      PROVE  /\ Executing(p) /\ proc'[p].req = proc[p].req
             /\ proc'[p].state \in {proc[p].state, "running"}
  <2>1. CASE q # p
    BY <1>0, <1>5, <2>1, ChildKeeps DEF Executing
  <2>2. CASE q = p
    <3>1. CASE ChildBegin(p)
      BY <1>0, <3>1 DEF ChildBegin, ChildStep, SetProcess, Process, Executing
    <3>2. CASE ~ ChildBegin(p)
      <4>1. \E from \in ProcState, to \in ProcState \ {"forked", "running"} : \E left :
              SetProcess(p, from, to, left)
        BY <1>5, <2>2, <3>2
        DEF ChildProgress, ChildDies, ChildFinish, ChildAsksRetry, ChildReschedules,
            ChildPostpones, ChildExit, ChildStep, ProcState
      <4> QED
        BY <1>0, <4>1 DEF SetProcess, Process
    <3> QED
      BY <3>1, <3>2
  <2> QED
    BY <2>1, <2>2
<1>6. CASE Crash
  BY <1>0, <1>6 DEF Crash, NoProcess
<1>7. \/ proc' = proc \/ Crash \/ Housekeeping \/ ReapBeforeFork
      \/ \E victims : proc' = Killed(victims)
      \/ \E q \in Pids : Fork(q) \/ ChildProgress(q) \/ ChildDies(q)
  <2>1. CASE MasterStep
    BY <2>1
    DEF MasterStep, KillStaleProcess, KillDeadProcess, TimeoutRequests, StopSome, FetchRequests,
        SelectStep, PingBackend, FailRequest, SelectRequest, SkipRequest, CheckRequest,
        EndSelect, EndPass, MarkWorking, WaitForOthers, Restart
  <2> QED
    BY <2>1 DEF Next, NewRequest, TimePasses, ValidateRequest
<1> QED
  BY <1>0, <1>1, <1>2, <1>3, <1>4, <1>5, <1>6, <1>7 DEF Executing

OfType(t) == {p \in Pids : Executing(p) /\ TypeOfRequest(proc[p].req) = t}

LEMMA PidsFinite == IsFiniteSet(Pids)
BY FS_Interval, SizeAssumption DEF Pids

\* _can_fork counts every process that executes a request of the type, if no such request
\* is done.
LEMMA AllCounted ==
  ASSUME TypeOK, ProcessesKnown, NotDoneEarly, NEW t \in Types
  PROVE  /\ OfType(t) \subseteq Counted(t)
         /\ IsFiniteSet(OfType(t))
         /\ Cardinality(OfType(t)) <= Cardinality(Counted(t))
         /\ Cardinality(OfType(t)) \in Nat /\ Cardinality(Counted(t)) \in Nat
<1>1. OfType(t) \subseteq Counted(t)
  BY DEF OfType, Counted, ProcessesKnown, NotDoneEarly, IsDone, Executing
<1>2. Counted(t) \subseteq Pids
  BY DEF Counted, TypeOK
<1>3. IsFiniteSet(Counted(t))
  BY <1>2, PidsFinite, FS_Subset
<1> QED
  BY <1>1, <1>3, FS_Subset, FS_CardinalityType

LEMMA NextLimit ==
  ASSUME TypeOK, ProcessesKnown, NotDoneEarly, LimitRespected, Next
  PROVE  LimitRespected'
<1> SUFFICES ASSUME NEW t \in Types
             PROVE  Cardinality(OfType(t)') <= Limit[t]
  BY DEF LimitRespected, OfType
<1>0. /\ Cardinality(OfType(t)) <= Limit[t]
      /\ Limit[t] \in Nat
      /\ IsFiniteSet(OfType(t)) /\ Cardinality(OfType(t)) \in Nat
  BY AllCounted, LimitAssumption DEF LimitRespected, OfType
<1>1. CASE OfType(t)' \subseteq OfType(t)
  <2>1. /\ Cardinality(OfType(t)') <= Cardinality(OfType(t))
        /\ Cardinality(OfType(t)') \in Nat
    BY <1>0, <1>1, FS_Subset, FS_CardinalityType
  <2> QED
    BY <1>0, <2>1
<1>2. ASSUME NEW p \in OfType(t)', p \notin OfType(t)
      PROVE  Cardinality(OfType(t)') <= Limit[t]
  <2>1. p \in Pids /\ Executing(p)' /\ TypeOfRequest(proc'[p].req) = t
    BY <1>2 DEF OfType
  <2>2. Fork(p)
    BY <1>2, <2>1, OnlyForkStarts DEF OfType
  <2>3. proc'[p].req = current /\ \A q \in Pids \ {p} : proc'[q] = proc[q]
    BY <2>1, <2>2 DEF Fork, TypeOK
  <2>4. OfType(t)' \subseteq OfType(t) \cup {p}
    BY <2>3 DEF OfType, Executing
  <2>5. Cardinality(Counted(t)) < Limit[t]
    BY <2>1, <2>2, <2>3 DEF Fork, CanFork
  <2>6. Cardinality(OfType(t)) < Limit[t]
    BY <1>0, <2>5, AllCounted
  <2>7. /\ IsFiniteSet(OfType(t) \cup {p})
        /\ Cardinality(OfType(t) \cup {p}) = Cardinality(OfType(t)) + 1
    BY <1>0, <1>2, FS_AddElement
  <2>8. /\ Cardinality(OfType(t)') <= Cardinality(OfType(t) \cup {p})
        /\ Cardinality(OfType(t)') \in Nat
    BY <2>4, <2>7, FS_Subset, FS_CardinalityType
  <2> QED
    BY <1>0, <2>6, <2>7, <2>8
<1> QED
  BY <1>1, <1>2

\* The processes that execute requests of a type are never more than its limit, as long as
\* no request is done while it is executed: then a count of pids is a count of processes.
THEOREM LimitWhileNotDone == Spec /\ []NotDoneEarly => []LimitRespected
<1>1. Init => LimitRespected
  <2> SUFFICES ASSUME Init, NEW t \in Types
               PROVE  Cardinality(OfType(t)) <= Limit[t]
    BY DEF LimitRespected, OfType
  <2>1. OfType(t) = {}
    BY DEF Init, OfType, Executing, NoProcess
  <2> QED
    BY <2>1, FS_EmptySet, LimitAssumption
<1>2. LimitRespected /\ NotDoneEarly /\ IInv /\ [Next]_vars => LimitRespected'
  <2>1. LimitRespected /\ NotDoneEarly /\ IInv /\ Next => LimitRespected'
    BY NextLimit DEF IInv
  <2>2. LimitRespected /\ UNCHANGED vars => LimitRespected'
    BY DEF LimitRespected, Executing, vars
  <2> QED
    BY <2>1, <2>2
<1> QED
  BY <1>1, <1>2, Inductive, PTL DEF Spec

\* So the limits hold whatever is killed or restarted, if no request comes back and there is
\* no accident.
THEOREM LimitHolds ==
  /\ PromptChildren /\ PromptCallers /\ NothingComesBack
  /\ Spec /\ [][~ Accident]_vars
  => []LimitRespected
BY NothingDoneEarly, LimitWhileNotDone, PTL

-----------------------------------------------------------------------------
(* Two requests with one command about one machine.                        *)

\* Requests that never execute together.
Twins(a, b) ==
  /\ a # b
  /\ SeenKey(a) = SeenKey(b)
  /\ Args[a].id_domain # NoDomain
  /\ Command(a) \notin ShutdownCommands \cup Unobtrusive \cup {"list_cpu_models"}

\* The pass is going to execute r, or executing it.
Chosen(r) == r \in selected \/ (AboutToFork /\ current = r)

\* No request that is chosen has a twin that is chosen or executing, and one that is met
\* from now on in the pass is not chosen if a twin of it was.
Alone ==
  /\ \A p, q \in Pids : Executing(p) /\ Executing(q) => ~ Twins(proc[p].req, proc[q].req)
  /\ \A r \in Ids, p \in Pids : Chosen(r) /\ Executing(p) => ~ Twins(r, proc[p].req)
  /\ \A a, b \in Ids : Chosen(a) /\ Chosen(b) => ~ Twins(a, b)
  /\ master = "select" =>
       /\ \A r \in selected : Args[r].id_domain # NoDomain => SeenKey(r) \in seen
       /\ \A p \in Pids : proc[p].state # "forked"

LEMMA TwinsSymmetric ==
  ASSUME NEW a, NEW b, Twins(a, b)
  PROVE  Twins(b, a)
BY DEF Twins, SeenKey

LEMMA AloneExcludes == Alone => SameCommandExclusive
BY DEF Alone, SameCommandExclusive, Twins, SeenKey

\* A step that starts no process and chooses nothing new keeps Alone.
LEMMA StillAlone ==
  ASSUME TypeOK, ProcessesKnown, Alone, Next,
         \A p \in Pids : ~ Fork(p),
         \A r \in Ids : Chosen(r)' => Chosen(r),
         master' = "select" => /\ \A r \in selected' : Args[r].id_domain # NoDomain =>
                                                         SeenKey(r) \in seen'
                               /\ \A p \in Pids : proc[p].state # "forked"
  PROVE  Alone'
<1>1. \A p \in Pids : Executing(p)' => /\ Executing(p) /\ proc'[p].req = proc[p].req
                                       /\ proc'[p].state \in {proc[p].state, "running"}
  BY OnlyForkStarts
<1>2. \A p, q \in Pids : Executing(p)' /\ Executing(q)' => ~ Twins(proc'[p].req, proc'[q].req)
  BY <1>1 DEF Alone
<1>3. \A r \in Ids, p \in Pids : Chosen(r)' /\ Executing(p)' => ~ Twins(r, proc'[p].req)
  BY <1>1 DEF Alone
<1>4. \A a, b \in Ids : Chosen(a)' /\ Chosen(b)' => ~ Twins(a, b)
  BY DEF Alone
<1>5. master' = "select" => \A p \in Pids : proc'[p].state # "forked"
  BY <1>1 DEF Executing
<1> QED
  BY <1>2, <1>3, <1>4, <1>5 DEF Alone

\* A request is selected only if the pass has met no twin of it before and, since a request
\* that executes is working, no twin executes.
LEMMA SelectAlone ==
  ASSUME TypeOK, ProcessesKnown, EachOnce, NotDoneEarly, Alone,
         NEW r \in Ids, SelectRequest(r), r \in selected', r \notin selected
  PROVE  /\ \A p \in Pids : Executing(p) => ~ Twins(r, proc[p].req)
         /\ \A a \in selected : ~ Twins(r, a)
<1>1. master = "select" /\ ~ WasSeen(r) /\ (Command(r) \in ShutdownCommands \/ ~ DomainWorking(r))
  BY DEF SelectRequest
<1>2. ASSUME NEW p \in Pids, Executing(p), Twins(r, proc[p].req) PROVE FALSE
  <2> DEFINE o == proc[p].req
  <2>1. proc[p].state = "running" /\ o \in Ids
    BY <1>1, <1>2 DEF Alone, Executing, ProcessesKnown
  <2>2. requests[o].status = "working"
    BY <1>2, <2>1 DEF EachOnce, NotDoneEarly, IsDone
  <2>3. /\ o # r /\ Args[o].id_domain = Args[r].id_domain /\ Command(o) = Command(r)
        /\ Args[r].id_domain # NoDomain
        /\ Command(r) \notin ShutdownCommands \cup Unobtrusive \cup {"list_cpu_models"}
    BY <1>2 DEF Twins, SeenKey
  <2>4. DomainWorking(r)
    BY <2>1, <2>2, <2>3 DEF DomainWorking, LookupDomain
  <2> QED
    BY <1>1, <2>3, <2>4
<1>3. ASSUME NEW a \in selected, Twins(r, a) PROVE FALSE
  BY <1>1, <1>3 DEF Alone, Twins, SeenKey, WasSeen
<1> QED
  BY <1>2, <1>3

LEMMA NextAlone ==
  ASSUME TypeOK, ProcessesKnown, EachOnce, NotDoneEarly, Alone, PromptChildren, Next
  PROVE  Alone'
<1>1. ASSUME NEW p \in Pids, Fork(p) PROVE Alone'
  <2>1. /\ AboutToFork /\ ~ AboutToFork' /\ selected' = selected /\ master' = "check"
        /\ current \in Ids /\ current \notin selected
    BY <1>1 DEF Fork, AboutToFork, passVars, ProcessesKnown, EachOnce
  <2>2. proc'[p].req = current /\ \A q \in Pids \ {p} : proc'[q] = proc[q]
    BY <1>1 DEF Fork, TypeOK
  <2>3. Chosen(current)
    BY <2>1 DEF Chosen
  <2>4. \A q \in Pids \ {p} : Executing(q)' => /\ Executing(q)
                                               /\ ~ Twins(current, proc[q].req)
                                               /\ ~ Twins(proc[q].req, current)
    BY <2>1, <2>2, <2>3, TwinsSymmetric DEF Alone, Executing
  <2>5. ~ Twins(current, current)
    BY DEF Twins
  <2>6. \A q, o \in Pids : Executing(q)' /\ Executing(o)' => ~ Twins(proc'[q].req, proc'[o].req)
    BY <2>2, <2>4, <2>5 DEF Alone
  <2>7. \A r \in Ids : Chosen(r)' => Chosen(r) /\ r # current
    BY <2>1 DEF Chosen
  <2>8. \A r \in Ids, q \in Pids : Chosen(r)' /\ Executing(q)' => ~ Twins(r, proc'[q].req)
    BY <2>1, <2>2, <2>3, <2>4, <2>7 DEF Alone
  <2>9. \A a, b \in Ids : Chosen(a)' /\ Chosen(b)' => ~ Twins(a, b)
    BY <2>7 DEF Alone
  <2> QED
    BY <2>1, <2>6, <2>8, <2>9 DEF Alone
<1>2. ASSUME NEW r \in Ids, SelectRequest(r) PROVE Alone'
  <2>1. /\ proc' = proc /\ master = "select" /\ master' = "select"
        /\ ~ AboutToFork /\ ~ AboutToFork'
        /\ selected' \in {selected, selected \cup {r}}
    BY <1>2 DEF SelectRequest, AboutToFork
  <2>2. \A o \in selected' : Args[o].id_domain # NoDomain => SeenKey(o) \in seen'
    BY <1>2, <2>1 DEF SelectRequest, Alone
  <2>3. \A p \in Pids : Executing(p)' => Executing(p)
    BY <2>1 DEF Executing
  <2>4. \A o \in Ids, p \in Pids : o \in selected' /\ Executing(p)' => ~ Twins(o, proc'[p].req)
    BY <1>2, <2>1, <2>3, SelectAlone DEF Alone, Chosen
  <2>5. \A a, b \in Ids : a \in selected' /\ b \in selected' => ~ Twins(a, b)
    <3>1. ~ Twins(r, r)
      BY DEF Twins
    <3> QED
      BY <1>2, <2>1, <3>1, SelectAlone, TwinsSymmetric DEF Alone, Chosen
  <2> QED
    BY <2>1, <2>2, <2>3, <2>4, <2>5 DEF Alone, Chosen
<1>3. CASE FetchRequests
  <2>1. \A r \in Ids : ~ Chosen(r)'
    BY <1>3 DEF FetchRequests, Chosen, AboutToFork
  <2>2. selected' = {} /\ \A p \in Pids : proc[p].state # "forked" /\ ~ Fork(p)
    BY <1>3 DEF FetchRequests, Fork
  <2> QED
    BY <2>1, <2>2, StillAlone
<1>4. ASSUME NEW r \in Ids, CheckRequest(r) PROVE Alone'
  <2>1. /\ selected' \subseteq selected /\ master' # "select"
        /\ AboutToFork' => current' \in selected
        /\ \A p \in Pids : ~ Fork(p)
    BY <1>4 DEF CheckRequest, ComesFirst, AboutToFork, Fork
  <2>2. \A o \in Ids : Chosen(o)' => Chosen(o)
    BY <2>1 DEF Chosen
  <2> QED
    BY <2>1, <2>2, StillAlone
<1>5. ASSUME UNCHANGED <<selected, seen>>,
             \A p \in Pids : ~ Fork(p),
             AboutToFork' => AboutToFork /\ current' = current,
             master' = "select" => master = "select"
      PROVE  Alone'
  <2>1. \A o \in Ids : Chosen(o)' => Chosen(o)
    BY <1>5 DEF Chosen
  <2>2. master' = "select" => /\ \A r \in selected' : Args[r].id_domain # NoDomain =>
                                                        SeenKey(r) \in seen'
                              /\ \A p \in Pids : proc[p].state # "forked"
    BY <1>5 DEF Alone
  <2> QED
    BY <1>5, <2>1, <2>2, StillAlone
<1>6. CASE EndPass \/ Crash
  <2>1. /\ \A r \in Ids : ~ Chosen(r)'
        /\ master' # "select"
        /\ \A p \in Pids : ~ Fork(p)
    BY <1>6 DEF EndPass, Crash, Chosen, AboutToFork, Fork
  <2> QED
    BY <2>1, StillAlone
<1>7. CASE MasterStep
  <2>1. CASE \/ KillStaleProcess \/ KillDeadProcess \/ TimeoutRequests
             \/ EndSelect \/ MarkWorking \/ ReapBeforeFork \/ WaitForOthers \/ Restart
             \/ \E r \in Ids : PingBackend(r) \/ FailRequest(r) \/ SkipRequest(r)
    BY <1>5, <2>1
    DEF KillStaleProcess, KillDeadProcess, TimeoutRequests, EndSelect, MarkWorking,
        ReapBeforeFork, WaitForOthers, Restart, PingBackend, FailRequest, SkipRequest,
        AboutToFork, passVars, Fork
  <2> QED
    BY <1>1, <1>2, <1>3, <1>4, <1>6, <1>7, <2>1 DEF MasterStep, SelectStep
<1>8. CASE \/ \E r \in Ids : NewRequest(r) \/ TimePasses(r)
           \/ \E r \in Ids, denied \in BOOLEAN : ValidateRequest(r, denied)
           \/ Housekeeping
           \/ \E p \in Pids : ChildProgress(p) \/ ChildDies(p)
  <2>1. \/ UNCHANGED <<selected, seen, master, current>>
        \/ UNCHANGED <<selected, seen>> /\ master' = "stale"
    BY <1>8, ChildKeeps DEF NewRequest, TimePasses, ValidateRequest, Housekeeping, passVars
  <2>2. CASE \E p \in Pids : Fork(p)
    BY <1>1, <2>2
  <2>3. CASE \A p \in Pids : ~ Fork(p)
    BY <1>5, <2>1, <2>3 DEF AboutToFork
  <2> QED
    BY <2>2, <2>3
<1> QED
  BY <1>6, <1>7, <1>8 DEF Next

\* Two requests with one command about one machine never execute at the same time, as long as
\* no request is done while it is executed: a pass meets only one of them, and a request of a
\* pass before is working and makes the machine busy.
THEOREM ExclusiveWhileNotDone ==
  /\ PromptChildren /\ PromptCallers
  /\ Spec /\ []NotDoneEarly
  => []SameCommandExclusive
<1> SUFFICES ASSUME PromptChildren, PromptCallers
             PROVE  Spec /\ []NotDoneEarly => []SameCommandExclusive
  OBVIOUS
<1>1. Init => Alone
  BY DEF Init, Alone, Executing, Chosen, AboutToFork, NoProcess
<1>2. Alone /\ EachOnce /\ NotDoneEarly /\ IInv /\ [Next]_vars => Alone'
  <2>1. Alone /\ EachOnce /\ NotDoneEarly /\ IInv /\ Next => Alone'
    BY NextAlone DEF IInv
  <2>2. Alone /\ UNCHANGED vars => Alone'
    BY DEF Alone, Executing, Chosen, AboutToFork, vars
  <2> QED
    BY <2>1, <2>2
<1> QED
  BY <1>1, <1>2, Inductive, OnceInductive, AloneExcludes, PTL DEF Spec

\* So they never do if no request comes back and there is no accident.
THEOREM ExclusiveHolds ==
  /\ PromptChildren /\ PromptCallers /\ NothingComesBack
  /\ Spec /\ [][~ Accident]_vars
  => []SameCommandExclusive
BY NothingDoneEarly, ExclusiveWhileNotDone, PTL
=============================================================================
