------------------------ MODULE RequestQueue_proofs ------------------------
(* Theorems about RequestQueue, for every value of its constants.          *)
EXTENDS RequestQueue, WellFoundedInduction, TLAPS

-----------------------------------------------------------------------------
(* What the operators on rows return.                                      *)

\* A set of natural numbers that is not empty has a least element.
LEMMA LeastNat ==
  ASSUME NEW S, S \subseteq Nat, S # {}
  PROVE  \E m \in S : \A n \in S : m <= n
<1>1. \E m \in S : \A n \in S : <<n, m>> \notin OpToRel(<, Nat)
  BY NatLessThanWellFounded, WFMin
<1>2. PICK m \in S : \A n \in S : <<n, m>> \notin OpToRel(<, Nat)
  BY <1>1
<1>3. \A n \in S : ~ (n < m)
  BY <1>2 DEF OpToRel
<1> QED
  BY <1>3

\* A set of numbers up to n that is not empty has a greatest element.
LEMMA GreatestNat ==
  ASSUME NEW n \in Nat, NEW S, S \subseteq 1 .. n, S # {}
  PROVE  \E m \in S : \A k \in S : k <= m
<1>1. {n - k : k \in S} \subseteq Nat /\ {n - k : k \in S} # {}
  <2>1. \A k \in S : k \in Nat /\ k <= n
    OBVIOUS
  <2>2. \A k \in S : n - k \in Nat
    BY <2>1
  <2> QED
    BY <2>2
<1>2. PICK m \in S : \A j \in {n - k : k \in S} : n - m <= j
  BY <1>1, LeastNat
<1>3. \A k \in S : n - m <= n - k /\ k \in Nat
  BY <1>2
<1> QED
  BY <1>3

\* The request that a search finds is a request, or none was found.
LEMMA SearchRequestType ==
  ASSUME NEW r \in Ids, NEW commands
  PROVE  SearchRequest(r, commands) \in Ids \cup {NoRequest}
<1> DEFINE found == Found(r, commands)
           dates == {Args[o].date_req : o \in found}
           first == {o \in found : \A q \in found : Args[o].date_req <= Args[q].date_req}
<1>1. CASE found = {}
  BY <1>1 DEF SearchRequest
<1>2. CASE found # {}
  <2>1. found \subseteq Ids
    BY DEF Found
  <2>2. dates \subseteq Nat /\ dates # {}
    BY <1>2, <2>1, ArgsAssumption DEF ArgRecord
  <2>3. \E d \in dates : \A e \in dates : d <= e
    BY <2>2, LeastNat
  <2>4. first # {} /\ first \subseteq Ids
    BY <2>1, <2>3
  <2>5. \E o \in first : \A q \in first : q <= o
    BY <2>4, GreatestNat, SizeAssumption DEF Ids
  <2> QED
    BY <1>2, <2>1, <2>5 DEF SearchRequest
<1> QED
  BY <1>1, <1>2

\* Whatever validation makes of the dependency of a new request is a request or none.
LEMMA ValidatedAfterType ==
  ASSUME TypeOK, NEW r \in Ids
  PROVE  ValidatedAfter(r) \in Ids \cup {NoRequest}
<1>1. \A commands : SearchRequest(r, commands) \in Ids \cup {NoRequest}
  BY SearchRequestType
<1>2. requests[r].after_request \in Ids \cup {NoRequest}
  BY DEF TypeOK, Row
<1> QED
  BY <1>1, <1>2 DEF ValidatedAfter, Later

\* A new row is a row, and so is what validation leaves of it.
LEMMA NewRowType ==
  ASSUME NEW r \in Ids
  PROVE  NewRow(r) \in Row
<1>1. /\ Args[r].retry \in Undefined .. MaxRetry
      /\ Args[r].after_request \in Ids \cup {NoRequest}
      /\ Args[r].after_request_ok \in Ids \cup {NoRequest}
  BY ArgsAssumption DEF ArgRecord
<1> QED
  BY <1>1 DEF NewRow, Row, Status

LEMMA ValidatedType ==
  ASSUME NEW row \in Row, NEW after \in Ids \cup {NoRequest}, NEW denied \in BOOLEAN
  PROVE  Validated(row, after, denied) \in Row
<1>1. (row.error \/ denied) \in BOOLEAN
  OBVIOUS
<1>2. (IF row.status = "deleted" THEN row.status
       ELSE IF denied \/ row.status = "done" THEN "done" ELSE "requested") \in Status
  BY DEF Status
<1> QED
  BY <1>1, <1>2 DEF Validated, Row

\* What stop, the master and the restart write in a row.
LEMMA RowType ==
  ASSUME NEW row \in Row
  PROVE  /\ [row EXCEPT !.status = "done"] \in Row
         /\ [row EXCEPT !.status = "deleted"] \in Row
         /\ [row EXCEPT !.at = "none"] \in Row
         /\ [row EXCEPT !.at = "due"] \in Row
         /\ [row EXCEPT !.status = "done", !.error = TRUE] \in Row
         /\ [row EXCEPT !.status = "waiting", !.error = TRUE, !.at = "later"] \in Row
         /\ [row EXCEPT !.status = "requested", !.error = TRUE] \in Row
         /\ [row EXCEPT !.status = IF @ = "waiting" THEN @ ELSE "working",
                        !.started = TRUE, !.error = FALSE] \in Row
<1>1. [row EXCEPT !.status = "done"] \in Row
  BY DEF Row, Status
<1>2. [row EXCEPT !.status = "deleted"] \in Row
  BY DEF Row, Status
<1>3. [row EXCEPT !.at = "none"] \in Row
  BY DEF Row
<1>4. [row EXCEPT !.at = "due"] \in Row
  BY DEF Row
<1>5. [row EXCEPT !.status = "done", !.error = TRUE] \in Row
  BY DEF Row, Status
<1>6. [row EXCEPT !.status = "waiting", !.error = TRUE, !.at = "later"] \in Row
  BY DEF Row, Status
<1>7. [row EXCEPT !.status = "requested", !.error = TRUE] \in Row
  BY DEF Row, Status
<1>8. [row EXCEPT !.status = IF @ = "waiting" THEN @ ELSE "working",
                  !.started = TRUE, !.error = FALSE] \in Row
  BY DEF Row, Status
<1> QED
  BY <1>1, <1>2, <1>3, <1>4, <1>5, <1>6, <1>7, <1>8

\* What a fork and the beginning of a command write in a row.
LEMMA RowPidType ==
  ASSUME NEW row \in Row, NEW p \in Pids
  PROVE  /\ [row EXCEPT !.pid = p] \in Row
         /\ [row EXCEPT !.status = "working", !.pid = p] \in Row
<1>1. [row EXCEPT !.pid = p] \in Row
  BY DEF Row
<1>2. [row EXCEPT !.status = "working", !.pid = p] \in Row
  BY DEF Row, Status
<1> QED
  BY <1>1, <1>2

\* What the end of a command writes in a row.
LEMMA RowEndType ==
  ASSUME NEW row \in Row, NEW n \in 0 .. MaxRetry, NEW e \in BOOLEAN
  PROVE  /\ [row EXCEPT !.at = "later", !.retry = n] \in Row
         /\ Finished(row, e) \in Row
<1>1. n \in Undefined .. MaxRetry
  BY DEF Undefined, MaxRetry
<1>2. [row EXCEPT !.at = "later", !.retry = n] \in Row
  BY <1>1 DEF Row
<1>3. (row.error \/ e) \in BOOLEAN
  OBVIOUS
<1>4. Finished(row, e) \in Row
  BY <1>3 DEF Finished, Row, Status
<1> QED
  BY <1>2, <1>4

\* What becomes of the row of a prepare_base that has to come back.
LEMMA PostponedType ==
  ASSUME NEW row \in Row, NEW s \in Ids
  PROVE  Postponed(row, s) \in Row
<1>1. (IF row.retry = Undefined THEN PrepareBaseRetries
       ELSE IF row.retry = 0 THEN row.retry ELSE row.retry - 1) \in Undefined .. MaxRetry
  BY SizeAssumption DEF Row, Undefined, MaxRetry
<1>2. (IF row.retry = 0 THEN "done" ELSE "retry") \in Status
  BY DEF Status
<1> QED
  BY <1>1, <1>2 DEF Postponed, Row

\* stop() keeps rows and processes well typed.
LEMMA StopType ==
  ASSUME TypeOK, NEW victims
  PROVE  /\ Stopped(victims) \in [Ids -> Row]
         /\ Killed(victims) \in [Pids -> Process]
<1>1. Stopped(victims) \in [Ids -> Row]
  BY RowType DEF TypeOK, Stopped
<1>2. Killed(victims) \in [Pids -> Process]
  BY DEF TypeOK, Killed, Process, ProcState
<1> QED
  BY <1>1, <1>2

\* So does _wait_pids.
LEMMA WaitPidsType ==
  ASSUME TypeOK, WaitPids
  PROVE  /\ requests' \in [Ids -> Row]
         /\ proc' \in [Pids -> Process]
         /\ pids' \subseteq Pids
<1>1. requests' \in [Ids -> Row]
  BY DEF TypeOK, WaitPids, Row, Status
<1>2. proc' \in [Pids -> Process]
  BY DEF TypeOK, WaitPids, Process, ProcState, NoProcess, MaxRetry
<1>3. pids' \subseteq Pids
  BY DEF TypeOK, WaitPids
<1> QED
  BY <1>1, <1>2, <1>3

-----------------------------------------------------------------------------
(* Type correctness.                                                       *)

LEMMA InitType == Init => TypeOK
BY SizeAssumption
DEF Init, TypeOK, Row, Status, Process, ProcState, NoProcess, MasterState, MaxRetry, Undefined

LEMMA NewRequestType ==
  ASSUME TypeOK, NEW r \in Ids, NewRequest(r)
  PROVE  TypeOK'
<1>1. NewRow(r) \in Row
  BY NewRowType
<1>2. proc' \in [Pids -> Process]
  BY StopType DEF NewRequest
<1>3. requests' \in [Ids -> Row]
  BY <1>1, RowType DEF NewRequest, TypeOK
<1> QED
  BY <1>2, <1>3 DEF NewRequest, TypeOK, passVars

LEMMA ValidateRequestType ==
  ASSUME TypeOK, NEW r \in Ids, NEW denied \in BOOLEAN, ValidateRequest(r, denied)
  PROVE  TypeOK'
<1>1. Validated(requests[r], ValidatedAfter(r), denied) \in Row
  BY ValidatedAfterType, ValidatedType DEF TypeOK
<1>2. requests' \in [Ids -> Row]
  BY <1>1, RowType DEF ValidateRequest, TypeOK
<1> QED
  BY <1>2 DEF ValidateRequest, TypeOK, passVars

LEMMA TimePassesType ==
  ASSUME TypeOK, NEW r \in Ids, TimePasses(r)
  PROVE  TypeOK'
BY DEF TypeOK, TimePasses, Row, passVars

LEMMA HousekeepingType ==
  ASSUME TypeOK, Housekeeping \/ ReapBeforeFork
  PROVE  TypeOK'
<1>1. WaitPids
  BY DEF Housekeeping, ReapBeforeFork
<1> QED
  BY <1>1, WaitPidsType DEF TypeOK, Housekeeping, ReapBeforeFork, passVars, MasterState

LEMMA KillType ==
  ASSUME TypeOK, KillStaleProcess \/ KillDeadProcess \/ TimeoutRequests
  PROVE  TypeOK'
<1>1. requests' \in [Ids -> Row] /\ proc' \in [Pids -> Process]
  BY StopType DEF KillStaleProcess, KillDeadProcess, TimeoutRequests, StopSome
<1> QED
  BY <1>1
  DEF TypeOK, KillStaleProcess, KillDeadProcess, TimeoutRequests, passVars, MasterState

LEMMA SelectType ==
  ASSUME TypeOK, NEW r \in Ids, SelectStep(r)
  PROVE  TypeOK'
<1>1. CASE PingBackend(r)
  BY <1>1, RowType DEF PingBackend, TypeOK
<1>2. CASE FailRequest(r)
  BY <1>2, RowType DEF FailRequest, TypeOK
<1>3. CASE SelectRequest(r)
  <2>1. Args[r].id_domain # NoDomain => SeenKey(r) \in Domains \X Commands
    BY ArgsAssumption DEF ArgRecord, SeenKey, Command
  <2>2. seen' \subseteq Domains \X Commands
    BY <1>3, <2>1 DEF SelectRequest, TypeOK
  <2> QED
    BY <1>3, <2>2 DEF SelectRequest, TypeOK
<1>4. CASE SkipRequest(r)
  BY <1>4 DEF SkipRequest, TypeOK
<1> QED
  BY <1>1, <1>2, <1>3, <1>4 DEF SelectStep

LEMMA PassType ==
  ASSUME TypeOK,
         FetchRequests \/ EndSelect \/ EndPass \/ \E r \in Ids : CheckRequest(r)
  PROVE  TypeOK'
BY DEF FetchRequests, EndSelect, EndPass, CheckRequest, TypeOK, passVars, MasterState

LEMMA ExecuteType ==
  ASSUME TypeOK, current \in Ids,
         MarkWorking \/ WaitForOthers \/ \E p \in Pids : Fork(p)
  PROVE  TypeOK'
<1>1. CASE MarkWorking
  <2>1. /\ Stopped(StoppedRefresh(current)) \in [Ids -> Row]
        /\ Killed(StoppedRefresh(current)) \in [Pids -> Process]
    BY StopType
  <2>2. requests' \in [Ids -> Row]
    BY <1>1, <2>1, RowType DEF MarkWorking, TypeOK
  <2> QED
    BY <1>1, <2>1, <2>2 DEF MarkWorking, TypeOK, passVars, MasterState
<1>2. CASE WaitForOthers
  <2>1. requests' \in [Ids -> Row]
    BY <1>2, RowType DEF WaitForOthers, TypeOK
  <2> QED
    BY <1>2, <2>1 DEF WaitForOthers, TypeOK, passVars, MasterState
<1>3. ASSUME NEW p \in Pids, Fork(p) PROVE TypeOK'
  <2>1. requests' \in [Ids -> Row]
    BY <1>3, RowPidType DEF Fork, TypeOK
  <2>2. proc' \in [Pids -> Process]
    BY <1>3 DEF Fork, TypeOK, Process, ProcState, MaxRetry
  <2> QED
    BY <1>3, <2>1, <2>2 DEF Fork, TypeOK, passVars, MasterState
<1> QED
  BY <1>1, <1>2, <1>3

\* SetProcess leaves a process that is well typed.
LEMMA SetProcessType ==
  ASSUME TypeOK, NEW p \in Pids, NEW from, NEW to \in ProcState, NEW left \in 0 .. MaxRetry,
         SetProcess(p, from, to, left)
  PROVE  proc' \in [Pids -> Process]
BY DEF SetProcess, TypeOK, Process

LEMMA ChildType ==
  ASSUME TypeOK, NEW p \in Pids, proc[p].req \in Ids, ChildProgress(p) \/ ChildDies(p)
  PROVE  TypeOK'
<1> DEFINE r == proc[p].req
<1>0. requests[r] \in Row /\ proc[p] \in Process
  BY DEF TypeOK
<1>1. CASE ChildBegin(p)
  <2>1. requests' \in [Ids -> Row]
    BY <1>1, RowPidType DEF ChildBegin, TypeOK
  <2>2. proc' \in [Pids -> Process]
    BY <1>1, SetProcessType DEF ChildBegin, ChildStep, ProcState, MaxRetry
  <2> QED
    BY <1>1, <2>1, <2>2 DEF ChildBegin, ChildStep, SetProcess, TypeOK, passVars
<1>2. ASSUME NEW failed \in BOOLEAN, ChildFinish(p, failed) PROVE TypeOK'
  <2>1. 0 \in 0 .. MaxRetry
    BY DEF MaxRetry
  <2>2. requests' \in [Ids -> Row]
    BY <1>0, <1>2, <2>1, RowEndType DEF ChildFinish, TypeOK
  <2>3. proc' \in [Pids -> Process]
    BY <1>2, <2>1, SetProcessType DEF ChildFinish, ChildStep, ProcState
  <2> QED
    BY <1>2, <2>2, <2>3 DEF ChildFinish, ChildStep, SetProcess, TypeOK, passVars
<1>3. CASE ChildAsksRetry(p)
  <2>1. requests' \in [Ids -> Row]
    BY <1>0, <1>3, RowType DEF ChildAsksRetry, TypeOK
  <2>2. requests[r].retry - 1 \in 0 .. MaxRetry
    BY <1>0, <1>3 DEF ChildAsksRetry, Row, Undefined, MaxRetry
  <2>3. proc' \in [Pids -> Process]
    BY <1>3, <2>2, SetProcessType DEF ChildAsksRetry, ChildStep, ProcState
  <2> QED
    BY <1>3, <2>1, <2>3 DEF ChildAsksRetry, ChildStep, SetProcess, TypeOK, passVars
<1>4. CASE ChildReschedules(p)
  <2>1. proc[p].left \in 0 .. MaxRetry
    BY <1>0 DEF Process
  <2>2. requests' \in [Ids -> Row]
    BY <1>0, <1>4, <2>1, RowEndType DEF ChildReschedules, TypeOK
  <2>3. proc' \in [Pids -> Process]
    BY <1>4, SetProcessType DEF ChildReschedules, ChildStep, ProcState, MaxRetry
  <2> QED
    BY <1>4, <2>2, <2>3 DEF ChildReschedules, ChildStep, SetProcess, TypeOK, passVars
<1>5. ASSUME NEW s \in Ids, ChildPostpones(p, s) PROVE TypeOK'
  <2>1. NewRow(s) \in Row
    BY NewRowType
  <2>2. Postponed(requests[r], s) \in Row
    BY <1>0, <1>5, PostponedType DEF ChildPostpones
  <2>3. requests' \in [Ids -> Row]
    BY <1>5, <2>1, <2>2 DEF ChildPostpones, TypeOK
  <2>4. proc' \in [Pids -> Process]
    BY <1>5, SetProcessType DEF ChildPostpones, ChildStep, ProcState, MaxRetry
  <2> QED
    BY <1>5, <2>3, <2>4 DEF ChildPostpones, ChildStep, SetProcess, TypeOK, passVars
<1>6. CASE ChildExit(p)
  <2>1. proc' \in [Pids -> Process]
    BY <1>6, SetProcessType DEF ChildExit, ChildStep, ProcState, MaxRetry
  <2> QED
    BY <1>6, <2>1 DEF ChildExit, ChildStep, SetProcess, TypeOK, passVars
<1>7. CASE ChildDies(p)
  <2>1. proc' \in [Pids -> Process]
    BY <1>7, SetProcessType DEF ChildDies, ProcState, MaxRetry
  <2>2. crashes' \in 0 .. MaxCrashes
    BY <1>7, SizeAssumption DEF ChildDies, TypeOK
  <2> QED
    BY <1>7, <2>1, <2>2 DEF ChildDies, SetProcess, TypeOK, passVars
<1> QED
  BY <1>1, <1>2, <1>3, <1>4, <1>5, <1>6, <1>7 DEF ChildProgress

LEMMA CrashType ==
  ASSUME TypeOK, Crash
  PROVE  TypeOK'
<1>1. crashes' \in 0 .. MaxCrashes
  BY SizeAssumption DEF Crash, TypeOK
<1>2. proc' \in [Pids -> Process]
  BY DEF Crash, Process, ProcState, NoProcess, MaxRetry
<1> QED
  BY <1>1, <1>2 DEF Crash, TypeOK, MasterState

LEMMA RestartType ==
  ASSUME TypeOK, Restart
  PROVE  TypeOK'
<1>1. requests' \in [Ids -> Row]
  BY RowType DEF Restart, TypeOK
<1> QED
  BY <1>1 DEF Restart, TypeOK, passVars, MasterState

-----------------------------------------------------------------------------
(* The invariants behind the theorems.                                     *)

\* The master knows every process, what each was forked for, and what it works on.
ProcessesKnown ==
  /\ \A p \in Pids : proc[p].state # "none" => p \in pids
  /\ \A p \in pids : proc[p].req \in Ids
  /\ master \in {"mark", "reap", "fork"} => current \in Ids

\* Inductive for every value of the constants.
IInv == TypeOK /\ ProcessesKnown /\ WorkingIsTracked

LEMMA NextType ==
  ASSUME TypeOK, ProcessesKnown, Next
  PROVE  TypeOK'
<1>1. ASSUME NEW r \in Ids, NewRequest(r) PROVE TypeOK'
  BY <1>1, NewRequestType
<1>11. ASSUME NEW r \in Ids, NEW denied \in BOOLEAN, ValidateRequest(r, denied) PROVE TypeOK'
  BY <1>11, ValidateRequestType
<1>2. ASSUME NEW r \in Ids, TimePasses(r) PROVE TypeOK'
  BY <1>2, TimePassesType
<1>3. CASE Housekeeping \/ ReapBeforeFork
  BY <1>3, HousekeepingType
<1>4. CASE KillStaleProcess \/ KillDeadProcess \/ TimeoutRequests
  BY <1>4, KillType
<1>5. ASSUME NEW r \in Ids, SelectStep(r) PROVE TypeOK'
  BY <1>5, SelectType
<1>6. CASE FetchRequests \/ EndSelect \/ EndPass \/ \E r \in Ids : CheckRequest(r)
  BY <1>6, PassType
<1>7. CASE MarkWorking \/ WaitForOthers \/ \E p \in Pids : Fork(p)
  <2>1. current \in Ids
    BY <1>7 DEF ProcessesKnown, MarkWorking, WaitForOthers, Fork
  <2> QED
    BY <1>7, <2>1, ExecuteType
<1>8. ASSUME NEW p \in Pids, ChildProgress(p) \/ ChildDies(p) PROVE TypeOK'
  <2>1. proc[p].state # "none"
    BY <1>8
    DEF ChildProgress, ChildDies, ChildBegin, ChildFinish, ChildAsksRetry, ChildReschedules,
        ChildPostpones, ChildExit, ChildStep, SetProcess
  <2>2. proc[p].req \in Ids
    BY <2>1 DEF ProcessesKnown
  <2> QED
    BY <1>8, <2>2, ChildType
<1>9. CASE Crash
  BY <1>9, CrashType
<1>10. CASE Restart
  BY <1>10, RestartType
<1> QED
  BY <1>1, <1>2, <1>3, <1>4, <1>5, <1>6, <1>7, <1>8, <1>9, <1>10, <1>11 DEF Next, MasterStep

\* stop() leaves a process what it was forked for and starts none.
LEMMA KilledKeeps ==
  ASSUME TypeOK, NEW victims, NEW p \in Pids
  PROVE  /\ Killed(victims)[p].req = proc[p].req
         /\ Killed(victims)[p].state \in {"none", "forked", "running"} =>
              Killed(victims)[p].state = proc[p].state
         /\ proc[p].state = "none" => Killed(victims)[p].state = "none"
BY DEF TypeOK, Process, Killed, IsLive, Live

\* stop() makes rows done and no other status.
LEMMA StoppedKeeps ==
  ASSUME TypeOK, NEW victims, NEW r \in Ids
  PROVE  Stopped(victims)[r].status \in {"done", requests[r].status}
BY DEF TypeOK, Row, Stopped

\* _wait_pids keeps every pid whose process it does not find gone.
LEMMA WaitPidsKeeps ==
  ASSUME TypeOK, WaitPids
  PROVE  /\ \A p \in pids' : p \in pids /\ proc'[p].req = proc[p].req
         /\ \A p \in pids : p \in pids' \/ p \in GonePids
         /\ \A p \in Pids : /\ proc'[p].state # "none" => p \notin GonePids
                            /\ proc'[p].state # "none" => proc'[p] = proc[p]
BY DEF TypeOK, Process, WaitPids, GonePids, NoProcess

\* A step of a child changes the state of a process the master knows, and nothing the
\* master keeps.
LEMMA ChildKeeps ==
  ASSUME TypeOK, NEW p \in Pids, ChildProgress(p) \/ ChildDies(p)
  PROVE  /\ UNCHANGED <<pids, master, passVars, callers>>
         /\ proc[p].state # "none"
         /\ \A q \in Pids : proc'[q].req = proc[q].req
         /\ \A q \in Pids \ {p} : proc'[q] = proc[q]
<1>1. \E from \in ProcState \ {"none"}, to \in ProcState : \E left :
        SetProcess(p, from, to, left)
  BY DEF ChildProgress, ChildDies, ChildBegin, ChildFinish, ChildAsksRetry, ChildReschedules,
         ChildPostpones, ChildExit, ChildStep, ProcState
<1> QED
  BY <1>1 DEF SetProcess, TypeOK, Process

LEMMA NextKnown ==
  ASSUME TypeOK, ProcessesKnown, Next
  PROVE  ProcessesKnown'
<1>0. proc \in [Pids -> Process] /\ pids \subseteq Pids
  BY DEF TypeOK
<1>1. ASSUME NEW r \in Ids, NewRequest(r) PROVE ProcessesKnown'
  BY <1>0, <1>1, KilledKeeps DEF NewRequest, ProcessesKnown, passVars
<1>13. ASSUME NEW r \in Ids, NEW denied \in BOOLEAN, ValidateRequest(r, denied)
       PROVE  ProcessesKnown'
  BY <1>13 DEF ValidateRequest, ProcessesKnown, passVars
<1>2. ASSUME NEW r \in Ids, TimePasses(r) PROVE ProcessesKnown'
  BY <1>2 DEF TimePasses, ProcessesKnown, passVars
<1>3. CASE Housekeeping \/ ReapBeforeFork
  <2>1. WaitPids
    BY <1>3 DEF Housekeeping, ReapBeforeFork
  <2>2. /\ \A p \in Pids : proc'[p].state # "none" => p \in pids'
        /\ \A p \in pids' : proc'[p].req \in Ids
    BY <2>1, WaitPidsKeeps DEF ProcessesKnown
  <2> QED
    BY <1>3, <2>2 DEF Housekeeping, ReapBeforeFork, ProcessesKnown, passVars
<1>4. CASE KillStaleProcess \/ KillDeadProcess \/ TimeoutRequests
  <2>1. \E victims : proc' = Killed(victims)
    BY <1>4 DEF KillStaleProcess, KillDeadProcess, TimeoutRequests, StopSome
  <2>2. pids' = pids /\ master' \notin {"mark", "reap", "fork"}
    BY <1>4 DEF KillStaleProcess, KillDeadProcess, TimeoutRequests
  <2> QED
    BY <1>0, <2>1, <2>2, KilledKeeps DEF ProcessesKnown
<1>5. ASSUME NEW r \in Ids, SelectStep(r) PROVE ProcessesKnown'
  BY <1>5 DEF SelectStep, PingBackend, FailRequest, SelectRequest, SkipRequest, ProcessesKnown
<1>6. CASE FetchRequests \/ EndSelect \/ EndPass \/ \E r \in Ids : CheckRequest(r)
  BY <1>6 DEF FetchRequests, EndSelect, EndPass, CheckRequest, ProcessesKnown, passVars
<1>7. CASE MarkWorking
  BY <1>0, <1>7, KilledKeeps DEF MarkWorking, ProcessesKnown, passVars
<1>8. CASE WaitForOthers
  BY <1>8 DEF WaitForOthers, ProcessesKnown, passVars
<1>9. ASSUME NEW p \in Pids, Fork(p) PROVE ProcessesKnown'
  BY <1>0, <1>9 DEF Fork, ProcessesKnown, passVars
<1>10. ASSUME NEW p \in Pids, ChildProgress(p) \/ ChildDies(p) PROVE ProcessesKnown'
  BY <1>0, <1>10, ChildKeeps DEF ProcessesKnown, passVars
<1>11. CASE Crash
  BY <1>11 DEF Crash, ProcessesKnown, NoProcess
<1>12. CASE Restart
  BY <1>12 DEF Restart, ProcessesKnown, passVars
<1> QED
  BY <1>1, <1>2, <1>3, <1>4, <1>5, <1>6, <1>7, <1>8, <1>9, <1>10, <1>11, <1>12, <1>13
  DEF Next, MasterStep

\* A step after which no other row is working and the master still has its pids keeps
\* the working rows tracked.
LEMMA StillTracked ==
  ASSUME WorkingIsTracked,
         \A r \in Ids : requests'[r].status = "working" => requests[r].status = "working",
         master' # "down" => master # "down",
         master \in {"reap", "fork"} => current' = current /\ master' = master,
         pids' = pids,
         \A p \in pids : proc'[p].req = proc[p].req
  PROVE  WorkingIsTracked'
BY DEF WorkingIsTracked

LEMMA NextTracked ==
  ASSUME TypeOK, ProcessesKnown, WorkingIsTracked, Next
  PROVE  WorkingIsTracked'
<1>0. requests \in [Ids -> Row] /\ proc \in [Pids -> Process] /\ pids \subseteq Pids
  BY DEF TypeOK
<1>13. ASSUME NEW r \in Ids, NEW denied \in BOOLEAN, ValidateRequest(r, denied)
       PROVE  WorkingIsTracked'
  <2>1. \A o \in Ids : requests'[o].status = "working" => requests[o].status = "working"
    BY <1>0, <1>13 DEF ValidateRequest, Validated, Row
  <2> QED
    BY <1>13, <2>1, StillTracked DEF ValidateRequest, passVars
<1>1. ASSUME NEW r \in Ids, NewRequest(r) PROVE WorkingIsTracked'
  <2>1. \A o \in Ids : requests'[o].status = "working" => requests[o].status = "working"
    BY <1>0, <1>1 DEF NewRequest, NewRow, Row
  <2>2. \A p \in pids : proc'[p].req = proc[p].req
    BY <1>0, <1>1, KilledKeeps DEF NewRequest
  <2> QED
    BY <1>1, <2>1, <2>2, StillTracked DEF NewRequest, passVars
<1>2. ASSUME NEW r \in Ids, TimePasses(r) PROVE WorkingIsTracked'
  <2>1. \A o \in Ids : requests'[o].status = "working" => requests[o].status = "working"
    BY <1>0, <1>2 DEF TimePasses, Row
  <2> QED
    BY <1>2, <2>1, StillTracked DEF TimePasses, passVars
<1>3. CASE Housekeeping \/ ReapBeforeFork
  <2>1. WaitPids
    BY <1>3 DEF Housekeeping, ReapBeforeFork
  <2>2. ASSUME NEW r \in Ids, requests'[r].status = "working",
               ~ (current' = r /\ master' \in {"reap", "fork"})
        PROVE  \E p \in pids' : proc'[p].req = r
    <3>1. requests[r].status = "working" /\ \A p \in GonePids : proc[p].req # r
      BY <1>0, <2>1, <2>2 DEF WaitPids, Row
    <3>2. PICK p \in pids : proc[p].req = r
      BY <1>3, <2>2, <3>1 DEF WorkingIsTracked, Housekeeping, ReapBeforeFork, passVars
    <3>3. p \in pids'
      BY <2>1, <3>1, <3>2, WaitPidsKeeps
    <3> QED
      BY <2>1, <3>2, <3>3, WaitPidsKeeps
  <2> QED
    BY <2>2 DEF WorkingIsTracked
<1>4. CASE KillStaleProcess \/ KillDeadProcess \/ TimeoutRequests
  <2>1. PICK victims : requests' = Stopped(victims) /\ proc' = Killed(victims)
    BY <1>4 DEF KillStaleProcess, KillDeadProcess, TimeoutRequests, StopSome
  <2>2. \A o \in Ids : requests'[o].status = "working" => requests[o].status = "working"
    BY <2>1, StoppedKeeps
  <2>3. \A p \in pids : proc'[p].req = proc[p].req
    BY <1>0, <2>1, KilledKeeps
  <2> QED
    BY <1>4, <2>2, <2>3, StillTracked DEF KillStaleProcess, KillDeadProcess, TimeoutRequests
<1>5. ASSUME NEW r \in Ids, SelectStep(r) PROVE WorkingIsTracked'
  <2>1. \A o \in Ids : requests'[o].status = "working" => requests[o].status = "working"
    BY <1>0, <1>5 DEF SelectStep, PingBackend, FailRequest, SelectRequest, SkipRequest, Row
  <2> QED
    BY <1>5, <2>1, StillTracked
    DEF SelectStep, PingBackend, FailRequest, SelectRequest, SkipRequest
<1>6. CASE FetchRequests \/ EndSelect \/ EndPass \/ \E r \in Ids : CheckRequest(r)
  BY <1>6, StillTracked DEF FetchRequests, EndSelect, EndPass, CheckRequest, passVars
<1>7. CASE MarkWorking
  <2>1. \A o \in Ids \ {current} :
          requests'[o].status = "working" => requests[o].status = "working"
    BY <1>0, <1>7, StoppedKeeps DEF MarkWorking
  <2>2. \A p \in pids : proc'[p].req = proc[p].req
    BY <1>0, <1>7, KilledKeeps DEF MarkWorking
  <2> QED
    BY <1>7, <2>1, <2>2 DEF MarkWorking, WorkingIsTracked, passVars
<1>8. CASE WaitForOthers
  <2>1. \A o \in Ids : requests'[o].status = "working" =>
          o # current /\ requests[o].status = "working"
    BY <1>0, <1>8 DEF WaitForOthers, Row
  <2> QED
    BY <1>8, <2>1 DEF WaitForOthers, WorkingIsTracked, passVars
<1>9. ASSUME NEW p \in Pids, Fork(p) PROVE WorkingIsTracked'
  <2>1. \A o \in Ids : requests'[o].status = requests[o].status
    BY <1>0, <1>9 DEF Fork, Row
  <2>2. p \notin pids /\ p \in pids' /\ proc'[p].req = current
    BY <1>0, <1>9 DEF Fork, IsFreePid
  <2>3. \A q \in pids : q \in pids' /\ proc'[q].req = proc[q].req
    BY <1>0, <1>9, <2>2 DEF Fork
  <2> QED
    BY <1>9, <2>1, <2>2, <2>3 DEF Fork, WorkingIsTracked
<1>10. ASSUME NEW p \in Pids, ChildProgress(p) \/ ChildDies(p) PROVE WorkingIsTracked'
  <2>1. /\ UNCHANGED <<pids, master, current>>
        /\ \A q \in pids : proc'[q].req = proc[q].req
        /\ p \in pids
    BY <1>0, <1>10, ChildKeeps DEF ProcessesKnown, passVars
  <2>2. \A o \in Ids \ {proc[p].req} :
          requests'[o].status = "working" => requests[o].status = "working"
    <3>1. CASE ChildBegin(p)
      BY <1>0, <3>1 DEF ChildBegin
    <3>2. ASSUME NEW failed \in BOOLEAN, ChildFinish(p, failed)
          PROVE  \A o \in Ids \ {proc[p].req} : requests'[o] = requests[o]
      BY <1>0, <3>2 DEF ChildFinish
    <3>3. CASE ChildAsksRetry(p) \/ ChildReschedules(p)
      BY <1>0, <3>3 DEF ChildAsksRetry, ChildReschedules
    <3>4. ASSUME NEW s \in Ids, ChildPostpones(p, s)
          PROVE  \A o \in Ids \ {proc[p].req} :
                   requests'[o].status = "working" => requests[o].status = "working"
      BY <1>0, <3>4 DEF ChildPostpones, NewRow
    <3>5. CASE ChildExit(p) \/ ChildDies(p)
      BY <3>5 DEF ChildExit, ChildDies
    <3> QED
      BY <1>10, <3>1, <3>2, <3>3, <3>4, <3>5 DEF ChildProgress
  <2> QED
    BY <2>1, <2>2 DEF WorkingIsTracked
<1>11. CASE Crash
  BY <1>11 DEF Crash, WorkingIsTracked
<1>12. CASE Restart
  <2>1. \A o \in Ids : requests'[o].status # "working"
    BY <1>0, <1>12 DEF Restart, Row
  <2> QED
    BY <2>1 DEF WorkingIsTracked
<1> QED
  BY <1>1, <1>2, <1>3, <1>4, <1>5, <1>6, <1>7, <1>8, <1>9, <1>10, <1>11, <1>12, <1>13
  DEF Next, MasterStep

LEMMA StutterKeeps == IInv /\ UNCHANGED vars => IInv'
BY DEF IInv, TypeOK, ProcessesKnown, WorkingIsTracked, vars

\* The strengthening is an invariant of the specification.
LEMMA Inductive == Spec => []IInv
<1>1. Init => IInv
  <2>1. Init => ProcessesKnown /\ WorkingIsTracked
    BY DEF Init, ProcessesKnown, WorkingIsTracked, NoProcess
  <2> QED
    BY <2>1, InitType DEF IInv
<1>2. IInv /\ [Next]_vars => IInv'
  BY NextType, NextKnown, NextTracked, StutterKeeps DEF IInv
<1> QED
  BY <1>1, <1>2, PTL DEF Spec

\* Every row, process and variable of the master keeps its type, whatever the requests,
\* the limits and the number of crashes.
THEOREM TypeCorrect == Spec => []TypeOK
<1>1. IInv => TypeOK
  BY DEF IInv
<1> QED
  BY <1>1, Inductive, PTL

\* No request stays working with nobody to end it: not after a crash, a kill, a lost
\* process or a retry, whatever the requests and the limits.
THEOREM WorkingTracked == Spec => []WorkingIsTracked
<1>1. IInv => WorkingIsTracked
  BY DEF IInv
<1> QED
  BY <1>1, Inductive, PTL

-----------------------------------------------------------------------------
(* No request has two processes, if the children are prompt.               *)

\* Nobody else may do anything with the request yet.
Unready(r) == requests[r].status = "absent" \/ r \in callers

\* A request with a process is in no list of the master, and its row tells the next pass
\* to leave it alone: inductive when a forked process begins before the next pass.
EachOnce ==
  /\ OneProcessPerRequest
  /\ \A p \in Pids : Executing(p) => proc[p].req \notin todo \cup selected
  /\ \A p \in Pids : Executing(p) /\ AboutToFork => proc[p].req # current
  /\ AboutToFork => current \notin selected
  /\ master # "select" => todo = {}
  /\ \A p \in Pids : proc[p].state = "running" =>
       requests[proc[p].req].status \in {"working", "done"}
  /\ \A r \in Ids : Unready(r) =>
       /\ r \notin todo \cup selected
       /\ AboutToFork => current # r
       /\ \A p \in Pids : Executing(p) => proc[p].req # r

\* A step that starts no process and adds nothing to the lists keeps EachOnce, if the
\* rows of the running requests stay working or done.
LEMMA StillOnce ==
  ASSUME EachOnce,
         \A p \in Pids : Executing(p)' => Executing(p) /\ proc'[p].req = proc[p].req,
         \A p \in Pids : proc'[p].state = "running" =>
           requests'[proc[p].req].status \in {"working", "done"},
         todo' \subseteq todo,
         selected' \subseteq selected,
         AboutToFork' => AboutToFork /\ current' = current,
         master' # "select" => master # "select",
         \A r \in Ids : Unready(r)' => Unready(r)
  PROVE  EachOnce'
BY DEF EachOnce, OneProcessPerRequest, Executing

\* A request that is inserted and validated stays so.
LEMMA ReadyStays ==
  ASSUME TypeOK, ProcessesKnown, Next
  PROVE  \A o \in Ids : Unready(o)' => Unready(o)
<1>0. requests \in [Ids -> Row] /\ proc \in [Pids -> Process]
  BY DEF TypeOK
<1> SUFFICES /\ \A o \in Ids : requests'[o].status = "absent" => requests[o].status = "absent"
             /\ \A o \in callers' : o \in callers \/ requests[o].status = "absent"
  BY DEF Unready
<1>1. ASSUME NEW r \in Ids, NewRequest(r)
      PROVE  /\ \A o \in Ids :
                  requests'[o].status = "absent" => requests[o].status = "absent"
             /\ \A o \in callers' : o \in callers \/ requests[o].status = "absent"
  BY <1>0, <1>1 DEF NewRequest, NewRow, IsNextId, Row
<1>2. ASSUME NEW r \in Ids, NEW denied \in BOOLEAN, ValidateRequest(r, denied)
      PROVE  /\ \A o \in Ids :
                  requests'[o].status = "absent" => requests[o].status = "absent"
             /\ callers' \subseteq callers
  BY <1>0, <1>2 DEF ValidateRequest, Validated, Row
<1>3. CASE \E r \in Ids : TimePasses(r)
  BY <1>0, <1>3 DEF TimePasses, Row
<1>4. CASE Housekeeping \/ ReapBeforeFork
  BY <1>0, <1>4 DEF Housekeeping, ReapBeforeFork, WaitPids, Row
<1>5. CASE KillStaleProcess \/ KillDeadProcess \/ TimeoutRequests
  <2>1. PICK victims : requests' = Stopped(victims)
    BY <1>5 DEF KillStaleProcess, KillDeadProcess, TimeoutRequests, StopSome
  <2>2. callers' = callers
    BY <1>5 DEF KillStaleProcess, KillDeadProcess, TimeoutRequests
  <2> QED
    BY <2>1, <2>2, StoppedKeeps
<1>6. CASE \E r \in Ids : PingBackend(r) \/ SelectRequest(r) \/ SkipRequest(r) \/ CheckRequest(r)
  BY <1>0, <1>6 DEF PingBackend, SelectRequest, SkipRequest, CheckRequest, Row
<1>7. ASSUME NEW r \in Ids, FailRequest(r)
      PROVE  /\ \A o \in Ids :
                  requests'[o].status = "absent" => requests[o].status = "absent"
             /\ callers' = callers
  <2>1. \A o \in Ids \ {r} : requests'[o] = requests[o]
    BY <1>0, <1>7 DEF FailRequest
  <2>2. requests'[r].status = "done" /\ callers' = callers
    BY <1>0, <1>7 DEF FailRequest, Row
  <2> QED
    BY <2>1, <2>2
<1>8. CASE FetchRequests \/ EndSelect \/ EndPass \/ Crash
  BY <1>8 DEF FetchRequests, EndSelect, EndPass, Crash
<1>9. CASE MarkWorking
  <2>1. \A o \in Ids \ {current} : requests'[o].status \in {"done", requests[o].status}
    BY <1>0, <1>9, StoppedKeeps DEF MarkWorking
  <2>2. current \in Ids
    BY <1>9 DEF MarkWorking, ProcessesKnown
  <2>3. requests'[current].status # "absent"
    BY <1>0, <1>9, <2>2, StopType DEF MarkWorking, Row
  <2> QED
    BY <1>9, <2>1, <2>3 DEF MarkWorking
<1>10. CASE WaitForOthers
  <2>1. \A o \in Ids \ {current} : requests'[o] = requests[o]
    BY <1>0, <1>10 DEF WaitForOthers
  <2>2. current \in Ids /\ callers' = callers
    BY <1>10 DEF WaitForOthers, ProcessesKnown
  <2>3. requests'[current].status = "waiting"
    BY <1>0, <1>10, <2>2 DEF WaitForOthers, Row
  <2> QED
    BY <2>1, <2>2, <2>3
<1>13. ASSUME NEW p \in Pids, Fork(p)
       PROVE  /\ \A o \in Ids :
                   requests'[o].status = "absent" => requests[o].status = "absent"
              /\ callers' = callers
  <2>1. \A o \in Ids : requests'[o].status = requests[o].status
    BY <1>0, <1>13 DEF Fork, Row
  <2> QED
    BY <1>13, <2>1 DEF Fork
<1>11. ASSUME NEW p \in Pids, ChildProgress(p) \/ ChildDies(p)
       PROVE  /\ \A o \in Ids :
                   requests'[o].status = "absent" => requests[o].status = "absent"
              /\ callers' = callers
  <2> DEFINE r == proc[p].req
  <2>1. callers' = callers /\ r \in Ids /\ requests[r] \in Row
    BY <1>0, <1>11, ChildKeeps DEF ProcessesKnown
  <2>2. CASE ChildExit(p) \/ ChildDies(p)
    BY <2>1, <2>2 DEF ChildExit, ChildDies
  <2>3. CASE ~ (ChildExit(p) \/ ChildDies(p)) /\ ~ \E s \in Ids : ChildPostpones(p, s)
    <3>1. \A o \in Ids \ {r} : requests'[o] = requests[o]
      BY <1>0, <1>11, <2>1, <2>3
      DEF ChildProgress, ChildBegin, ChildFinish, ChildAsksRetry, ChildReschedules
    <3>2. CASE ChildBegin(p)
      BY <1>0, <2>1, <3>1, <3>2 DEF ChildBegin, Row
    <3>3. CASE ChildAsksRetry(p)
      BY <1>0, <2>1, <3>1, <3>3 DEF ChildAsksRetry, Row
    <3>4. CASE ChildReschedules(p)
      <4>1. requests'[r].status = requests[r].status
        BY <1>0, <2>1, <3>4 DEF ChildReschedules, Row
      <4> QED
        BY <2>1, <3>1, <4>1
    <3>5. CASE \E failed \in BOOLEAN : ChildFinish(p, failed)
      <4>1. requests'[r].status \in {"retry", "done"}
        BY <1>0, <2>1, <3>5 DEF ChildFinish, Finished, Row
      <4> QED
        BY <2>1, <3>1, <4>1
    <3> QED
      BY <1>11, <2>3, <3>2, <3>3, <3>4, <3>5 DEF ChildProgress
  <2>4. ASSUME NEW s \in Ids, ChildPostpones(p, s)
        PROVE  \A o \in Ids :
                 requests'[o].status = "absent" => requests[o].status = "absent"
    <3>1. \A o \in Ids \ {r, s} : requests'[o] = requests[o]
      BY <1>0, <2>1, <2>4 DEF ChildPostpones
    <3>2. requests[s].status = "absent"
      BY <2>4 DEF ChildPostpones, IsNextId
    <3>3. r # s => requests'[r].status \in {"retry", "done"}
      BY <1>0, <2>1, <2>4 DEF ChildPostpones, Postponed, Row
    <3> QED
      BY <3>1, <3>2, <3>3
  <2> QED
    BY <1>11, <2>1, <2>2, <2>3, <2>4
<1>12. CASE Restart
  BY <1>0, <1>12 DEF Restart, Row
<1> QED
  BY <1>1, <1>2, <1>3, <1>4, <1>5, <1>6, <1>7, <1>8, <1>9, <1>10, <1>11, <1>12, <1>13
  DEF Next, MasterStep, SelectStep

LEMMA OnceSelect ==
  ASSUME TypeOK, ProcessesKnown, EachOnce, NEW r \in Ids, SelectStep(r),
         \A o \in Ids : Unready(o)' => Unready(o)
  PROVE  EachOnce'
<1>0. requests \in [Ids -> Row] /\ proc' = proc /\ master' = "select" /\ master = "select"
  BY DEF TypeOK, SelectStep, PingBackend, FailRequest, SelectRequest, SkipRequest
<1>1. \A p \in Pids : Executing(p)' <=> Executing(p)
  BY <1>0 DEF Executing
<1>2. r \in todo /\ todo' \subseteq todo \ {r} /\ selected' \subseteq selected \cup {r}
  BY DEF SelectStep, PingBackend, FailRequest, SelectRequest, SkipRequest, IsOldest
<1>3. \A o \in Ids : requests'[o].status \in {"done", requests[o].status}
  <2>1. CASE PingBackend(r)
    BY <1>0, <2>1 DEF PingBackend, Row
  <2>2. CASE FailRequest(r)
    <3>1. \A o \in Ids \ {r} : requests'[o] = requests[o]
      BY <1>0, <2>2 DEF FailRequest
    <3>2. requests'[r].status = "done"
      BY <1>0, <2>2 DEF FailRequest, Row
    <3> QED
      BY <3>1, <3>2
  <2>3. CASE SelectRequest(r) \/ SkipRequest(r)
    BY <2>3 DEF SelectRequest, SkipRequest
  <2> QED
    BY <2>1, <2>2, <2>3 DEF SelectStep
<1>4. \A p \in Pids : proc[p].state = "running" => proc[p].req \in Ids
  BY DEF ProcessesKnown
<1> QED
  BY <1>0, <1>1, <1>2, <1>3, <1>4 DEF EachOnce, OneProcessPerRequest, AboutToFork

LEMMA OncePass ==
  ASSUME TypeOK, ProcessesKnown, EachOnce, PromptChildren, PromptCallers,
         \A o \in Ids : Unready(o)' => Unready(o),
         FetchRequests \/ EndSelect \/ EndPass \/ \E r \in Ids : CheckRequest(r)
  PROVE  EachOnce'
<1>0. requests' = requests /\ proc' = proc
  BY DEF FetchRequests, EndSelect, EndPass, CheckRequest
<1>1. \A p \in Pids : Executing(p)' <=> Executing(p)
  BY <1>0 DEF Executing
<1>2. CASE FetchRequests
  BY <1>0, <1>1, <1>2
  DEF FetchRequests, EachOnce, OneProcessPerRequest, Executing, AboutToFork, Unready
<1>3. CASE EndSelect
  BY <1>0, <1>1, <1>3 DEF EndSelect, EachOnce, OneProcessPerRequest, AboutToFork, passVars
<1>4. CASE EndPass
  BY <1>0, <1>1, <1>4 DEF EndPass, EachOnce, OneProcessPerRequest, AboutToFork
<1>5. ASSUME NEW r \in Ids, CheckRequest(r) PROVE EachOnce'
  BY <1>0, <1>1, <1>5
  DEF CheckRequest, ComesFirst, EachOnce, OneProcessPerRequest, AboutToFork
<1> QED
  BY <1>2, <1>3, <1>4, <1>5

LEMMA OnceExecute ==
  ASSUME TypeOK, ProcessesKnown, EachOnce,
         \A o \in Ids : Unready(o)' => Unready(o),
         MarkWorking \/ WaitForOthers \/ \E p \in Pids : Fork(p)
  PROVE  EachOnce'
<1>0. /\ requests \in [Ids -> Row] /\ proc \in [Pids -> Process]
      /\ current \in Ids /\ AboutToFork /\ todo = {}
  BY DEF TypeOK, ProcessesKnown, EachOnce, AboutToFork, MarkWorking, WaitForOthers, Fork
<1>1. \A p \in Pids : proc[p].state = "running" => proc[p].req \in Ids \ {current}
  BY <1>0 DEF ProcessesKnown, EachOnce, Executing
<1>2. CASE MarkWorking
  <2>1. \A p \in Pids : Executing(p)' =>
          /\ Executing(p) /\ proc'[p].req = proc[p].req
          /\ proc'[p].state = proc[p].state
    BY <1>2, KilledKeeps DEF MarkWorking, Executing
  <2>2. \A o \in Ids \ {current} : requests'[o].status \in {"done", requests[o].status}
    BY <1>0, <1>2, StoppedKeeps DEF MarkWorking
  <2>3. \A p \in Pids : proc'[p].state = "running" => proc[p].state = "running"
    BY <2>1 DEF Executing
  <2>4. \A p \in Pids : proc'[p].state = "running" =>
          requests'[proc[p].req].status \in {"working", "done"}
    BY <1>1, <2>2, <2>3 DEF EachOnce
  <2> QED
    BY <1>0, <1>2, <2>1, <2>4, StillOnce DEF MarkWorking, AboutToFork, passVars
<1>3. CASE WaitForOthers
  <2>1. \A o \in Ids \ {current} : requests'[o] = requests[o]
    BY <1>0, <1>3 DEF WaitForOthers
  <2>2. \A p \in Pids : proc'[p].state = "running" =>
          requests'[proc[p].req].status \in {"working", "done"}
    BY <1>1, <1>3, <2>1 DEF WaitForOthers, EachOnce
  <2> QED
    BY <1>0, <1>3, <2>2, StillOnce DEF WaitForOthers, AboutToFork, passVars, Executing
<1>4. ASSUME NEW p \in Pids, Fork(p) PROVE EachOnce'
  <2>1. \A o \in Ids : requests'[o].status = requests[o].status
    BY <1>0, <1>4 DEF Fork, Row
  <2>2. proc'[p].state = "forked" /\ proc'[p].req = current
    BY <1>0, <1>4 DEF Fork
  <2>3. \A q \in Pids \ {p} : proc'[q] = proc[q]
    BY <1>0, <1>4 DEF Fork
  <2>4. current \notin selected /\ \A q \in Pids : Executing(q) => proc[q].req # current
    BY <1>0 DEF EachOnce
  <2>5. UNCHANGED passVars /\ master' = "check"
    BY <1>4 DEF Fork
  <2>6. OneProcessPerRequest'
    BY <2>2, <2>3, <2>4 DEF EachOnce, OneProcessPerRequest, Executing
  <2>7. \A q \in Pids : Executing(q)' => (proc[q].req)' \notin (todo \cup selected)'
    BY <1>0, <2>2, <2>3, <2>4, <2>5 DEF EachOnce, Executing, passVars
  <2>8. \A q \in Pids : proc'[q].state = "running" =>
          requests'[proc'[q].req].status \in {"working", "done"}
    BY <1>1, <2>1, <2>2, <2>3 DEF EachOnce
  <2> QED
    BY <1>0, <2>2, <2>3, <2>5, <2>6, <2>7, <2>8
    DEF EachOnce, AboutToFork, passVars, Executing
<1> QED
  BY <1>2, <1>3, <1>4

LEMMA OnceChild ==
  ASSUME TypeOK, ProcessesKnown, EachOnce, NEW p \in Pids, ChildProgress(p) \/ ChildDies(p),
         \A o \in Ids : Unready(o)' => Unready(o)
  PROVE  EachOnce'
<1> DEFINE r == proc[p].req
<1>0. /\ requests \in [Ids -> Row] /\ proc \in [Pids -> Process]
      /\ UNCHANGED <<master, passVars>>
      /\ r \in Ids
      /\ \A q \in Pids : proc'[q].req = proc[q].req
      /\ \A q \in Pids \ {p} : proc'[q] = proc[q]
  BY ChildKeeps DEF TypeOK, ProcessesKnown
<1>1. \A q \in Pids \ {p} : proc'[q].state = "running" =>
        /\ proc[q].state = "running"
        /\ proc[q].req \in Ids
        /\ Executing(p) => proc[q].req # r
        /\ requests[proc[q].req].status \in {"working", "done"}
  BY <1>0 DEF EachOnce, OneProcessPerRequest, Executing, ProcessesKnown
<1> SUFFICES /\ Executing(p)' => Executing(p)
             /\ proc'[p].state = "running" => requests'[r].status \in {"working", "done"}
             /\ \A q \in Pids \ {p} : proc'[q].state = "running" =>
                  requests'[proc[q].req].status \in {"working", "done"}
  BY <1>0, StillOnce DEF Executing, AboutToFork, passVars
<1>2. CASE ChildBegin(p)
  <2>1. proc[p].state = "forked" /\ \A o \in Ids \ {r} : requests'[o] = requests[o]
    BY <1>0, <1>2 DEF ChildBegin, ChildStep, SetProcess
  <2>2. requests'[r].status = "working"
    BY <1>0, <1>2 DEF ChildBegin, Row
  <2> QED
    BY <1>1, <2>1, <2>2 DEF Executing
<1>3. CASE (\E failed \in BOOLEAN : ChildFinish(p, failed)) \/ ChildAsksRetry(p)
  <2>1. proc[p].state = "running" /\ \A o \in Ids \ {r} : requests'[o] = requests[o]
    BY <1>0, <1>3 DEF ChildFinish, ChildAsksRetry, ChildStep, SetProcess
  <2>2. proc'[p].state \in {"ending", "retrying"}
    BY <1>0, <1>3 DEF ChildFinish, ChildAsksRetry, ChildStep, SetProcess, Process
  <2> QED
    BY <1>1, <2>1, <2>2 DEF Executing
<1>4. CASE ChildReschedules(p) \/ ChildExit(p) \/ ChildDies(p)
  <2>1. \A o \in Ids : requests'[o].status = requests[o].status
    <3>1. CASE ChildReschedules(p)
      <4>1. \A o \in Ids \ {r} : requests'[o] = requests[o]
        BY <1>0, <3>1 DEF ChildReschedules
      <4>2. requests'[r].status = requests[r].status
        BY <1>0, <3>1 DEF ChildReschedules, Row
      <4> QED
        BY <4>1, <4>2
    <3>2. CASE ChildExit(p) \/ ChildDies(p)
      BY <3>2 DEF ChildExit, ChildDies
    <3> QED
      BY <1>4, <3>1, <3>2
  <2>2. proc'[p].state \in {"ending", "zombie"}
    BY <1>0, <1>4
    DEF ChildReschedules, ChildExit, ChildDies, ChildStep, SetProcess, Process
  <2> QED
    BY <1>1, <2>1, <2>2 DEF Executing
<1>5. ASSUME NEW s \in Ids, ChildPostpones(p, s)
      PROVE  /\ Executing(p)' => Executing(p)
             /\ proc'[p].state = "running" => requests'[r].status \in {"working", "done"}
             /\ \A q \in Pids \ {p} : proc'[q].state = "running" =>
                  requests'[proc[q].req].status \in {"working", "done"}
  <2>1. /\ proc[p].state = "running" /\ requests[s].status = "absent"
        /\ \A o \in Ids \ {r, s} : requests'[o] = requests[o]
    BY <1>0, <1>5 DEF ChildPostpones, ChildStep, SetProcess, IsNextId
  <2>2. proc'[p].state = "ending"
    BY <1>0, <1>5 DEF ChildPostpones, ChildStep, SetProcess, Process
  <2> QED
    BY <1>1, <2>1, <2>2 DEF Executing
<1> QED
  BY <1>2, <1>3, <1>4, <1>5 DEF ChildProgress

LEMMA NextOnce ==
  ASSUME TypeOK, ProcessesKnown, EachOnce, PromptChildren, PromptCallers, Next
  PROVE  EachOnce'
<1> USE ReadyStays
<1>0. /\ requests \in [Ids -> Row] /\ proc \in [Pids -> Process]
      /\ \A p \in Pids : proc[p].state = "running" =>
           /\ proc[p].req \in Ids
           /\ requests[proc[p].req].status \in {"working", "done"}
  BY DEF TypeOK, ProcessesKnown, EachOnce
<1>11. ASSUME NEW r \in Ids, NEW denied \in BOOLEAN, ValidateRequest(r, denied)
       PROVE  EachOnce'
  <2>1. \A p \in Pids : proc[p].state = "running" => proc[p].req # r
    BY <1>11 DEF ValidateRequest, EachOnce, Executing, Unready
  <2>2. \A o \in Ids \ {r} : requests'[o].status = requests[o].status
    BY <1>0, <1>11 DEF ValidateRequest, Row
  <2>3. \A p \in Pids : proc'[p].state = "running" =>
          requests'[proc[p].req].status \in {"working", "done"}
    BY <1>0, <1>11, <2>1, <2>2 DEF ValidateRequest
  <2> QED
    BY <1>11, <2>3, StillOnce DEF ValidateRequest, AboutToFork, passVars, Executing
<1>1. ASSUME NEW r \in Ids, NewRequest(r) PROVE EachOnce'
  <2>1. \A p \in Pids : Executing(p)' =>
          /\ Executing(p) /\ proc'[p].req = proc[p].req
          /\ proc'[p].state = proc[p].state
    BY <1>1, KilledKeeps DEF NewRequest, Executing
  <2>2. requests[r].status = "absent"
    BY <1>1 DEF NewRequest, IsNextId
  <2>3. \A o \in Ids \ {r} : requests'[o].status \in {"done", requests[o].status}
    BY <1>0, <1>1 DEF NewRequest, Row
  <2>4. \A p \in Pids : proc'[p].state = "running" => proc[p].state = "running"
    BY <2>1 DEF Executing
  <2>5. \A p \in Pids : proc'[p].state = "running" =>
          requests'[proc[p].req].status \in {"working", "done"}
    BY <1>0, <2>2, <2>3, <2>4
  <2> QED
    BY <1>1, <2>1, <2>5, StillOnce DEF NewRequest, AboutToFork, passVars
<1>2. ASSUME NEW r \in Ids, TimePasses(r) PROVE EachOnce'
  <2>1. \A o \in Ids : requests'[o].status = requests[o].status
    BY <1>0, <1>2 DEF TimePasses, Row
  <2> QED
    BY <1>0, <1>2, <2>1, StillOnce DEF TimePasses, AboutToFork, passVars, Executing
<1>3. CASE Housekeeping \/ ReapBeforeFork
  <2>1. WaitPids
    BY <1>3 DEF Housekeeping, ReapBeforeFork
  <2>2. \A p \in Pids : proc'[p].state # "none" => proc'[p] = proc[p]
    BY <2>1, WaitPidsKeeps
  <2>3. \A o \in Ids : requests'[o].status \in {"done", requests[o].status}
    BY <1>0, <2>1 DEF WaitPids, Row
  <2>4. \A p \in Pids : proc'[p].state = "running" =>
          requests'[proc[p].req].status \in {"working", "done"}
    BY <1>0, <2>2, <2>3
  <2> QED
    BY <1>3, <2>2, <2>4, StillOnce
    DEF Housekeeping, ReapBeforeFork, AboutToFork, passVars, Executing
<1>4. CASE KillStaleProcess \/ KillDeadProcess \/ TimeoutRequests
  <2>1. PICK victims : requests' = Stopped(victims) /\ proc' = Killed(victims)
    BY <1>4 DEF KillStaleProcess, KillDeadProcess, TimeoutRequests, StopSome
  <2>2. \A p \in Pids : Executing(p)' =>
          /\ Executing(p) /\ proc'[p].req = proc[p].req
          /\ proc'[p].state = proc[p].state
    BY <2>1, KilledKeeps DEF Executing
  <2>3. \A p \in Pids : proc'[p].state = "running" => proc[p].state = "running"
    BY <2>2 DEF Executing
  <2>4. \A p \in Pids : proc'[p].state = "running" =>
          requests'[proc[p].req].status \in {"working", "done"}
    BY <1>0, <2>1, <2>3, StoppedKeeps
  <2> QED
    BY <1>4, <2>2, <2>4, StillOnce
    DEF KillStaleProcess, KillDeadProcess, TimeoutRequests, AboutToFork, passVars
<1>5. ASSUME NEW r \in Ids, SelectStep(r) PROVE EachOnce'
  BY <1>5, OnceSelect
<1>6. CASE FetchRequests \/ EndSelect \/ EndPass \/ \E r \in Ids : CheckRequest(r)
  BY <1>6, OncePass
<1>7. CASE MarkWorking \/ WaitForOthers \/ \E p \in Pids : Fork(p)
  BY <1>7, OnceExecute
<1>8. ASSUME NEW p \in Pids, ChildProgress(p) \/ ChildDies(p) PROVE EachOnce'
  BY <1>8, OnceChild
<1>9. CASE Crash
  BY <1>9 DEF Crash, EachOnce, OneProcessPerRequest, Executing, AboutToFork, NoProcess
<1>10. CASE Restart
  <2>1. \A o \in Ids : requests[o].status \in {"working", "done"} =>
          requests'[o].status = "done"
    BY <1>0, <1>10 DEF Restart, Row
  <2> QED
    BY <1>0, <1>10, <2>1, StillOnce DEF Restart, AboutToFork, passVars, Executing
<1> QED
  BY <1>1, <1>2, <1>3, <1>4, <1>5, <1>6, <1>7, <1>8, <1>9, <1>10, <1>11 DEF Next, MasterStep

\* With prompt children and callers EachOnce is an invariant.
LEMMA OnceInductive == PromptChildren /\ PromptCallers /\ Spec => []EachOnce
<1> SUFFICES ASSUME PromptChildren, PromptCallers PROVE Spec => []EachOnce
  OBVIOUS
<1>1. Init => EachOnce
  BY DEF Init, EachOnce, OneProcessPerRequest, Executing, AboutToFork, NoProcess, Unready
<1>2. EachOnce /\ IInv /\ [Next]_vars => EachOnce'
  <2>1. EachOnce /\ IInv /\ Next => EachOnce'
    BY NextOnce DEF IInv
  <2>2. EachOnce /\ UNCHANGED vars => EachOnce'
    BY DEF EachOnce, OneProcessPerRequest, Executing, AboutToFork, Unready, vars
  <2> QED
    BY <2>1, <2>2
<1> QED
  BY <1>1, <1>2, Inductive, PTL DEF Spec

\* Although a pass may fetch a request that the pass before has forked for, no request has
\* two processes at once, whatever is retried, postponed, killed or restarted, as long as
\* the pause between two passes is enough for the forked processes to begin.
THEOREM NoDoubleExecution ==
  PromptChildren /\ PromptCallers /\ Spec => []OneProcessPerRequest
<1>1. EachOnce => OneProcessPerRequest
  BY DEF EachOnce
<1> QED
  BY <1>1, OnceInductive, PTL

=============================================================================
