------------------------ MODULE HardwareOrder_proofs ------------------------
(***************************************************************************)
(* The hardware changes of a domain are made in the order in which they    *)
(* were asked for: what that rests on, now that _search_request answers    *)
(* with the last request of one second and not with the last request.      *)
(***************************************************************************)
EXTENDS JobQueue_proofs

\* A request that waits in line with others that change its domain.
Changes(r) == Command(r) \in Hardware \cup {"move_volume"} /\ Args[r].id_domain # NoDomain

\* No caller says what a change comes after, and the changes of a domain are asked for in
\* one second: a search then finds the last of them.
OneSecond ==
  /\ \A r \in Ids : Changes(r) => Args[r].after_request = NoRequest
  /\ \A a, b \in Ids : InLine(a, b) => Args[a].date_req = Args[b].date_req

\* The start of a machine takes a change out of the line.
Cancels == \E r \in Ids : NewRequest(r) /\ \E o \in RemovedByStart(r) : Changes(o)

-----------------------------------------------------------------------------
(* What a search finds in one second.                                      *)

LEMMA SearchLast ==
  ASSUME NEW r \in Ids, NEW commands, NEW a \in Found(r, commands),
         \A o, q \in Found(r, commands) : Args[o].date_req = Args[q].date_req
  PROVE  /\ SearchRequest(r, commands) \in Found(r, commands)
         /\ a <= SearchRequest(r, commands)
<1> DEFINE found == Found(r, commands)
           first == {o \in found : \A q \in found : Args[o].date_req <= Args[q].date_req}
<1>1. found \subseteq Ids /\ found # {}
  BY DEF Found
<1>2. \A o \in found : Args[o].date_req \in Nat
  BY <1>1, ArgsAssumption DEF ArgRecord
<1>3. first = found
  BY <1>2
<1>4. \E o \in found : \A q \in found : q <= o
  BY <1>1, GreatestNat, SizeAssumption DEF Ids
<1>5. SearchRequest(r, commands) = CHOOSE o \in found : \A q \in found : q <= o
  BY <1>1, <1>3 DEF SearchRequest
<1> QED
  BY <1>4, <1>5

LEMMA LineIsTransitive ==
  ASSUME NEW a \in Ids, NEW b \in Ids, NEW c \in Ids, InLine(a, c), InLine(b, c), a # b
  PROVE  InLine(a, b) \/ InLine(b, a)
BY DEF InLine, Ids

\* The last change that is pending: validation makes the next one come after it.
LEMMA ValidatedLast ==
  ASSUME TypeOK, NEW b \in Ids, Changes(b), OneSecond,
         requests[b].after_request = NoRequest,
         \A o \in Ids : Changes(o) /\ b < o => requests[o].status = "absent"
  PROVE  /\ ValidatedAfter(b) # NoRequest =>
              ValidatedAfter(b) \in Ids /\ InLine(ValidatedAfter(b), b)
         /\ \A a \in Ids : InLine(a, b) /\ Pending(a) => a <= ValidatedAfter(b)
<1> DEFINE hardware == SearchRequest(b, Hardware)
           move == SearchRequest(b, {"move_volume"})
<1>1. ValidatedAfter(b) = Later(hardware, move)
  BY DEF ValidatedAfter, Changes, Hardware
<1>2. \A o \in Found(b, Hardware) \cup Found(b, {"move_volume"}) : InLine(o, b)
  BY DEF Found, InLine, Changes, Pending, Ids
<1>3. \A a \in Ids : InLine(a, b) /\ Pending(a) =>
        a \in Found(b, Hardware) \cup Found(b, {"move_volume"})
  BY DEF Found, InLine, Ids
<1>4. \A o, q \in Found(b, Hardware) \cup Found(b, {"move_volume"}) :
        o \in Ids /\ q \in Ids /\ Args[o].date_req = Args[q].date_req
  BY <1>2 DEF OneSecond, Found
<1>5. \A a \in Found(b, Hardware) : hardware \in Found(b, Hardware) /\ a <= hardware
  BY <1>4, SearchLast
<1>6. \A a \in Found(b, {"move_volume"}) : move \in Found(b, {"move_volume"}) /\ a <= move
  BY <1>4, SearchLast
<1>7. /\ Found(b, Hardware) = {} => hardware = NoRequest
      /\ Found(b, {"move_volume"}) = {} => move = NoRequest
  BY DEF SearchRequest
<1>8. /\ hardware = NoRequest \/ (hardware \in Ids /\ InLine(hardware, b))
      /\ move = NoRequest \/ (move \in Ids /\ InLine(move, b))
  BY <1>2, <1>4, <1>5, <1>6, <1>7
<1>9. hardware \in Nat /\ move \in Nat
  BY <1>8 DEF Ids, NoRequest
<1>10. \A a \in Ids : InLine(a, b) /\ Pending(a) => a <= hardware \/ a <= move
  BY <1>3, <1>5, <1>6
<1> QED
  BY <1>1, <1>8, <1>9, <1>10 DEF Later, Ids

-----------------------------------------------------------------------------
(* The line.                                                               *)

\* Every change comes after the last one before it that is not over, and when one starts or
\* ends all those before it are over.
Lined ==
  /\ \A a, b \in Ids : a < b /\ requests[b].status # "absent" => requests[a].status # "absent"
  /\ \A b \in Ids : Changes(b) =>
       /\ requests[b].status \notin {"deleted", "retry"}
       /\ b \in callers => /\ requests[b].status = "requested"
                           /\ requests[b].after_request = NoRequest
                           /\ \A o \in Ids : Changes(o) /\ b < o => requests[o].status = "absent"
       /\ ~ Unready(b) =>
            /\ requests[b].after_request # NoRequest => InLine(requests[b].after_request, b)
            /\ \A a \in Ids : InLine(a, b) => JobOf(a) = "over" \/ a <= requests[b].after_request
       /\ JobOf(b) \in {"running", "over"} \/ requests[b].status = "waiting" =>
            \A a \in Ids : InLine(a, b) => JobOf(a) = "over"

\* When what a change comes after is over, so is all that is before it in the line.
LEMMA LineIsOver ==
  ASSUME TypeOK, Lined, NEW b \in Ids, Changes(b), ~ Unready(b),
         \A d \in DepOf(b) : JobOf(d) = "over",
         NEW a \in Ids, InLine(a, b)
  PROVE  JobOf(a) = "over"
<1> DEFINE c == requests[b].after_request
<1>1. JobOf(a) = "over" \/ a <= c
  BY DEF Lined
<1>2. CASE JobOf(a) # "over"
  <2>1. a <= c /\ a \in Nat \ {0} /\ c \in Ids \cup {NoRequest}
    BY <1>1, <1>2 DEF TypeOK, Row, Ids
  <2>2. c \in Ids /\ c # NoRequest
    BY <2>1 DEF NoRequest
  <2>3. JobOf(c) = "over" /\ InLine(c, b)
    BY <2>2 DEF DepOf, Lined
  <2>4. InLine(a, c)
    BY <1>2, <2>1, <2>2, <2>3, LineIsTransitive DEF InLine, Ids
  <2> QED
    BY <2>2, <2>3, <2>4 DEF Lined, InLine, Changes
<1> QED
  BY <1>2

\* Nobody ends a change that has not started, but for the start of its machine.
LEMMA EndsInLine ==
  ASSUME TypeOK, ProcessesKnown, EachOnce, Ordered, Next, ~ Cancels,
         NEW b \in Ids, Changes(b), requests'[b].status = "done"
  PROVE  requests[b].status \in {"done", "working", "waiting", "retry"} \/ IsExecuted(b)
<1>0. requests \in [Ids -> Row]
  BY DEF TypeOK
<1>1. CASE requests'[b] = requests[b]
  BY <1>1
<1>2. CASE \E q \in Ids : NewRequest(q) \/ \E denied \in BOOLEAN : ValidateRequest(q, denied)
  <2>1. PICK q \in Ids : NewRequest(q) \/ \E denied \in BOOLEAN : ValidateRequest(q, denied)
    BY <1>2
  <2>2. CASE NewRequest(q)
    BY <1>0, <2>2 DEF NewRequest, NewRow, Cancels
  <2>3. ASSUME NEW denied \in BOOLEAN, ValidateRequest(q, denied)
        PROVE  requests[b].status = "done"
    <3>1. CASE b = q
      <4>1. ~ denied
        BY <2>3, <3>1 DEF ValidateRequest, Changes, Hardware
      <4>2. requests'[b] = Validated(requests[b], ValidatedAfter(b), denied)
        BY <1>0, <2>3, <3>1 DEF ValidateRequest
      <4> QED
        BY <1>0, <4>1, <4>2 DEF Validated, Row
    <3>2. CASE b # q
      BY <1>0, <2>3, <3>2 DEF ValidateRequest, Row
    <3> QED
      BY <3>1, <3>2
  <2> QED
    BY <2>1, <2>2, <2>3
<1>3. CASE Housekeeping \/ ReapBeforeFork
  BY <1>0, <1>3 DEF Housekeeping, ReapBeforeFork, WaitPids
<1>4. CASE KillStaleProcess
  <2>1. PICK victims \in SUBSET {r \in Ids : Command(r) \in StaleCommands} :
          requests' = Stopped(victims)
    BY <1>4 DEF KillStaleProcess, StopSome
  <2>2. b \notin victims
    BY DEF Changes, Hardware, StaleCommands
  <2> QED
    BY <1>1, <2>1, <2>2 DEF Stopped
<1>5. CASE KillDeadProcess \/ TimeoutRequests
  <2>1. PICK victims : /\ requests' = Stopped(victims)
                       /\ \A r \in victims : requests[r].status = "working"
    BY <1>5 DEF KillDeadProcess, TimeoutRequests, StopSome
  <2> QED
    BY <1>1, <2>1 DEF Stopped
<1>6. CASE \E q \in Ids : SelectStep(q)
  <2>1. PICK q \in Ids : SelectStep(q)
    BY <1>6
  <2>2. CASE b # q
    BY <1>0, <1>1, <2>1, <2>2 DEF SelectStep, PingBackend, FailRequest, SelectRequest, SkipRequest
  <2>3. CASE b = q
    <3>1. ~ PingBackend(b)
      BY DEF PingBackend, Changes, Hardware
    <3>2. ~ FailRequest(b)
      BY DEF FailRequest, RequirementFailed, Ordered, Redirected, Changes
    <3> QED
      BY <1>1, <2>1, <2>3, <3>1, <3>2 DEF SelectStep, SelectRequest, SkipRequest
  <2> QED
    BY <2>2, <2>3
<1>7. CASE MarkWorking \/ WaitForOthers
  <2>1. RowStep(b)
    BY NextRows
  <2>2. CASE b # current
    BY <1>0, <1>1, <1>7, <2>2, StopType
    DEF MarkWorking, WaitForOthers, Stopped, StoppedRefresh, Changes, Hardware, RefreshCommands
  <2>3. CASE b = current
    <3>1. requests[b] \in Row
      BY <1>0
    <3>2. CASE MarkWorking
      <4>1. requests'[b] = [requests[b] EXCEPT !.status = IF @ = "waiting" THEN @ ELSE "working",
                                               !.started = TRUE, !.error = FALSE]
        BY <1>0, <2>3, <3>2, StopType DEF MarkWorking, Stopped
      <4> QED
        BY <3>1, <4>1 DEF Row
    <3>3. CASE WaitForOthers
      BY <1>0, <2>3, <3>1, <3>3 DEF WaitForOthers, Row
    <3> QED
      BY <1>7, <3>2, <3>3
  <2> QED
    BY <2>2, <2>3
<1>8. ASSUME NEW p \in Pids, Fork(p) PROVE requests[b].status = "done"
  BY <1>0, <1>8 DEF Fork, Row
<1>9. ASSUME NEW p \in Pids, ChildProgress(p) \/ ChildDies(p)
      PROVE  requests[b].status = "done" \/ IsExecuted(b)
  <2>1. CASE proc[p].req = b /\ Executing(p)
    BY <2>1 DEF IsExecuted
  <2>2. CASE ~ (proc[p].req = b /\ Executing(p))
    <3>1. CASE \E q \in Ids : ChildPostpones(p, q)
      BY <1>0, <2>2, <3>1 DEF ChildPostpones, ChildStep, SetProcess, Executing, NewRow
    <3>2. CASE proc[p].req # b /\ ~ \E q \in Ids : ChildPostpones(p, q)
      BY <1>0, <1>1, <1>9, <3>2
      DEF ChildProgress, ChildDies, ChildBegin, ChildFinish, ChildAsksRetry, ChildReschedules, ChildExit
    <3>3. CASE proc[p].req = b /\ ~ \E q \in Ids : ChildPostpones(p, q)
      <4>1. ~ Executing(p)
        BY <2>2, <3>3
      <4>2. ChildReschedules(p) \/ UNCHANGED requests
        BY <1>9, <3>3, <4>1
        DEF ChildProgress, ChildDies, ChildBegin, ChildFinish, ChildAsksRetry, ChildExit,
            ChildStep, SetProcess, Executing
      <4>3. requests'[b] = [requests[b] EXCEPT !.at = "later", !.retry = proc[p].left]
              \/ requests'[b] = requests[b]
        BY <1>0, <3>3, <4>2 DEF ChildReschedules
      <4> QED
        BY <1>0, <1>1, <4>3 DEF Row
    <3> QED
      BY <3>1, <3>2, <3>3
  <2> QED
    BY <2>1, <2>2
<1>10. CASE Restart
  BY <1>0, <1>10 DEF Restart, Row
<1>11. CASE FetchRequests \/ EndSelect \/ EndPass \/ Crash \/ \E q \in Ids : CheckRequest(q)
  BY <1>1, <1>11 DEF FetchRequests, EndSelect, EndPass, Crash, CheckRequest
<1>12. CASE \E q \in Ids : TimePasses(q)
  BY <1>0, <1>12 DEF TimePasses, Row
<1> QED
  BY <1>2, <1>3, <1>4, <1>5, <1>6, <1>7, <1>8, <1>9, <1>10, <1>11, <1>12 DEF Next, MasterStep

-----------------------------------------------------------------------------
(* Lined is an invariant.                                                  *)

\* Requests get their ids in order.
LEMMA OnlyNextArrives ==
  ASSUME TypeOK, ProcessesKnown, EachOnce, Ordered, Next, NEW r \in Ids,
         requests[r].status = "absent", requests'[r].status # "absent"
  PROVE  IsNextId(r) /\ Arrives(r)
<1>1. RowStep(r) /\ ~ IsExecuted(r) /\ ~ Chosen(r)
  BY NextRows, UnreadyIdle DEF Unready
<1>2. ~ Postpones(r)
  BY <1>1 DEF Postpones, ChildPostpones, IsExecuted, Executing
<1>3. Arrives(r)
  BY <1>1, <1>2 DEF RowStep, Untouched, IsCurrentStep, IsCommandStep, Chosen
<1>4. r \notin callers
  BY DEF Ordered
<1> QED
  BY <1>3, <1>4 DEF Arrives, NewRequest, ValidateRequest, ChildPostpones

\* A change that its caller has inserted stays as it was until the caller is through.
LEMMA WithItsCaller ==
  ASSUME TypeOK, ProcessesKnown, EachOnce, Ordered, Lined, Next, ~ Cancels,
         OneSecond, PromptCallers, NEW b \in Ids, Changes(b), b \in callers'
  PROVE  /\ requests'[b].status = "requested"
         /\ requests'[b].after_request = NoRequest
         /\ \A o \in Ids : Changes(o) /\ b < o => requests'[o].status = "absent"
<1>0. requests \in [Ids -> Row]
  BY DEF TypeOK
<1>1. CASE b \notin callers
  <2>1. NewRequest(b)
    <3>1. ~ \E p \in Pids : ChildProgress(p) \/ ChildDies(p)
      BY <1>1, ChildKeeps
    <3>2. ~ \E q \in Ids, denied \in BOOLEAN : ValidateRequest(q, denied)
      BY <1>1 DEF ValidateRequest
    <3>3. callers' # callers
      BY <1>1
    <3>4. ~ Housekeeping /\ ~ MasterStep /\ ~ Crash /\ ~ \E q \in Ids : TimePasses(q)
      BY <3>3
      DEF TimePasses, Housekeeping, MasterStep, KillStaleProcess, KillDeadProcess,
          TimeoutRequests, FetchRequests, SelectStep, PingBackend, FailRequest, SelectRequest,
          SkipRequest, CheckRequest, EndSelect, EndPass, MarkWorking, ReapBeforeFork,
          WaitForOthers, Fork, Restart, Crash
    <3>5. PICK q \in Ids : NewRequest(q)
      BY <3>1, <3>2, <3>4 DEF Next
    <3> QED
      BY <1>1, <3>5 DEF NewRequest
  <2>2. requests'[b] = NewRow(b) /\ requests[b].status = "absent"
    BY <2>1 DEF NewRequest, IsNextId
  <2>3. ASSUME NEW o \in Ids, b < o PROVE requests'[o].status = "absent"
    <3>1. requests[o].status = "absent" /\ o # b
      BY <2>2, <2>3 DEF Lined, Ids
    <3> QED
      BY <2>1, <3>1 DEF NewRequest, RemovedByStart, Pending
  <2> QED
    BY <2>2, <2>3 DEF NewRow, OneSecond
<1>2. CASE b \in callers
  <2>1. /\ requests[b].status = "requested" /\ requests[b].after_request = NoRequest
        /\ \A o \in Ids : Changes(o) /\ b < o => requests[o].status = "absent"
    BY <1>2 DEF Lined
  <2>2. ~ IsExecuted(b) /\ ~ Chosen(b)
    BY <1>2, UnreadyIdle DEF Unready
  <2>3. ~ Arrives(b)
    BY <1>2, <2>1 DEF Arrives, NewRequest, IsNextId, ValidateRequest, ChildPostpones
  <2>4. Untouched(b)
    BY <2>2, <2>3, NextRows
    DEF RowStep, IsCurrentStep, IsCommandStep, Postpones, Changes, Hardware, ChildPostpones, Chosen
  <2>5. requests'[b].status # "done"
    BY <2>1, <2>2, EndsInLine
  <2>6. requests'[b].status = "requested" /\ requests'[b].after_request = NoRequest
    BY <2>1, <2>4, <2>5 DEF Untouched, SameDeps, Changes, Hardware, DeletedAtRestart
  <2>7. ASSUME NEW o \in Ids, Changes(o), b < o, requests'[o].status # "absent" PROVE FALSE
    <3>1. Arrives(o) /\ o \notin callers
      BY <2>1, <2>7, OnlyNextArrives DEF Ordered
    <3> QED
      BY <1>2, <2>7, <3>1
      DEF Arrives, NewRequest, ValidateRequest, ChildPostpones, Changes, Hardware
  <2> QED
    BY <2>6, <2>7
<1> QED
  BY <1>1, <1>2

\* Nothing deletes a change, nor tries it again but by asking for it again.
LEMMA ChangeStays ==
  ASSUME TypeOK, ProcessesKnown, Lined, Next, NEW b \in Ids, Changes(b)
  PROVE  requests'[b].status \notin {"deleted", "retry"}
<1>0. requests \in [Ids -> Row] /\ requests[b].status \notin {"deleted", "retry"}
  BY DEF TypeOK, Lined
<1>1. RowStep(b)
  BY NextRows
<1>2. CASE Arrives(b)
  <2>1. CASE NewRequest(b)
    BY <2>1 DEF NewRequest, NewRow
  <2>2. ASSUME NEW denied \in BOOLEAN, ValidateRequest(b, denied)
        PROVE  requests'[b].status \notin {"deleted", "retry"}
    <3>1. requests'[b] = Validated(requests[b], ValidatedAfter(b), denied)
      BY <2>2 DEF ValidateRequest
    <3> QED
      BY <1>0, <3>1 DEF Validated, Row
  <2>3. ~ \E p \in Pids : ChildPostpones(p, b)
    BY DEF ChildPostpones, Changes, Hardware
  <2> QED
    BY <1>2, <2>1, <2>2, <2>3 DEF Arrives
<1>3. ~ Postpones(b)
  BY DEF Postpones, ChildPostpones, Changes, Hardware
<1> QED
  BY <1>0, <1>1, <1>2, <1>3
  DEF RowStep, Untouched, IsCurrentStep, IsCommandStep, Changes, Hardware, DeletedAtRestart

\* Validation is the last thing that a caller does with a change.
LEMMA ChangeGetsReady ==
  ASSUME TypeOK, ProcessesKnown, EachOnce, Next, NEW b \in Ids, Changes(b),
         Unready(b), ~ Unready(b)'
  PROVE  b \in callers /\ \E denied \in BOOLEAN : ValidateRequest(b, denied)
<1>1. RowStep(b) /\ ~ IsExecuted(b) /\ ~ Chosen(b)
  BY NextRows, UnreadyIdle
<1>2. ~ Untouched(b)
  BY DEF Untouched, StaysWithCaller, Unready
<1>3. ~ Postpones(b) /\ ~ \E p \in Pids : ChildPostpones(p, b)
  BY DEF Postpones, ChildPostpones, Changes, Hardware
<1>4. ~ NewRequest(b)
  BY DEF NewRequest, Unready
<1> QED
  BY <1>1, <1>2, <1>3, <1>4
  DEF RowStep, IsCurrentStep, IsCommandStep, Chosen, Arrives, ValidateRequest

\* A request that is not pending any more is over, if nobody works for its caller.
LEMMA GoneIsOver ==
  ASSUME ProcessesKnown, NotDoneEarly, Ordered, NEW a \in Ids,
         ~ Unready(a), ~ Pending(a)
  PROVE  JobOf(a) = "over"
<1>1. requests[a].status \in {"done", "deleted"}
  BY DEF Unready, Pending
<1>2. ~ IsExecuted(a)
  BY <1>1 DEF Ordered, NotDoneEarly, IsDone, IsExecuted
<1> QED
  BY <1>1, <1>2 DEF JobOf, Unready

LEMMA ReadyInLine ==
  ASSUME TypeOK, ProcessesKnown, EachOnce, NotDoneEarly, Ordered, Lined, Next,
         OneSecond, NEW b \in Ids, Changes(b), ~ Unready(b)'
  PROVE  /\ requests'[b].after_request # NoRequest => InLine(requests'[b].after_request, b)
         /\ \A a \in Ids : InLine(a, b) => JobOf(a)' = "over" \/ a <= requests'[b].after_request
<1>0. requests \in [Ids -> Row]
  BY DEF TypeOK
<1>1. CASE Unready(b)
  <2>1. b \in callers
    BY <1>1, ChangeGetsReady
  <2>2. PICK denied \in BOOLEAN : ValidateRequest(b, denied)
    BY <1>1, ChangeGetsReady
  <2>3. /\ requests[b].after_request = NoRequest /\ requests[b].status # "absent"
        /\ \A o \in Ids : Changes(o) /\ b < o => requests[o].status = "absent"
    BY <2>1 DEF Lined
  <2>4. requests'[b].after_request = ValidatedAfter(b)
    <3>1. requests'[b] = Validated(requests[b], ValidatedAfter(b), denied)
      BY <2>2 DEF ValidateRequest
    <3> QED
      BY <1>0, <3>1 DEF Validated, Row
  <2>5. ASSUME NEW a \in Ids, InLine(a, b), ~ Pending(a) PROVE JobOf(a)' = "over"
    <3>1. requests[a].status # "absent" /\ a \notin callers
      BY <2>1, <2>3, <2>5 DEF InLine, Lined, Ordered, Ids
    <3>2. JobOf(a) = "over"
      BY <2>5, <3>1, GoneIsOver DEF Unready
    <3> QED
      BY <3>2, OverStays
  <2> QED
    BY <2>3, <2>4, <2>5, ValidatedLast
<1>2. CASE ~ Unready(b)
  <2>1. RowStep(b) /\ ~ Arrives(b) /\ ~ Postpones(b)
    BY <1>2, NextRows DEF Arrives, Postpones, ChildPostpones, Changes, Hardware
  <2>2. requests'[b].after_request = requests[b].after_request
    BY <2>1 DEF RowStep, Untouched, IsCurrentStep, IsCommandStep, SameDeps
  <2>3. \A a \in Ids : JobOf(a) = "over" => JobOf(a)' = "over"
    BY OverStays
  <2> QED
    BY <1>2, <2>2, <2>3 DEF Lined
<1> QED
  BY <1>1, <1>2

LEMMA StartsInLine ==
  ASSUME TypeOK, ProcessesKnown, EachOnce, NotDoneEarly, Ordered, Lined, Next, ~ Cancels,
         PromptCallers, OneSecond, NEW b \in Ids, Changes(b),
         JobOf(b)' \in {"running", "over"} \/ requests'[b].status = "waiting",
         NEW a \in Ids, InLine(a, b)
  PROVE  JobOf(a)' = "over"
<1>0. requests \in [Ids -> Row]
  BY DEF TypeOK
<1> SUFFICES JobOf(a) = "over"
  BY OverStays
<1>1. CASE Unready(b)
  <2>1. ~ IsExecuted(b) /\ ~ Chosen(b) /\ ~ IsExecuted(b)'
    BY <1>1, UnreadyIdle, OnlyCurrentStarts DEF Chosen
  <2>2. CASE Unready(b)'
    <3>1. b \in callers' => requests'[b].status = "requested"
      BY WithItsCaller
    <3> QED
      BY <2>2, <3>1 DEF Unready, JobOf
  <2>3. CASE ~ Unready(b)'
    <3>1. b \in callers
      BY <1>1, <2>3, ChangeGetsReady
    <3>2. PICK denied \in BOOLEAN : ValidateRequest(b, denied)
      BY <1>1, <2>3, ChangeGetsReady
    <3>3. requests[b].status = "requested" /\ ~ denied
      BY <3>1, <3>2 DEF Lined, ValidateRequest, Changes, Hardware
    <3>4. requests'[b] = Validated(requests[b], ValidatedAfter(b), denied)
      BY <3>2 DEF ValidateRequest
    <3>5. requests'[b].status = "requested"
      BY <1>0, <3>3, <3>4 DEF Validated, Row
    <3> QED
      BY <2>1, <3>5 DEF JobOf
  <2> QED
    BY <2>2, <2>3
<1>2. CASE ~ Unready(b) /\ Chosen(b)
  BY <1>2, LineIsOver DEF Ordered
<1>3. CASE ~ Unready(b) /\ (JobOf(b) \in {"running", "over"} \/ requests[b].status = "waiting")
  BY <1>3 DEF Lined
<1>4. CASE /\ ~ Unready(b) /\ ~ Chosen(b)
           /\ ~ (JobOf(b) \in {"running", "over"} \/ requests[b].status = "waiting")
  <2>1. requests[b].status = "requested" /\ ~ IsExecuted(b)
    BY <1>0, <1>4 DEF JobOf, Unready, Lined, Row, Status
  <2>2. ~ IsExecuted(b)'
    BY <1>4, <2>1, OnlyCurrentStarts DEF Chosen
  <2>3. RowStep(b) /\ ~ Arrives(b) /\ ~ Postpones(b)
    BY <1>4, NextRows DEF Arrives, Postpones, ChildPostpones, Changes, Hardware
  <2>4. Untouched(b)
    BY <1>4, <2>1, <2>3 DEF RowStep, IsCurrentStep, IsCommandStep, Chosen
  <2>5. requests'[b].status # "done"
    BY <2>1, EndsInLine
  <2>6. requests'[b].status = "requested"
    BY <2>1, <2>4, <2>5 DEF Untouched, Changes, Hardware, DeletedAtRestart
  <2> QED
    BY <2>2, <2>6 DEF JobOf
<1> QED
  BY <1>1, <1>2, <1>3, <1>4

LEMMA NextLined ==
  ASSUME TypeOK, ProcessesKnown, EachOnce, NotDoneEarly, Ordered, Lined, Next, ~ Cancels,
         PromptCallers, OneSecond
  PROVE  Lined'
<1>1. ASSUME NEW a \in Ids, NEW b \in Ids, a < b, requests'[b].status # "absent"
      PROVE  requests'[a].status # "absent"
  <2>1. requests[a].status # "absent"
    BY <1>1, OnlyNextArrives DEF Lined, IsNextId
  <2> QED
    BY <2>1, NextRows
    DEF RowStep, Untouched, IsCurrentStep, IsCommandStep, Postpones, Arrives
<1>2. ASSUME NEW b \in Ids, Changes(b)
      PROVE  /\ requests'[b].status \notin {"deleted", "retry"}
             /\ b \in callers' =>
                  /\ requests'[b].status = "requested"
                  /\ requests'[b].after_request = NoRequest
                  /\ \A o \in Ids : Changes(o) /\ b < o => requests'[o].status = "absent"
  BY <1>2, ChangeStays, WithItsCaller
<1>3. ASSUME NEW b \in Ids, Changes(b), ~ Unready(b)'
      PROVE  /\ requests'[b].after_request # NoRequest => InLine(requests'[b].after_request, b)
             /\ \A a \in Ids :
                  InLine(a, b) => JobOf(a)' = "over" \/ a <= requests'[b].after_request
  BY <1>3, ReadyInLine
<1>4. ASSUME NEW b \in Ids, Changes(b),
             JobOf(b)' \in {"running", "over"} \/ requests'[b].status = "waiting",
             NEW a \in Ids, InLine(a, b)
      PROVE  JobOf(a)' = "over"
  BY <1>4, StartsInLine
<1> QED
  BY <1>1, <1>2, <1>3, <1>4 DEF Lined, Changes, InLine

LEMMA LinedInductive ==
  /\ PromptChildren /\ PromptCallers /\ OneRequirement /\ OneSecond
  /\ Spec /\ []NotDoneEarly /\ [][~ Cancels]_vars
  => []Lined
<1> SUFFICES ASSUME PromptChildren, PromptCallers, OneRequirement, OneSecond
             PROVE  Spec /\ []NotDoneEarly /\ [][~ Cancels]_vars => []Lined
  OBVIOUS
<1>1. Init => Lined
  BY DEF Init, Lined, JobOf, Unready
<1>2. Lined /\ Ordered /\ EachOnce /\ NotDoneEarly /\ IInv /\ [Next]_vars /\ [~ Cancels]_vars
      => Lined'
  <2>1. Lined /\ Ordered /\ EachOnce /\ NotDoneEarly /\ IInv /\ Next /\ ~ Cancels => Lined'
    BY NextLined DEF IInv
  <2>2. Lined /\ UNCHANGED vars => Lined'
    BY DEF Lined, Unready, JobOf, IsExecuted, Executing, vars
  <2> QED
    BY <2>1, <2>2
<1> QED
  BY <1>1, <1>2, Inductive, OnceInductive, OrderedInductive, PTL DEF Spec

\* A change that has to wait for others is told to come after the last of them: of changes
\* that are asked for in one second, when nothing ends one before its process does.
THEOREM HardwareWaits ==
  /\ PromptChildren /\ PromptCallers /\ OneRequirement /\ OneSecond
  /\ Spec /\ []NotDoneEarly /\ [][~ Cancels]_vars
  => []HardwareInLine
<1>1. Lined => HardwareInLine
  <2> SUFFICES ASSUME Lined, NEW a \in Ids, NEW b \in Ids,
                      InLine(a, b), Pending(a), Pending(b), b \notin callers
               PROVE  requests[b].after_request >= a
    BY DEF HardwareInLine
  <2>1. Changes(a) /\ Changes(b) /\ ~ Unready(b) /\ requests[b].status # "absent"
    BY DEF InLine, Changes, Pending, Unready
  <2>2. a \notin callers
    BY <2>1 DEF Lined, InLine
  <2>3. JobOf(a) # "over"
    BY <2>2 DEF JobOf, Pending
  <2> QED
    BY <2>1, <2>3 DEF Lined
<1> QED
  BY <1>1, LinedInductive, PTL

\* Then they are executed in the order in which they were asked for, one at a time, however
\* many of them there are and whatever else the queue does.
THEOREM HardwareOrdered ==
  /\ PromptChildren /\ PromptCallers /\ OneRequirement /\ OneSecond
  /\ Spec /\ []NotDoneEarly /\ [][~ Cancels]_vars
  => []HardwareInOrder
<1>1. Lined /\ EachOnce /\ IInv => HardwareInOrder
  <2> SUFFICES ASSUME Lined, EachOnce, IInv, NEW p \in Pids, Executing(p),
                      NEW a \in Ids, InLine(a, proc[p].req)
               PROVE  IsDone(a) /\ ~ IsExecuted(a)
    BY DEF HardwareInOrder
  <2> DEFINE b == proc[p].req
  <2>1. b \in Ids /\ IsExecuted(b) /\ Changes(a) /\ Changes(b)
    BY DEF IInv, ProcessesKnown, Executing, IsExecuted, InLine, Changes
  <2>2. JobOf(b) = "running"
    BY <2>1, UnreadyIdle DEF JobOf, Unready
  <2>3. JobOf(a) = "over"
    BY <2>1, <2>2 DEF Lined
  <2> QED
    BY <2>1, <2>3 DEF JobOf, Lined, IsDone
<1> QED
  BY <1>1, LinedInductive, Inductive, OnceInductive, PTL
=============================================================================
