---------------------------- MODULE RequestQueue ----------------------------
(***************************************************************************)
(* The request queue of Ravada.  The web frontend, the commands themselves *)
(* and the daemon insert rows in the table "requests"; the backend daemon  *)
(* (rvd_back) loops over the table, forks one process per request it       *)
(* executes, and finds out later that the process is gone.                 *)
(*                                                                         *)
(* Three kinds of actor share the table: whoever inserts a request         *)
(* (NewRequest), the one master process (its program counter is master),   *)
(* and the forked children.  One action is what an actor does to the table *)
(* before another one could notice.  Everything happens between time       *)
(* stamps that are abstracted away: "later than now" is a value of at_time *)
(* and TimePasses may end it whenever it likes.                            *)
(*                                                                         *)
(* Left out, because no decision of this code reads it: the column         *)
(* domains.is_locked (Domain::is_locked computes the answer again), the    *)
(* messages sent to users, run_time and the daemon's debug modes that do   *)
(* not fork.  Left out too: the download of an ISO image that a create may *)
(* have to wait for (_check_downloading).                                  *)
(***************************************************************************)
EXTENDS Integers, FiniteSets

CONSTANTS
    NRequests,   \* bound: how many requests are ever inserted
    NPids,       \* bound: how many pids the daemon remembers at once
    MaxCrashes,  \* bound: how many times the daemon or a process of it dies
    PrepareBaseRetries, \* bound: retries of a prepare_base that gives none (5 in the code)
    PromptChildren, \* TRUE: a forked process begins before the next pass does
    PromptCallers,  \* TRUE: a request is validated before anybody else does anything with it
    Domains,     \* ids of virtual machines
    NoDomain,    \* a request about no virtual machine in particular
    Args,        \* Args[r]: what the caller of request r asks for
    Limit        \* Limit[t]: processes allowed at once for requests of type t

Ids == 1 .. NRequests
NoRequest == 0
Pids == 1 .. NPids
NoPid == 0

\* A request is inserted with retry undefined unless the caller gives one.
Undefined == -1
MaxRetry == 10

-----------------------------------------------------------------------------
(* Commands, their types, limits and priorities.                           *)

CommandsOf ==
  [ disk_low_priority |-> {"rsync_back", "check_storage", "refresh_vms", "move_volume"},
    disk |-> {"prepare_base", "remove_base", "set_base_vm", "rebase_volumes",
              "remove_base_vm", "screenshot", "cleanup", "compact", "spinoff", "backup"},
    huge |-> {"download", "manage_pools"},
    secondary |-> {"shutdown", "shutdown_now", "enforce_limits", "set_time",
                   "remove_domain", "remove", "refresh_machine_ports", "connect_node",
                   "start_node", "shutdown_node", "post_login"},
    important |-> {"clone", "start", "start_clones", "shutdown_clones", "create",
                   "open_iptables", "list_network_interfaces", "list_isos",
                   "ping_backend", "refresh_machine", "list_cpu_models"},
    iptables |-> {"open_exposed_ports"} ]

Hardware == {"add_hardware", "change_hardware", "remove_hardware"}

\* Commands in no list of CommandsOf are of type long; these are the ones used here.
LongCommands == Hardware \cup {"migrate", "rebase", "refresh_storage"}

Commands == LongCommands \cup UNION {CommandsOf[t] : t \in DOMAIN CommandsOf}

Types == DOMAIN CommandsOf \cup {"long"}

Type(c) == IF c \in LongCommands THEN "long"
           ELSE CHOOSE t \in DOMAIN CommandsOf : c \in CommandsOf[t]

\* _set_priority looks for the command in the lists, so the 10 of type long is never used:
\* a command in no list has no priority, which sorts before every other.
PriorityOf == [ long |-> 0, disk_low_priority |-> 30, disk |-> 20, huge |-> 15,
                secondary |-> 4, important |-> 1, iptables |-> 2 ]

Priority(c) == PriorityOf[Type(c)]

LowPriority == CommandsOf["disk_low_priority"]

\* Commands LIKE 'refresh%', and those _kill_stale_process looks for.
RefreshCommands == {"refresh_vms", "refresh_machine", "refresh_machine_ports", "refresh_storage"}
StaleCommands == {"refresh_vms", "screenshot", "set_time", "open_exposed_ports",
                  "remove", "refresh_machine_ports", "post_login"}

\* Commands whose requested rows a restart deletes: two in clean_old_requests, and one when
\* rvd_back starts its loop.
DeletedAtRestart == {"refresh_vms", "cleanup", "ping_backend"}

ShutdownCommands == {"shutdown", "shutdown_now", "shutdown_node", "shutdown_clones"}

\* Commands that do not make their domain busy for the others.
Unobtrusive == {"set_base_vm", "set_time", "refresh_machine", "refresh_machine_ports"}

-----------------------------------------------------------------------------
ArgRecord ==
  [ command : Commands,
    id_domain : Domains \cup {NoDomain},
    id_base : Domains \cup {NoDomain},
    after_request : Ids \cup {NoRequest},
    after_request_ok : Ids \cup {NoRequest},
    date_req : Nat,       \* the second in which it is inserted
    at : BOOLEAN,         \* to be executed later than now
    retry : Undefined .. MaxRetry,
    timeout : BOOLEAN ]   \* the request carries a timeout

ASSUME SizeAssumption ==
  /\ NRequests \in Nat \ {0}
  /\ NPids \in Nat \ {0}
  /\ MaxCrashes \in Nat
  /\ PrepareBaseRetries \in 0 .. MaxRetry
  /\ PromptChildren \in BOOLEAN
  /\ PromptCallers \in BOOLEAN
  /\ NoDomain \notin Domains

\* A caller names as dependencies requests that it has inserted before, and no
\* caller makes a request depend on the success of one that a restart deletes.
ASSUME ArgsAssumption ==
  /\ Args \in [Ids -> ArgRecord]
  /\ \A r \in Ids :
       /\ Args[r].after_request < r
       /\ Args[r].after_request_ok < r
       /\ \A o \in Ids : o < r => Args[o].date_req <= Args[r].date_req
       /\ Args[r].after_request_ok # NoRequest =>
            Args[Args[r].after_request_ok].command \notin DeletedAtRestart

ASSUME LimitAssumption == Limit \in [Types -> Nat \ {0}]

Command(r) == Args[r].command
TypeOfRequest(r) == Type(Command(r))

-----------------------------------------------------------------------------
VARIABLES
    requests,  \* the table: requests[r] is the row with id r
    proc,      \* proc[p]: the process with pid p and the request it was forked for
    pids,      \* the pids the master keeps in $self->{pids}
    master,    \* where the master is in process_requests
    todo,      \* rows fetched by this pass and not looked at yet
    selected,  \* @reqs: requests this pass is going to execute
    seen,      \* %duplicated: <<domain, command>> already met in this pass
    current,   \* the request _execute works on
    callers,   \* requests inserted that the caller has not validated yet
    crashes    \* how many times the daemon or a process of it died

vars == <<requests, proc, pids, master, todo, selected, seen, current, callers, crashes>>

passVars == <<todo, selected, seen, current>>

Status == {"absent", "requested", "waiting", "working", "retry", "done", "deleted"}

Row ==
  [ status : Status,
    error : BOOLEAN,                  \* the error column is not empty
    at : {"none", "due", "later"},    \* at_time: not set, reached, in the future
    retry : Undefined .. MaxRetry,
    after_request : Ids \cup {NoRequest},
    after_request_ok : Ids \cup {NoRequest},
    pid : Pids \cup {NoPid},
    started : BOOLEAN ]               \* start_time IS NOT NULL

\* none: no process has this pid; forked: before _do_execute_command; running: in the
\* command; retrying: the row is requested again and not delayed yet; ending: the row
\* is final and the process has not exited; zombie: exited and not waited for.
ProcState == {"none", "forked", "running", "retrying", "ending", "zombie"}

NoProcess == [state |-> "none", req |-> NoRequest, left |-> 0]

Process == [ state : ProcState,
             req : Ids \cup {NoRequest},
             left : 0 .. MaxRetry ]   \* $retry-1, while it is not written yet

MasterState == {"idle", "stale", "dead", "timeout", "fetch", "select", "check",
                "mark", "reap", "fork", "down"}

TypeOK ==
  /\ requests \in [Ids -> Row]
  /\ proc \in [Pids -> Process]
  /\ pids \subseteq Pids
  /\ master \in MasterState
  /\ todo \subseteq Ids
  /\ selected \subseteq Ids
  /\ seen \subseteq (Domains \X Commands)
  /\ current \in Ids \cup {NoRequest}
  /\ callers \subseteq Ids
  /\ crashes \in 0 .. MaxCrashes

Live == {"forked", "running", "retrying", "ending"}
IsLive(p) == proc[p].state \in Live

Exists(r) == requests[r].status \notin {"absent", "deleted"}
Pending(r) == requests[r].status \notin {"absent", "deleted", "done"}

Init ==
  /\ requests = [r \in Ids |->
       [ status |-> "absent", error |-> FALSE, at |-> "none", retry |-> Undefined,
         after_request |-> NoRequest, after_request_ok |-> NoRequest,
         pid |-> NoPid, started |-> FALSE ]]
  /\ proc = [p \in Pids |-> NoProcess]
  /\ pids = {}
  /\ master = "idle"
  /\ todo = {} /\ selected = {} /\ seen = {}
  /\ current = NoRequest
  /\ callers = {}
  /\ crashes = 0

-----------------------------------------------------------------------------
(* Request->stop: SIGTERM to the recorded pid, then the row is done.       *)

\* Mutant: the row is done and the process goes on.
Killed_Spared(victims) == proc

Killed(victims) ==
  [p \in Pids |-> IF IsLive(p) /\ \E r \in victims : requests[r].pid = p
                  THEN [proc[p] EXCEPT !.state = "zombie"]
                  ELSE proc[p]]

Stopped(victims) ==
  [r \in Ids |-> IF r \in victims THEN [requests[r] EXCEPT !.status = "done"]
                 ELSE requests[r]]

-----------------------------------------------------------------------------
(* Inserting a request: start_domain, _new_request and _validate.          *)

\* _search_request: a pending request of the same domain with one of these commands,
\* ORDER BY date_req, id DESC: the last one of the second in which the first was inserted.
Found(r, commands) ==
  {o \in Ids \ {r} : /\ Pending(o)
                     /\ Command(o) \in commands
                     /\ Args[r].id_domain # NoDomain
                     /\ Args[o].id_domain = Args[r].id_domain}

\* Mutant: the first one.
SearchRequest_First(r, commands) ==
  LET found == Found(r, commands)
  IN  IF found = {} THEN NoRequest ELSE CHOOSE o \in found : \A q \in found : o <= q

SearchRequest(r, commands) ==
  LET found == Found(r, commands)
      first == {o \in found : \A q \in found : Args[o].date_req <= Args[q].date_req}
  IN  IF found = {} THEN NoRequest
      ELSE CHOOSE o \in first : \A q \in first : q <= o

Later(a, b) == IF a > b THEN a ELSE b

\* What _validate_start_domain, _validate_change_hardware and _validate_compact
\* make of the after_request the caller gave.
ValidatedAfter(r) ==
  LET given    == requests[r].after_request
      start    == SearchRequest(r, {"start"})
      hardware == SearchRequest(r, Hardware)
      move     == SearchRequest(r, {"move_volume"})
      Unset(o) == o # NoRequest /\ o < r /\ requests[o].at = "none"
  IN  CASE Command(r) = "start" ->
             IF Unset(hardware) THEN hardware
             ELSE IF Unset(start) /\ requests[start].after_request # NoRequest THEN start
             ELSE given
        [] Command(r) \in Hardware \cup {"move_volume"} /\ given = NoRequest ->
             Later(hardware, move)
        [] Command(r) \in {"compact", "spinoff", "prepare_base"} /\ given = NoRequest ->
             Later(SearchRequest(r, {"compact"}), SearchRequest(r, {"spinoff"}))
        [] OTHER -> given

\* _validate_compact also lets the requests it found run at once.
Unscheduled(r) ==
  IF /\ Command(r) \in {"compact", "spinoff", "prepare_base"}
     /\ requests[r].after_request = NoRequest
  THEN {SearchRequest(r, {"compact"}), SearchRequest(r, {"spinoff"})} \ {NoRequest}
  ELSE {}

\* _remove_low_priority_requests, called by start_domain.
RemovedByStart(r) ==
  IF Command(r) = "start" /\ Args[r].id_domain # NoDomain
  THEN {o \in Ids : /\ Pending(o)
                    /\ Command(o) \in LowPriority
                    /\ Args[o].id_domain = Args[r].id_domain}
  ELSE {}

NewRow(r) ==
  [ status |-> "requested",
    error |-> FALSE,
    at |-> IF Args[r].at THEN "later" ELSE "none",
    retry |-> Args[r].retry,
    after_request |-> Args[r].after_request,
    after_request_ok |-> Args[r].after_request_ok,
    pid |-> NoPid,
    started |-> FALSE ]

IsNextId(r) ==
  /\ requests[r].status = "absent"
  /\ \A o \in Ids : o < r => requests[o].status # "absent"

\* The row is inserted first, as the caller gave it.  A request that duplicates a pending
\* or recent one is not: that answer changes nothing and is no step here.
NewRequest(r) ==
  /\ IsNextId(r)
  /\ PromptCallers => callers = {}
  /\ requests' = [o \in Ids |->
       IF o = r THEN NewRow(r)
       ELSE IF o \in RemovedByStart(r) THEN [requests[o] EXCEPT !.status = "done"]
       ELSE requests[o]]
  /\ proc' = Killed(RemovedByStart(r))
  /\ callers' = callers \cup {r}
  /\ UNCHANGED <<pids, master, passVars, crashes>>

\* What validation leaves of the row, whatever it has become meanwhile.
Validated(row, after, denied) ==
  [row EXCEPT !.after_request = after,
              !.status = IF @ = "deleted" THEN @
                         ELSE IF denied \/ @ = "done" THEN "done" ELSE "requested",
              !.error = @ \/ denied]

\* Then it is validated and requested again.  _validate_clone, _validate_create_domain and
\* _validate_open_exposed_ports may refuse a request: it is done at once.
ValidateRequest(r, denied) ==
  /\ r \in callers
  /\ denied => Command(r) \in {"clone", "create", "open_exposed_ports"}
  /\ requests' = [o \in Ids |->
       IF o = r THEN Validated(requests[r], ValidatedAfter(r), denied)
       ELSE IF o \in Unscheduled(r) THEN [requests[o] EXCEPT !.at = "none"]
       ELSE requests[o]]
  /\ callers' = callers \ {r}
  /\ UNCHANGED <<proc, pids, master, passVars, crashes>>

TimePasses(r) ==
  /\ requests[r].at = "later"
  /\ requests' = [requests EXCEPT ![r].at = "due"]
  /\ UNCHANGED <<proc, pids, master, passVars, callers, crashes>>

-----------------------------------------------------------------------------
(* The master: housekeeping once in a while.                               *)

\* _wait_pids forgets the pids that no longer exist and marks as done the request
\* of each of them if it is working; then it waits for the zombies.  A zombie still
\* answers kill(0), so it takes two calls to notice the end of a process.
GonePids == {p \in pids : proc[p].state = "none"}

\* Mutant: it forgets the pids and leaves the requests alone.
WaitPids_OnlyForgets ==
  /\ pids' = pids \ GonePids
  /\ proc' = [p \in Pids |-> IF p \in GonePids THEN NoProcess
                             ELSE IF proc[p].state = "zombie"
                               THEN [proc[p] EXCEPT !.state = "none"]
                             ELSE proc[p]]
  /\ UNCHANGED requests

WaitPids ==
  /\ pids' = pids \ GonePids
  /\ proc' = [p \in Pids |-> IF p \in GonePids THEN NoProcess
                             ELSE IF proc[p].state = "zombie"
                               THEN [proc[p] EXCEPT !.state = "none"]
                             ELSE proc[p]]
  /\ requests' = [r \in Ids |->
       IF requests[r].status = "working" /\ \E p \in GonePids : proc[p].req = r
       THEN [requests[r] EXCEPT !.status = "done"]
       ELSE requests[r]]

Housekeeping ==
  /\ master = "idle"
  /\ WaitPids
  /\ master' = "stale"
  /\ UNCHANGED <<passVars, callers, crashes>>

\* stop() for some of the candidates: the ones whose start_time is old enough.
StopSome(candidates) ==
  \E victims \in SUBSET candidates :
    /\ requests' = Stopped(victims)
    /\ proc' = Killed(victims)

KillStaleProcess ==
  /\ master = "stale"
  /\ StopSome({r \in Ids : Pending(r) /\ Command(r) \in StaleCommands /\ requests[r].started})
  /\ master' = "dead"
  /\ UNCHANGED <<pids, passVars, callers, crashes>>

KillDeadProcess ==
  /\ master = "dead"
  /\ StopSome({r \in Ids : /\ requests[r].status = "working"
                           /\ requests[r].started
                           /\ Command(r) # "move_volume"
                           /\ requests[r].pid # NoPid
                           /\ proc[requests[r].pid].state = "none"})
  /\ master' = "timeout"
  /\ UNCHANGED <<pids, passVars, callers, crashes>>

\* The status 'stopping' lasts from here to stop(), in the same step.
TimeoutRequests ==
  /\ master = "timeout"
  /\ StopSome({r \in Ids : /\ requests[r].status = "working"
                           /\ requests[r].started
                           /\ Command(r) # "move_volume"
                           /\ Args[r].timeout})
  /\ master' = "fetch"
  /\ UNCHANGED <<pids, passVars, callers, crashes>>

-----------------------------------------------------------------------------
(* The master: which requests to execute.                                  *)

\* The daemon sleeps for what is left of a second before it starts another pass.
\* PromptChildren says that this is time enough for the children to begin.
FetchRequests ==
  /\ master \in {"idle", "fetch"}
  /\ PromptChildren => \A p \in Pids : proc[p].state # "forked"
  /\ PromptCallers => callers = {}
  /\ todo' = {r \in Ids : /\ requests[r].status \in {"requested", "retry", "waiting"}
                          /\ requests[r].at # "later"}
  /\ selected' = {}
  /\ seen' = {}
  /\ master' = "select"
  /\ UNCHANGED <<requests, proc, pids, current, callers, crashes>>

IsDone(r) == requests[r].status = "done"

\* A missing or done after_request is enough, but what after_request_ok says
\* replaces that answer.
\* Mutant: a requirement that is being executed is enough.
RequirementsDone_Working(r) ==
  \A o \in {requests[r].after_request, requests[r].after_request_ok} \ {NoRequest} :
    requests[o].status \in {"working", "done", "deleted"}

RequirementsDone(r) ==
  LET after == requests[r].after_request
      afterOk == requests[r].after_request_ok
  IN  CASE afterOk # NoRequest -> IsDone(afterOk) /\ ~ requests[afterOk].error
        [] afterOk = NoRequest /\ after # NoRequest -> IsDone(after) \/ ~ Exists(after)
        [] OTHER -> TRUE

\* Mutant: nobody tells a request that what it comes after failed.
RequirementFailed_Never(r) == FALSE

RequirementFailed(r) ==
  LET afterOk == requests[r].after_request_ok
  IN  afterOk # NoRequest /\ IsDone(afterOk) /\ requests[afterOk].error

\* The domain whose other requests matter: the one it is about, or its base.
LookupDomain(r) ==
  IF Args[r].id_domain # NoDomain THEN Args[r].id_domain ELSE Args[r].id_base

\* Mutant: only the requests that are coming back make the domain busy.
DomainWorking_OnlyRetry(r) ==
  /\ LookupDomain(r) # NoDomain
  /\ \E o \in Ids \ {r} : /\ Args[o].id_domain = LookupDomain(r)
                          /\ requests[o].status = "retry"

DomainWorking(r) ==
  /\ Command(r) # "list_cpu_models"
  /\ LookupDomain(r) # NoDomain
  /\ \E o \in Ids \ {r} : /\ Args[o].id_domain = LookupDomain(r)
                          /\ requests[o].status \in {"working", "retry"}
                          /\ Command(o) \notin Unobtrusive

SeenKey(r) == <<Args[r].id_domain, Command(r)>>

WasSeen(r) == Args[r].id_domain # NoDomain /\ SeenKey(r) \in seen

\* ORDER BY date_req: the oldest of the rows fetched, any of those of the same second.
IsOldest(r) == r \in todo /\ \A o \in todo : Args[r].date_req <= Args[o].date_req

PingBackend(r) ==
  /\ master = "select" /\ IsOldest(r)
  /\ Command(r) = "ping_backend"
  /\ Exists(r)
  /\ requests' = [requests EXCEPT ![r].status = "done"]
  /\ todo' = todo \ {r}
  /\ UNCHANGED <<proc, pids, master, selected, seen, current, callers, crashes>>

\* A requirement that failed passes its error on to the request.
FailRequest(r) ==
  /\ master = "select" /\ IsOldest(r)
  /\ Command(r) # "ping_backend"
  /\ Exists(r) /\ RequirementFailed(r)
  /\ requests' = [requests EXCEPT ![r] = [@ EXCEPT !.status = "done", !.error = TRUE]]
  /\ todo' = todo \ {r}
  /\ UNCHANGED <<proc, pids, master, selected, seen, current, callers, crashes>>

SelectRequest(r) ==
  /\ master = "select" /\ IsOldest(r)
  /\ Command(r) # "ping_backend"
  /\ Exists(r) /\ RequirementsDone(r)
  /\ seen' = IF Args[r].id_domain # NoDomain THEN seen \cup {SeenKey(r)} ELSE seen
  /\ selected' = IF WasSeen(r) \/ (Command(r) \notin ShutdownCommands /\ DomainWorking(r))
                 THEN selected ELSE selected \cup {r}
  /\ todo' = todo \ {r}
  /\ UNCHANGED <<requests, proc, pids, master, current, callers, crashes>>

SkipRequest(r) ==
  /\ master = "select" /\ IsOldest(r)
  /\ \/ ~ Exists(r)
     \/ /\ Command(r) # "ping_backend"
        /\ ~ RequirementsDone(r) /\ ~ RequirementFailed(r)
  /\ todo' = todo \ {r}
  /\ UNCHANGED <<requests, proc, pids, master, selected, seen, current, callers, crashes>>

EndSelect ==
  /\ master = "select" /\ todo = {}
  /\ master' = "check"
  /\ UNCHANGED <<requests, proc, pids, passVars, callers, crashes>>

-----------------------------------------------------------------------------
(* The master: executing the selected requests, by priority.               *)

ComesFirst(r) ==
  /\ r \in selected
  /\ \A o \in selected : \/ Priority(Command(r)) < Priority(Command(o))
                         \/ /\ Priority(Command(r)) = Priority(Command(o))
                            /\ Args[r].date_req <= Args[o].date_req

\* The status is read again, once: done or working requests are left alone.
CheckRequest(r) ==
  /\ master = "check" /\ ComesFirst(r)
  /\ selected' = selected \ {r}
  /\ IF requests[r].status \in {"done", "working"}
     THEN UNCHANGED <<master, current>>
     ELSE master' = "mark" /\ current' = r
  /\ UNCHANGED <<requests, proc, pids, todo, seen, callers, crashes>>

EndPass ==
  /\ master = "check" /\ selected = {}
  /\ master' = "idle"
  /\ seen' = {} /\ current' = NoRequest
  /\ UNCHANGED <<requests, proc, pids, todo, selected, callers, crashes>>

\* _stop_refresh makes way for the requests that users are waiting for.
StoppedRefresh(r) ==
  IF Command(r) \in {"clone", "start"}
  THEN {o \in Ids : requests[o].status = "working" /\ Command(o) \in RefreshCommands}
  ELSE {}

MarkWorking ==
  /\ master = "mark"
  /\ requests' = [Stopped(StoppedRefresh(current)) EXCEPT ![current] =
       [requests[current] EXCEPT !.status = IF @ = "waiting" THEN @ ELSE "working",
                                 !.started = TRUE,
                                 !.error = FALSE]]
  /\ proc' = Killed(StoppedRefresh(current))
  /\ master' = "reap"
  /\ UNCHANGED <<pids, passVars, callers, crashes>>

ReapBeforeFork ==
  /\ master = "reap"
  /\ WaitPids
  /\ master' = "fork"
  /\ UNCHANGED <<passVars, callers, crashes>>

Counted(t) == {p \in pids : /\ TypeOfRequest(proc[p].req) = t
                            /\ requests[proc[p].req].status # "done"}

\* Mutant: one too many.
CanFork_UpTo(r) == Cardinality(Counted(TypeOfRequest(r))) <= Limit[TypeOfRequest(r)]

CanFork(r) == Cardinality(Counted(TypeOfRequest(r))) < Limit[TypeOfRequest(r)]

\* The system gives a new process a pid that nobody remembers: the smallest such one.
IsFreePid(p) == /\ proc[p].state = "none"
                /\ p \notin pids
                /\ \A r \in Ids : requests[r].pid # p

Fork(p) ==
  /\ master = "fork"
  /\ CanFork(current)
  /\ IsFreePid(p)
  /\ \A q \in Pids : q < p => ~ IsFreePid(q)
  /\ proc' = [proc EXCEPT ![p] = [state |-> "forked", req |-> current, left |-> 0]]
  /\ pids' = pids \cup {p}
  /\ requests' = [requests EXCEPT ![current].pid = p]
  /\ master' = "check"
  /\ UNCHANGED <<passVars, callers, crashes>>

WaitForOthers ==
  /\ master = "fork"
  /\ ~ CanFork(current)
  /\ requests' = [requests EXCEPT ![current] =
       [@ EXCEPT !.status = "waiting", !.error = TRUE, !.at = "later"]]
  /\ master' = "check"
  /\ UNCHANGED <<proc, pids, passVars, callers, crashes>>

-----------------------------------------------------------------------------
(* The children: _do_execute_command.                                      *)

SetProcess(p, from, to, left) ==
  /\ proc[p].state = from
  /\ proc' = [proc EXCEPT ![p].state = to, ![p].left = left]
  /\ UNCHANGED <<pids, master, passVars, callers>>

ChildStep(p, from, to, left) == SetProcess(p, from, to, left) /\ UNCHANGED crashes

\* Mutant: the status that the master left is not changed.
ChildBegin_KeepsStatus(p) ==
  /\ ChildStep(p, "forked", "running", 0)
  /\ requests' = [requests EXCEPT ![proc[p].req].pid = p]

ChildBegin(p) ==
  /\ ChildStep(p, "forked", "running", 0)
  /\ requests' = [requests EXCEPT ![proc[p].req] =
       [@ EXCEPT !.status = "working", !.pid = p]]

\* The command returns, or dies with an error that is not to be retried.
Finished(row, failed) ==
  [row EXCEPT !.status = IF @ = "retry" THEN @ ELSE "done", !.error = @ \/ failed]

ChildFinish(p, failed) ==
  /\ ChildStep(p, "running", "ending", 0)
  /\ requests' = [requests EXCEPT ![proc[p].req] = Finished(requests[proc[p].req], failed)]

\* The command dies asking for a retry and the request has some left: the row is
\* requested again first, and only then delayed.
ChildAsksRetry(p) ==
  /\ proc[p].state = "running"
  /\ requests[proc[p].req].retry > 0
  /\ ChildStep(p, "running", "retrying", requests[proc[p].req].retry - 1)
  /\ requests' = [requests EXCEPT ![proc[p].req] =
       [@ EXCEPT !.status = "requested", !.error = TRUE]]

ChildReschedules(p) ==
  /\ ChildStep(p, "retrying", "ending", 0)
  /\ requests' = [requests EXCEPT ![proc[p].req] =
       [@ EXCEPT !.at = "later", !.retry = proc[p].left]]

\* prepare_base of an active domain asks for its shutdown and comes back after it.
\* Mutant: a retry that nobody defined is counted down.
Postponed_Undefined(row, s) ==
  [row EXCEPT !.status = IF row.retry = 0 THEN "done" ELSE "retry",
              !.error = TRUE, !.at = "later", !.after_request = s, !.retry = @ - 1]

Postponed(row, s) ==
  [row EXCEPT !.status = IF row.retry = 0 THEN "done" ELSE "retry",
              !.error = TRUE,
              !.at = "later",
              !.after_request = s,
              !.retry = IF @ = Undefined THEN PrepareBaseRetries
                        ELSE IF @ = 0 THEN @ ELSE @ - 1]

\* Nothing validates a shutdown, and this one comes after nothing.
ChildPostpones(p, s) ==
  /\ proc[p].state = "running"
  /\ Command(proc[p].req) = "prepare_base"
  /\ IsNextId(s)
  /\ Command(s) = "shutdown"
  /\ Args[s].id_domain = Args[proc[p].req].id_domain
  /\ Args[s].after_request = NoRequest /\ Args[s].after_request_ok = NoRequest
  /\ ChildStep(p, "running", "ending", 0)
  /\ requests' = [r \in Ids |->
       IF r = s THEN NewRow(s)
       ELSE IF r = proc[p].req THEN Postponed(requests[r], s)
       ELSE requests[r]]

ChildExit(p) ==
  /\ ChildStep(p, "ending", "zombie", 0)
  /\ UNCHANGED requests

\* The process dies before it is through, and nobody updates the row.
ChildDies(p) ==
  /\ proc[p].state \in {"forked", "running", "retrying"}
  /\ crashes < MaxCrashes
  /\ crashes' = crashes + 1
  /\ SetProcess(p, proc[p].state, "zombie", 0)
  /\ UNCHANGED requests

-----------------------------------------------------------------------------
(* The daemon dies, systemd stops what it forked, and starts it again.     *)

Crash ==
  /\ master # "down"
  /\ crashes < MaxCrashes
  /\ crashes' = crashes + 1
  /\ master' = "down"
  /\ proc' = [p \in Pids |-> NoProcess]
  /\ pids' = {}
  /\ todo' = {} /\ selected' = {} /\ seen' = {} /\ current' = NoRequest
  /\ UNCHANGED <<requests, callers>>

\* clean_old_requests: nothing is left half way, and nothing is tried again.
\* Mutant: only the requests that wait are cleaned.
Restart_KeepsWorking ==
  /\ master = "down"
  /\ master' = "idle"
  /\ requests' = [r \in Ids |->
       IF requests[r].status \in {"waiting", "retry"}
       THEN [requests[r] EXCEPT !.status = "done"]
       ELSE requests[r]]
  /\ UNCHANGED <<proc, pids, passVars, callers, crashes>>

Restart ==
  /\ master = "down"
  /\ master' = "idle"
  /\ requests' = [r \in Ids |->
       IF requests[r].status \in {"working", "waiting", "retry"}
         THEN [requests[r] EXCEPT !.status = "done"]
       ELSE IF requests[r].status = "requested" /\ Command(r) \in DeletedAtRestart
         THEN [requests[r] EXCEPT !.status = "deleted"]
       ELSE requests[r]]
  /\ UNCHANGED <<proc, pids, passVars, callers, crashes>>

-----------------------------------------------------------------------------
SelectStep(r) == PingBackend(r) \/ FailRequest(r) \/ SelectRequest(r) \/ SkipRequest(r)

MasterStep ==
  \/ KillStaleProcess \/ KillDeadProcess \/ TimeoutRequests \/ FetchRequests
  \/ \E r \in Ids : SelectStep(r) \/ CheckRequest(r)
  \/ EndSelect \/ EndPass \/ MarkWorking \/ ReapBeforeFork \/ WaitForOthers
  \/ \E p \in Pids : Fork(p)
  \/ Restart

ChildProgress(p) ==
  \/ ChildBegin(p)
  \/ \E failed \in BOOLEAN : ChildFinish(p, failed)
  \/ ChildAsksRetry(p)
  \/ ChildReschedules(p)
  \/ \E s \in Ids : ChildPostpones(p, s)
  \/ ChildExit(p)

Next ==
  \/ \E r \in Ids : NewRequest(r) \/ TimePasses(r)
  \/ \E r \in Ids, denied \in BOOLEAN : ValidateRequest(r, denied)
  \/ Housekeeping
  \/ MasterStep
  \/ \E p \in Pids : ChildProgress(p) \/ ChildDies(p)
  \/ Crash

Spec == Init /\ [][Next]_vars

\* The master loops for ever and does its housekeeping every minute; a command
\* that was forked comes to an end; time passes.  Nobody has to insert a request,
\* and nothing has to die.
Fairness ==
  /\ WF_vars(MasterStep)
  /\ SF_vars(Housekeeping)
  /\ \A p \in Pids : WF_vars(ChildProgress(p))
  /\ \A r \in Ids : WF_vars(TimePasses(r))
  /\ \A r \in Ids : WF_vars(\E denied \in BOOLEAN : ValidateRequest(r, denied))

FairSpec == Spec /\ Fairness

-----------------------------------------------------------------------------
(* What should hold.                                                       *)

Executing(p) == proc[p].state \in {"forked", "running"}
IsExecuted(r) == \E p \in Pids : Executing(p) /\ proc[p].req = r

\* The master has decided to execute current and has not forked for it.
AboutToFork == master \in {"mark", "reap", "fork"}

\* A request is not done while a process executes it or the daemon is about to fork
\* for it: _can_fork does not count it then, and what comes after it would start
\* (stop, _wait_pids, clean_old_requests).
NotDoneEarly ==
  /\ \A p \in Pids : Executing(p) => ~ IsDone(proc[p].req)
  /\ AboutToFork => ~ IsDone(current)

\* A request is never left working for ever: while the table says it is, the daemon
\* is down, or about to fork for it, or still has the pid of a process forked for it,
\* whose end it is going to notice (_execute, _wait_pids, clean_old_requests).
WorkingIsTracked ==
  \A r \in Ids : requests[r].status = "working" =>
    \/ master = "down"
    \/ current = r /\ master \in {"reap", "fork"}
    \/ \E p \in pids : proc[p].req = r

\* Requests of a type never have more processes than the limit of the type
\* (_can_fork counts pids and not rows; requests_limit).
LimitRespected ==
  \A t \in Types :
    Cardinality({p \in Pids : Executing(p) /\ TypeOfRequest(proc[p].req) = t}) <= Limit[t]

\* No two processes execute the same request (process_requests may fetch again a
\* row that it executed in the pass before).
OneProcessPerRequest ==
  \A p, q \in Pids :
    Executing(p) /\ Executing(q) /\ proc[p].req = proc[q].req => p = q

\* Two requests with the same command about the same domain never execute at the
\* same time (%duplicated within a pass, _domain_working between passes), but for
\* the commands that _domain_working does not count or lets pass.
SameCommandExclusive ==
  \A p, q \in Pids :
    LET a == proc[p].req
        b == proc[q].req
    IN  /\ Executing(p) /\ Executing(q) /\ a # b
        /\ Command(a) = Command(b)
        /\ Command(a) \notin ShutdownCommands \cup Unobtrusive \cup {"list_cpu_models"}
        => Args[a].id_domain = NoDomain \/ Args[a].id_domain # Args[b].id_domain

\* A request executes only after the request it was told to come after completed:
\* it is done and no process executes it (requirements_done).
DependencyRespected ==
  \A p \in Pids : Executing(p) =>
    LET o == requests[proc[p].req].after_request
    IN  o # NoRequest => requests[o].status \in {"done", "deleted"} /\ ~ IsExecuted(o)

\* The requests that change one domain and wait in line for each other.
InLine(a, b) ==
  /\ a < b
  /\ {Command(a), Command(b)} \subseteq Hardware \cup {"move_volume"}
  /\ Args[a].id_domain # NoDomain
  /\ Args[a].id_domain = Args[b].id_domain

\* A hardware change that has to wait for others of its domain is told to come after the
\* last of them (_validate_change_hardware).
HardwareInLine ==
  \A a, b \in Ids :
    InLine(a, b) /\ Pending(a) /\ Pending(b) /\ b \notin callers =>
      requests[b].after_request >= a

\* Hardware changes of a domain execute in the order in which they were asked for, one
\* at a time (_validate_change_hardware, requirements_done).
HardwareInOrder ==
  \A p \in Pids : Executing(p) =>
    \A a \in Ids : InLine(a, proc[p].req) => IsDone(a) /\ ~ IsExecuted(a)

\* The queue as those who insert requests see it.
JobOf(r) ==
  IF requests[r].status = "absent" \/ r \in callers THEN "new"
  ELSE IF requests[r].status = "working" \/ IsExecuted(r) THEN "running"
  ELSE IF requests[r].status \in {"done", "deleted"} THEN "over"
  ELSE "pending"

DepOf(r) == {requests[r].after_request, requests[r].after_request_ok} \ {NoRequest}

Queue == INSTANCE JobQueue WITH
  Jobs <- Ids,
  job <- [r \in Ids |-> JobOf(r)],
  dep <- [r \in Ids |-> DepOf(r)]

\* The queue keeps the promises of JobQueue: no request starts before those it comes
\* after are over, and a request that is over is never executed again.
KeepsPromises == Queue!Spec

\* Every request that was inserted is done in the end, or deleted by a restart:
\* whatever it waits for, whoever it competes with, and however often the daemon or
\* a process dies (process_requests, _wait_pids, clean_old_requests).
EventuallyDone ==
  \A r \in Ids : Exists(r) ~> requests[r].status \in {"done", "deleted"}
=============================================================================
