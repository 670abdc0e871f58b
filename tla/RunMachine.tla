----------------------------- MODULE RunMachine -----------------------------
(***************************************************************************)
(* The page that waits for a machine to start: controller                  *)
(* "run_domain_req", run_domain_req_ctrl in public/js/ravada.js, with the  *)
(* template main/run_request.html.ep.                                      *)
(*                                                                         *)
(* The page opens a websocket for the request that starts or clones the    *)
(* machine, and from the request learns which machine it has to listen to. *)
(* A clone request names its base first and the clone once it exists, so   *)
(* the page may listen to the base and has to notice.  Every websocket     *)
(* that closes arms a timer of five seconds; after it the page offers to   *)
(* connect again.  When the machine is up and has nothing pending the page *)
(* opens the viewer and ends the session later.                            *)
(***************************************************************************)
EXTENDS Integers, Sequences, FiniteSets

CONSTANTS
    NewClone,    \* the machine a clone request makes
    WithPorts,   \* the machines that have ports to expose
    AutoView,    \* the machines whose viewer opens by itself
    Nil,         \* JavaScript's undefined
    MaxSockets,  \* bound: see RequestMessage and BaseMessage
    MaxTroubles  \* bound: websockets lost, machine down and ports reopened,
                 \* all together

VARIABLES
    page,        \* the page the browser shows: [at, machine]
    req,         \* the request at the server: [status, id_domain, error]
    machine,     \* the machine that starts, at the server
    sockets,     \* the open websockets: [channel, wire, said]
    timers,      \* timers of ws.onclose that run
    lost,        \* $scope.ws_connection_lost
    posts,       \* posts about ports under way: [what, taken]
    scope,       \* the other fields of $scope and of the controller
    bounds       \* the troubles so far, of each kind

vars == <<page, req, machine, sockets, timers, lost, posts, scope, bounds>>

Opened == page.at \in {"run", "clone"} /\ req # Nil
Runs == IF page.at = "clone" THEN NewClone ELSE page.machine

Socket(channel) == [channel |-> channel, wire |-> Nil, said |-> FALSE]
NewScope ==
    [request |-> Nil, domain |-> Nil, already_subscribed |-> FALSE,
     already_refreshed |-> FALSE,
     open_ports |-> FALSE, open_ports_done |-> FALSE,
     redirect_time |-> 1, redirect_done |-> FALSE, redirected_display |-> FALSE]
NewBounds == [losses |-> 0, reopens |-> 0, downs |-> 0]
Room == bounds.losses + bounds.reopens + bounds.downs < MaxTroubles

(* Before the browser loads the page.                                      *)
Unloaded ==
    /\ req = Nil /\ machine = [is_active |-> FALSE, requests |-> 0, ip |-> FALSE]
    /\ sockets = <<>> /\ timers = 0 /\ lost = FALSE /\ posts = {}
    /\ scope = NewScope /\ bounds = NewBounds

Unload ==
    /\ req' = Nil /\ machine' = [is_active |-> FALSE, requests |-> 0, ip |-> FALSE]
    /\ sockets' = <<>> /\ timers' = 0 /\ lost' = FALSE /\ posts' = {}
    /\ scope' = NewScope /\ bounds' = NewBounds

(* The front end creates the request and the page subscribes to it.        *)
Load(id) ==
    /\ req' = [status |-> "requested", id_domain |-> id, error |-> Nil]
    /\ machine' = [is_active |-> FALSE, requests |-> 1, ip |-> FALSE]
    /\ sockets' = <<Socket("request")>>
    /\ timers' = 0 /\ lost' = FALSE /\ posts' = {}
    /\ scope' = NewScope
    /\ bounds' = NewBounds

(***************************************************************************)
(* The server: the request, and the machine.                               *)
(***************************************************************************)
ServerOnly == UNCHANGED <<page, sockets, timers, lost, posts, scope>>

RequestWorks ==
    /\ Opened /\ req.status = "requested"
    /\ req' = [req EXCEPT !.status = "working"]
    /\ ServerOnly /\ UNCHANGED <<machine, bounds>>

(* _cmd_clone: the request takes the clone as its machine.                 *)
RequestMakesClone ==
    /\ Opened /\ page.at = "clone" /\ req.status = "working"
    /\ req.id_domain # NewClone
    /\ req' = [req EXCEPT !.id_domain = NewClone]
    /\ ServerOnly /\ UNCHANGED <<machine, bounds>>

(* Done, or done with an error: the machine is unknown or did not start.   *)
RequestDone ==
    /\ Opened /\ req.status = "working"
    /\ \/ /\ req.id_domain = Runs
          /\ page.at = "run" => machine.is_active
          /\ req' = [req EXCEPT !.status = "done"]
       \/ /\ ~machine.is_active
          /\ \E e \in {"unknown", "failed"} :
                req' = [req EXCEPT !.status = "done", !.error = e]
    /\ machine' = [machine EXCEPT !.requests = IF req'.error = Nil THEN @ ELSE 0]
    /\ ServerOnly /\ UNCHANGED bounds

(* The machine starts by the request, or by the one that a clone request   *)
(* leaves behind it.                                                       *)
MachineUp ==
    /\ Opened /\ ~machine.is_active /\ req.error = Nil
    /\ req.status = IF page.at = "clone" THEN "done" ELSE "working"
    /\ req.id_domain = Runs
    /\ machine' = [machine EXCEPT !.is_active = TRUE]
    /\ ServerOnly /\ UNCHANGED <<req, bounds>>

MachineDown ==
    /\ Opened /\ machine.is_active /\ req.status = "done"
    /\ Room
    /\ bounds' = [bounds EXCEPT !.downs = @ + 1]
    /\ machine' = [machine EXCEPT !.is_active = FALSE, !.ip = FALSE]
    /\ ServerOnly /\ UNCHANGED req

MachineGetsIp ==
    /\ Opened /\ machine.is_active /\ ~machine.ip
    /\ machine' = [machine EXCEPT !.ip = TRUE]
    /\ ServerOnly /\ UNCHANGED <<req, bounds>>

(* The requests of the machine, the start one among them, are done.        *)
MachineIdle ==
    /\ Opened /\ machine.requests > 0
    /\ machine.is_active \/ bounds.downs > 0
    /\ req.status = "done"
    /\ machine' = [machine EXCEPT !.requests = 0]
    /\ ServerOnly /\ UNCHANGED <<req, bounds>>

(***************************************************************************)
(* The websockets.                                                         *)
(***************************************************************************)
IsBase(id) == id # Runs

(* The server answers a subscription, then again every few seconds or when *)
(* the machine changes.  An answer about the machine may be old when it    *)
(* arrives: it is read by ServerSends and handled by MachineMessage.       *)
ServerSends(i) ==
    /\ Opened /\ sockets[i].channel = Runs /\ sockets[i].wire = Nil
    /\ sockets' = [sockets EXCEPT ![i].wire = machine]
    /\ UNCHANGED <<page, req, machine, timers, lost, posts, scope, bounds>>

(* ws.onmessage of subscribe_request.  While a clone is being made each    *)
(* answer about the base makes the page open one more websocket: beyond    *)
(* MaxSockets of them a request that still names the base is not heard.    *)
RequestMessage(i) ==
    /\ Opened /\ sockets[i].channel = "request"
    /\ IsBase(req.id_domain) => Len(sockets) < MaxSockets
    /\ scope' = [scope EXCEPT !.request = req,
                              !.domain = IF req.error = "unknown" THEN Nil ELSE @,
                              !.already_subscribed = TRUE]
    /\ sockets' = IF scope.already_subscribed THEN sockets
                  ELSE Append(sockets, Socket(req.id_domain))
    /\ UNCHANGED <<page, req, machine, timers, lost, posts, bounds>>

(* What every message about a machine ends with: the ports are ready if    *)
(* they were asked for and nothing is pending, and from the third message  *)
(* on that finds the machine ready the page redirects, with the viewer if  *)
(* there is one and no port.                                               *)
Settled(s) ==
    LET d == s.domain
        ready == d # Nil /\ d.is_active /\ s.request.status = "done" /\ d.requests = 0
        now == ready /\ s.redirect_time < 0
    IN  [s EXCEPT !.open_ports_done = @ \/ (d # Nil /\ s.open_ports /\ d.ip /\ d.requests = 0),
                  !.redirect_time = IF ready /\ @ >= 0 THEN @ - 1 ELSE @,
                  !.redirect_done = @ \/ now,
                  !.redirected_display = @ \/ (now /\ Runs \in AutoView \ WithPorts)]

\* Mutant: the page that heard of the base does not subscribe again.
BaseMessage_StaysSubscribed(i) ==
    /\ Opened /\ sockets[i].channel # "request" /\ IsBase(sockets[i].channel)
    /\ Len(sockets) < MaxSockets \/ ~sockets[i].said
    /\ scope' = Settled(scope)
    /\ sockets' = [sockets EXCEPT ![i].said = TRUE]
    /\ UNCHANGED <<page, req, machine, timers, lost, posts, bounds>>

(* ws.onmessage of subscribe_domain_info about a base: the request will    *)
(* name the clone, subscribe again then.                                   *)
BaseMessage(i) ==
    /\ Opened /\ sockets[i].channel # "request" /\ IsBase(sockets[i].channel)
    /\ Len(sockets) < MaxSockets \/ ~sockets[i].said
    /\ scope' = Settled([scope EXCEPT !.already_subscribed = FALSE])
    /\ sockets' = [sockets EXCEPT ![i].said = TRUE]
    /\ UNCHANGED <<page, req, machine, timers, lost, posts, bounds>>

(* ... and about the machine: the first one opens its ports.               *)
MachineMessage(i) ==
    /\ Opened /\ sockets[i].wire # Nil
    /\ scope' = Settled([scope EXCEPT !.domain = sockets[i].wire,
                                      !.already_refreshed = TRUE])
    /\ posts' = IF scope.already_refreshed \/ Runs \notin WithPorts THEN posts
                ELSE posts \cup {[what |-> "open", taken |-> FALSE]}
    /\ sockets' = [sockets EXCEPT ![i].wire = Nil]
    /\ UNCHANGED <<page, req, machine, timers, lost, bounds>>

\* Mutant: a websocket that closes arms no timer.
SocketCloses_Untold(i) ==
    /\ Opened /\ Room
    /\ bounds' = [bounds EXCEPT !.losses = @ + 1]
    /\ sockets' = SubSeq(sockets, 1, i - 1) \o SubSeq(sockets, i + 1, Len(sockets))
    /\ UNCHANGED <<page, req, machine, timers, lost, posts, scope>>

(* The network or the server closes a websocket: what was on its way is    *)
(* lost, and five seconds later the page says so.                          *)
SocketCloses(i) ==
    /\ Opened /\ Room
    /\ bounds' = [bounds EXCEPT !.losses = @ + 1]
    /\ sockets' = SubSeq(sockets, 1, i - 1) \o SubSeq(sockets, i + 1, Len(sockets))
    /\ timers' = timers + 1
    /\ UNCHANGED <<page, req, machine, lost, posts, scope>>

CloseTimer ==
    /\ Opened /\ timers > 0
    /\ timers' = timers - 1
    /\ lost' = TRUE
    /\ UNCHANGED <<page, req, machine, sockets, posts, scope, bounds>>

(* 'connect again', subscribe_all: the request is subscribed again, and    *)
(* the machine with its first answer.  The websockets still open stay so.  *)
ConnectAgain ==
    /\ Opened /\ lost
    /\ lost' = FALSE
    /\ scope' = [scope EXCEPT !.already_subscribed = FALSE]
    /\ sockets' = Append(sockets, Socket("request"))
    /\ UNCHANGED <<page, req, machine, timers, posts, bounds>>

(***************************************************************************)
(* The ports: a chain of posts, each sent when the one before is answered. *)
(***************************************************************************)
After == [open |-> "refresh", close |-> "reopen"]

ServerTakes(p) ==
    /\ Opened /\ ~p.taken
    /\ posts' = (posts \ {p}) \cup {[p EXCEPT !.taken = TRUE]}
    /\ machine' = [machine EXCEPT !.requests = 1]
    /\ UNCHANGED <<page, req, sockets, timers, lost, scope, bounds>>

(* refresh_ports and reload_ports: the last answer of the chain shows the  *)
(* ports; reload_ports waits for them from then on.                        *)
Answered(p) ==
    /\ Opened /\ p.taken
    /\ posts' = (posts \ {p}) \cup (IF p.what \in DOMAIN After
                                    THEN {[what |-> After[p.what], taken |-> FALSE]} ELSE {})
    /\ scope' = IF p.what \in DOMAIN After THEN scope
                ELSE [scope EXCEPT !.open_ports = TRUE,
                                   !.open_ports_done = @ /\ p.what # "reopen"]
    /\ UNCHANGED <<page, req, machine, sockets, timers, lost, bounds>>

(* A post that fails ends its chain.                                       *)
PostFails(p) ==
    /\ Opened
    /\ posts' = posts \ {p}
    /\ UNCHANGED <<page, req, machine, sockets, timers, lost, scope, bounds>>

(* 'reopen', reload_ports, shown when the ports are and nothing is pending.*)
ReloadPorts ==
    /\ Opened /\ Room
    /\ scope.open_ports /\ scope.domain # Nil /\ scope.domain.requests = 0
    /\ bounds' = [bounds EXCEPT !.reopens = @ + 1]
    /\ scope' = [scope EXCEPT !.open_ports_done = FALSE, !.redirect_time = 2,
                              !.domain.requests = -1]
    /\ posts' = posts \cup {[what |-> "close", taken |-> FALSE]}
    /\ UNCHANGED <<page, req, machine, sockets, timers, lost>>

(* redirect: the session ends $scope.timeout later.                        *)
Logout ==
    /\ Opened /\ scope.redirect_done
    /\ page' = [at |-> "logout", machine |-> Nil]
    /\ UNCHANGED <<req, machine, sockets, timers, lost, posts, scope, bounds>>

-----------------------------------------------------------------------------
Server == \/ RequestWorks \/ RequestMakesClone \/ RequestDone
          \/ MachineUp \/ MachineDown \/ MachineGetsIp \/ MachineIdle
Message(i) == RequestMessage(i) \/ BaseMessage(i) \/ MachineMessage(i)

Next == \/ Server
        \/ \E i \in DOMAIN sockets : ServerSends(i) \/ Message(i) \/ SocketCloses(i)
        \/ CloseTimer \/ ConnectAgain
        \/ \E p \in posts : ServerTakes(p) \/ Answered(p) \/ PostFails(p)
        \/ ReloadPorts \/ Logout

(* The daemon works on requests, the server answers every subscription     *)
(* again and again, and the browser runs its handlers and its timers.      *)
(* Nobody owes the machine to stay up or the user to connect again.        *)
MaxOpen == MaxSockets + 2 * MaxTroubles + 3
Fairness ==
    /\ WF_vars(RequestWorks \/ RequestMakesClone \/ RequestDone)
    /\ WF_vars(MachineUp) /\ WF_vars(MachineIdle)
    /\ \A i \in 1..MaxOpen : WF_vars(i \in DOMAIN sockets /\ (ServerSends(i) \/ Message(i)))
    /\ WF_vars(CloseTimer)
    /\ WF_vars(\E p \in posts : ServerTakes(p) \/ Answered(p))
-----------------------------------------------------------------------------
Listens(channel) == \E i \in DOMAIN sockets : sockets[i].channel = channel

(* A machine that starts and stays up is noticed: the page gets from the   *)
(* request, through the base of a clone, to the machine itself, and ends   *)
(* by redirecting, unless it lost a connection and says so.                *)
StartIsNoticed == <>[](Opened /\ ~lost /\ machine.is_active) => <>scope.redirect_done

(* A page that shows no loss listens: to the request and, when the request *)
(* names it, to the machine.                                               *)
ListensOrTells ==
    <>[](Opened /\ ~lost)
        => <>[](Listens("request") /\ (req.id_domain = Runs => Listens(Runs)))
=============================================================================
