----------------------------- MODULE NodesPage -----------------------------
(***************************************************************************)
(* The page of the nodes: controller "manage_nodes", manage_nodes in       *)
(* public/js/admin.js, with the template main/admin_nodes.html.ep and the  *)
(* routes /node/ of script/rvd_front.                                      *)
(*                                                                         *)
(* The list of nodes is asked for every thirty seconds and after most      *)
(* operations, but not while modal_open says that a dialog is open; lists  *)
(* that are on their way are shown all the same.  A node is checked with a *)
(* request that the page asks about until it is done.                      *)
(***************************************************************************)
EXTENDS Integers, Sequences, FiniteSets, SequencesExt

CONSTANTS
    Nodes,       \* the nodes that are not local
    WithMachines,\* those of Nodes that have machines
    Nil,         \* JavaScript's undefined
    MaxEvents,   \* bound: the user clicks or a node changes by itself
    MaxLoads     \* bound: lists on their way when the interval asks for one

VARIABLES
    page,        \* the page the browser shows: [at]
    vms,         \* the nodes at the server: [here, enabled, is_active]
    work,        \* requests of the daemon not done yet: [what, id, click]
    nodes,       \* $scope.nodes, or Nil
    modal_open,  \* $scope.modal_open
    asks,        \* the node whose dialog about disabling is on the screen
    posts,       \* operations not answered yet: [what, id, click, done]
    loads,       \* lists on their way, what the server read or Nil before it
    id_req, request,  \* $scope.id_req and the status in $scope.request
    polls,       \* questions about requests: [at, id]
    poll_failed, \* since the last click on connect, an answer to one failed
    events

vars == <<page, vms, work, nodes, modal_open, asks, posts, loads, id_req, request,
          polls, poll_failed, events>>
ServerVars == <<vms, work>>
ShownVars == <<nodes, modal_open, asks>>
CheckVars == <<id_req, request, polls, poll_failed>>

Opened == page.at = "nodes"

(***************************************************************************)
(* The server.                                                             *)
(***************************************************************************)

(* A node goes down or comes up by itself.                                 *)
NodeChanges(id) ==
    /\ Opened /\ events < MaxEvents
    /\ events' = events + 1
    /\ vms' = [vms EXCEPT ![id].is_active = ~@]
    /\ UNCHANGED <<page, work, ShownVars, posts, loads, CheckVars>>

(* The routes: enable, disable and remove change the row, the others ask   *)
(* the daemon.                                                             *)
ServerDoes(p) ==
    /\ Opened /\ ~p.done
    /\ posts' = (posts \ {p}) \cup {[p EXCEPT !.done = TRUE]}
    /\ vms' = CASE p.what = "enable" -> [vms EXCEPT ![p.id].enabled = TRUE]
                [] p.what = "disable" -> [vms EXCEPT ![p.id].enabled = FALSE]
                [] p.what = "remove" -> [vms EXCEPT ![p.id].here = FALSE]
                [] OTHER -> vms
    /\ work' = IF p.what \in {"start", "shutdown", "connect"}
               THEN work \cup {[what |-> p.what, id |-> p.id, click |-> p.click]} ELSE work
    /\ UNCHANGED <<page, ShownVars, loads, CheckVars, events>>

(* A start may fail; a connection finds the node as it is.                 *)
DaemonDoes(w) ==
    /\ Opened
    /\ work' = work \ {w}
    /\ \E up \in BOOLEAN :
          /\ w.what = "shutdown" => ~up
          /\ w.what = "connect" => up = vms[w.id].is_active
          /\ vms' = [vms EXCEPT ![w.id].is_active = up]
    /\ UNCHANGED <<page, ShownVars, posts, loads, CheckVars, events>>

(***************************************************************************)
(* The list.                                                               *)
(***************************************************************************)
ListNodes(modal) == loads' = IF modal THEN loads ELSE Append(loads, Nil)

\* Mutant: a timer instead of an interval.
Interval_Once ==
    /\ Opened /\ ~modal_open /\ Len(loads) < MaxLoads /\ nodes = Nil
    /\ ListNodes(modal_open)
    /\ UNCHANGED <<page, ServerVars, ShownVars, posts, CheckVars, events>>

Interval ==
    /\ Opened /\ ~modal_open /\ Len(loads) < MaxLoads
    /\ ListNodes(modal_open)
    /\ UNCHANGED <<page, ServerVars, ShownVars, posts, CheckVars, events>>

ServerLists(i) ==
    /\ Opened /\ loads[i] = Nil
    /\ loads' = [loads EXCEPT ![i] = vms]
    /\ UNCHANGED <<page, ServerVars, ShownVars, posts, CheckVars, events>>

(* Every card is made again, and the dialog with it.                       *)
Shows(i) ==
    /\ Opened /\ loads[i] # Nil
    /\ nodes' = loads[i]
    /\ asks' = Nil
    /\ loads' = RemoveAt(loads, i)
    /\ UNCHANGED <<page, ServerVars, modal_open, posts, CheckVars, events>>

LoadFails(i) ==
    /\ Opened
    /\ loads' = RemoveAt(loads, i)
    /\ UNCHANGED <<page, ServerVars, ShownVars, posts, CheckVars, events>>

(***************************************************************************)
(* The buttons of a node.                                                  *)
(***************************************************************************)
Click(id) == /\ Opened /\ events < MaxEvents /\ events' = events + 1
             /\ nodes # Nil /\ nodes[id].here
Get(what, id) == posts' = posts \cup {[what |-> what, id |-> id, click |-> events', done |-> FALSE]}

(* node_enable, node_start and node_shutdown.                              *)
Operate(what, id) ==
    /\ Click(id) /\ asks = Nil
    /\ CASE what = "enable" -> ~nodes[id].enabled
         [] what = "start" -> ~nodes[id].is_active
         [] what = "shutdown" -> nodes[id].is_active
    /\ modal_open' = FALSE
    /\ Get(what, id)
    /\ UNCHANGED <<page, ServerVars, nodes, asks, loads, CheckVars>>

(* confirm_disable_node: at once, or with the dialog.                      *)
ConfirmDisableNode(id) ==
    /\ Click(id) /\ asks = Nil /\ nodes[id].enabled
    /\ IF id \in WithMachines
       THEN modal_open' = TRUE /\ asks' = id /\ UNCHANGED posts
       ELSE modal_open' = FALSE /\ Get("disable", id) /\ UNCHANGED asks
    /\ UNCHANGED <<page, ServerVars, nodes, loads, CheckVars>>

DisableYes ==
    /\ asks # Nil /\ Click(asks)
    /\ modal_open' = FALSE /\ asks' = Nil
    /\ Get("disable", asks)
    /\ UNCHANGED <<page, ServerVars, nodes, loads, CheckVars>>

(* No, the cross and Escape: "modal_open=false" of the button sets a       *)
(* variable of the card's own scope, the one of the page stays.            *)
DisableNo ==
    /\ asks # Nil /\ Click(asks)
    /\ asks' = Nil
    /\ UNCHANGED <<page, ServerVars, nodes, modal_open, posts, loads, CheckVars>>

(* node_remove: the list is asked for without waiting for the answer.      *)
NodeRemove(id) ==
    /\ Click(id) /\ asks = Nil /\ id \notin WithMachines
    /\ Get("remove", id)
    /\ ListNodes(modal_open)
    /\ UNCHANGED <<page, ServerVars, ShownVars, CheckVars>>

NodeConnect(id) ==
    /\ Click(id) /\ asks = Nil
    /\ id_req' = Nil /\ request' = Nil /\ poll_failed' = FALSE
    /\ Get("connect", id)
    /\ UNCHANGED <<page, ServerVars, ShownVars, loads, polls>>

(* The answer: the list again; or the identifier of the request, to be     *)
(* asked for in two seconds.                                               *)
Answered(p) ==
    /\ Opened /\ p.done
    /\ posts' = posts \ {p}
    /\ IF p.what = "connect"
       THEN /\ id_req' = p.click
            /\ polls' = polls \cup {[at |-> "timer", id |-> p.click]}
            /\ UNCHANGED loads
       ELSE /\ IF p.what = "remove" THEN UNCHANGED loads ELSE ListNodes(modal_open)
            /\ UNCHANGED <<id_req, polls>>
    /\ UNCHANGED <<page, ServerVars, ShownVars, request, poll_failed, events>>

(* Nothing catches a failure, of the operation or of its answer.           *)
GetFails(p) ==
    /\ Opened
    /\ posts' = posts \ {p}
    /\ UNCHANGED <<page, ServerVars, ShownVars, loads, CheckVars, events>>

(* The timer asks about the request of $scope, which may be another one    *)
(* now or none: then the answer is an error.                               *)
PollTimer(q) ==
    /\ Opened /\ q.at = "timer"
    /\ polls' = (polls \ {q}) \cup (IF id_req = Nil THEN {} ELSE {[at |-> "asked", id |-> id_req]})
    /\ UNCHANGED <<page, ServerVars, ShownVars, posts, loads, id_req, request, poll_failed, events>>

\* Mutant: it asks once.
PollAnswered_Once(q) ==
    /\ Opened /\ q.at = "asked"
    /\ request' = IF \E w \in work : w.what = "connect" /\ w.click = q.id
                  THEN "requested" ELSE "done"
    /\ polls' = polls \ {q} /\ ListNodes(modal_open)
    /\ UNCHANGED <<page, ServerVars, ShownVars, posts, id_req, poll_failed, events>>

(* fetch_request: asks again in three seconds until the request is done.   *)
PollAnswered(q) ==
    /\ Opened /\ q.at = "asked"
    /\ IF \E w \in work : w.what = "connect" /\ w.click = q.id
       THEN request' = "requested" /\ UNCHANGED <<polls, loads>>
       ELSE request' = "done" /\ polls' = polls \ {q} /\ ListNodes(modal_open)
    /\ UNCHANGED <<page, ServerVars, ShownVars, posts, id_req, poll_failed, events>>

(* Nor of the question: the page asks no more.                             *)
PollFails(q) ==
    /\ Opened /\ q.at = "asked"
    /\ polls' = polls \ {q}
    /\ poll_failed' = TRUE
    /\ UNCHANGED <<page, ServerVars, ShownVars, posts, loads, id_req, request, events>>

-----------------------------------------------------------------------------
Row == [here |-> TRUE, enabled |-> TRUE, is_active |-> TRUE]
Unloaded ==
    /\ vms = [id \in Nodes |-> Row] /\ work = {}
    /\ nodes = Nil /\ modal_open = FALSE /\ asks = Nil
    /\ posts = {} /\ loads = <<>> /\ id_req = Nil /\ request = Nil /\ polls = {}
    /\ poll_failed = FALSE /\ events = 0

(* The script begins, or is gone: list_nodes at the end of the controller. *)
Begins(asked) ==
    /\ vms' = [id \in Nodes |-> Row] /\ work' = {}
    /\ nodes' = Nil /\ modal_open' = FALSE /\ asks' = Nil
    /\ posts' = {} /\ loads' = asked /\ id_req' = Nil /\ request' = Nil /\ polls' = {}
    /\ poll_failed' = FALSE /\ events' = 0
Load == Begins(<<Nil>>)
Unload == Begins(<<>>)

Buttons == \/ \E id \in Nodes : \/ \E what \in {"enable", "start", "shutdown"} : Operate(what, id)
                                \/ ConfirmDisableNode(id) \/ NodeRemove(id) \/ NodeConnect(id)
           \/ DisableYes \/ DisableNo
Lists(i) == ServerLists(i) \/ Shows(i)
Next ==
    \/ \E id \in Nodes : NodeChanges(id)
    \/ \E p \in posts : ServerDoes(p) \/ Answered(p) \/ GetFails(p)
    \/ \E w \in work : DaemonDoes(w)
    \/ Interval
    \/ \E i \in DOMAIN loads : Lists(i) \/ LoadFails(i)
    \/ Buttons
    \/ \E q \in polls : PollTimer(q) \/ PollAnswered(q) \/ PollFails(q)

(* The daemon works, the server answers and the timers of the browser run. *)
(* Anything that is asked of the server may fail, lists now and then.      *)
Fairness ==
    /\ WF_vars(\E p \in posts : ServerDoes(p) \/ Answered(p))
    /\ WF_vars(\E w \in work : DaemonDoes(w))
    /\ WF_vars(Interval) /\ SF_vars(\E i \in DOMAIN loads : ServerLists(i))
    /\ SF_vars(\E i \in DOMAIN loads : Shows(i))
    /\ \A n \in 1..MaxEvents :
          WF_vars(\E q \in polls : q.id = n /\ (PollTimer(q) \/ PollAnswered(q)))
-----------------------------------------------------------------------------
(* A page without a dialog comes to show the nodes as they are, whatever   *)
(* order lists arrive in and though some fail: no stale list stays.        *)
NodesAreShown == <>[](Opened /\ ~modal_open) => <>[](nodes = vms)

(* "Checking ..." ends: the page goes on asking about the request that is  *)
(* shown, also when the user checks another node before the first answer;  *)
(* unless an answer failed since the user last asked for a check, after    *)
(* which fetch_request asks no more.                                       *)
ChecksEnd == <>[](Opened /\ ~poll_failed) => <>[](request # "requested")
=============================================================================
