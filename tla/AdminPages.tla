----------------------------- MODULE AdminPages -----------------------------
(***************************************************************************)
(* The browser of an administrator: the page of all the machines, the page *)
(* that manages one of them, the lists of access, groups and members, and  *)
(* the page of the nodes.  One page is open at a time.  What the script of *)
(* a page knew, its websockets and the answers it waited for are gone when *)
(* another one is loaded; the server is taken as it is at first then.      *)
(***************************************************************************)
EXTENDS AdminMachines

CONSTANTS
    Hardware, Added, WithFile, Kinds, Others, MaxRequests,
    MaxEdits,    \* MaxClicks of MachineSettings
    MaxPosts,    \* see PageLists
    Nodes, WithMachines, MaxEvents, MaxLoads  \* see NodesPage

ASSUME KindsAssumption == Kinds \subseteq {"rename", "copy", "rebase"}

VARIABLES
    server, requests, info, info_open, showmachine, dialog, options, posts,
    subscribed, shown, failed, edits,
    current, lists, asked, reading, sent, arrived, excused, posted,
    vms, work, nodes, modal_open, asks, gets, loads, id_req, request, polls,
    poll_failed, events

M == INSTANCE MachineSettings WITH wire <- info, clicks <- edits, MaxClicks <- MaxEdits
L == INSTANCE PageLists WITH shown <- lists, posts <- asked, loads <- reading, clicks <- posted
N == INSTANCE NodesPage WITH posts <- gets

MachineVars == <<server, requests, info, info_open, showmachine, dialog, options, posts,
                 subscribed, shown, failed, edits>>
ListsVars == <<current, lists, asked, reading, sent, arrived, excused, posted>>
NodesVars == <<vms, work, nodes, modal_open, asks, gets, loads, id_req, request, polls,
              poll_failed, events>>
TreeVars == <<rows, client, wire, ws, list, length, show_clones, show_machine,
              show_active, modal, lost, changes, clicks, losses>>
pages == <<page, TreeVars, MachineVars, ListsVars, NodesVars>>

Pages == {"machines", "manage", "lists", "nodes"}

(* The menus of the navigation bar lead to every page but to that of one   *)
(* machine, which the rows of the list of machines lead to.  Which machine *)
(* it is makes no difference to the page.  A page that is loaded again is  *)
(* one that was left.                                                      *)
Goes(to) ==
    /\ page.at \in Pages \ {to}
    /\ to = "manage" => page.at = "machines" /\ ~modal /\ \E i \in 1..length : list[i].show
    /\ page' = [at |-> to, machine |-> Nil]
    /\ Load /\ changes' = 0
    /\ rows' \in IF to = "machines" THEN StartRows ELSE {RowsBut({})}
    /\ L!Load
    /\ IF to = "manage" THEN M!Load ELSE M!Unload
    /\ IF to = "nodes" THEN N!Load ELSE N!Unload

-----------------------------------------------------------------------------
PagesInit == Init /\ M!Unloaded /\ L!Unloaded /\ N!Unloaded

PagesNext ==
    \/ Next /\ UNCHANGED <<MachineVars, ListsVars, NodesVars>>
    \/ M!Next /\ UNCHANGED <<TreeVars, ListsVars, NodesVars>>
    \/ L!Next /\ UNCHANGED <<TreeVars, MachineVars, NodesVars>>
    \/ N!Next /\ UNCHANGED <<TreeVars, MachineVars, ListsVars>>
    \/ \E to \in Pages : Goes(to)

(* What each page owes while it is open.                                   *)
PagesSpec == PagesInit /\ [][PagesNext]_pages /\ Fairness /\ M!Fairness /\ N!Fairness

(* Lists that crossed each other settle on what the server has, whatever   *)
(* pages the administrator leaves and comes back to in between.            *)
SettledIsCurrent == L!SettledIsCurrent
=============================================================================
