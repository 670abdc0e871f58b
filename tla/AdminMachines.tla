---------------------------- MODULE AdminMachines ----------------------------
(***************************************************************************)
(* The page of all the machines: controller "machinesPage", machinesPageC  *)
(* in public/js/admin.js, with the template main/admin_machines.html.ep,   *)
(* and the part of lib/Ravada/WebSocket.pm that answers list_machines_tree.*)
(*                                                                         *)
(* Machines form a tree: clones hang from their bases.  The server lists   *)
(* the roots, the clones of the bases the client opened and, on demand,    *)
(* every active machine with its bases.  It keeps for each websocket what  *)
(* the client opened; the page keeps its own copy, and decides with it     *)
(* which of the listed machines it shows.  Messages are a whole new list   *)
(* or the rows that changed, and are thrown away while a dialog is open.   *)
(***************************************************************************)
EXTENDS Integers, Sequences, FiniteSets, SequencesExt

CONSTANTS
    Order,       \* the machines in the order of the tree, bases first
    Base,        \* the base of each machine, or Nil
    Runnable,    \* the machines that may be active: those that are no base
    Nil,
    MaxChanges,  \* bound: how many times machines change at the server
    MaxClicks,   \* bound: how many times the user clicks
    MaxLosses    \* bound: how many times the websocket closes

Machines == ToSet(Order)

Bases == {Base[m] : m \in Machines} \ {Nil}
IsRoot(m) == Base[m] = Nil

(* The bases above a machine: the smallest set that holds its base, and the*)
(* base of every machine it holds.                                         *)
Climbs(m, S) == \A x \in S \cup {m} : Base[x] \in S \cup {Nil}
Above == [m \in Machines |-> {b \in Bases : \A S \in SUBSET Bases : Climbs(m, S) => b \in S}]
Ancestors(m) == Above[m]

(* The messages: rows of the list, a whole one or those that changed.      *)
RowSet == [id : Machines, active : BOOLEAN, date : Nat, touched : BOOLEAN]
Messages == [action : {"new", "refresh"}, data : Seq(RowSet)]

ASSUME TreeAssumption ==
    /\ Order \in Seq(Machines) /\ IsInjective(Order)
    /\ Nil \notin Machines \cup Messages /\ Base \in [Machines -> Machines \cup {Nil}]
    /\ \A m \in Machines : m \notin Ancestors(m)
    /\ Bases # {} => \E b \in Bases : IsRoot(b)
    /\ Runnable \subseteq Machines \ Bases

VARIABLES
    page,        \* the page the browser shows: [at, machine]
    rows,        \* the machines at the server: [exists, active, date]
    client,      \* what the server keeps of the websocket: [open, active, listed]
    wire,        \* the message on its way, or Nil
    ws,          \* "connecting", "open" or "closed"
    list,        \* $scope.list_machines, its entries past the length too
    length,      \* list_machines.length
    show_clones, show_machine, show_active,
    modal,       \* $scope.modalOpened
    lost,        \* [timer, told]: of ws.onclose, and ws_connection_lost
    changes, clicks, losses

vars == <<page, rows, client, wire, ws, list, length, show_clones, show_machine,
          show_active, modal, lost, changes, clicks, losses>>
ServerVars == <<rows, changes>>
SocketVars == <<client, wire, ws, lost, losses>>
ShowVars == <<show_clones, show_machine, show_active>>

Opened == page.at = "machines"

(***************************************************************************)
(* The server.                                                             *)
(***************************************************************************)
Exists == {m \in Machines : rows[m].exists}

(* Machines start, stop and change; a machine without clones is made or    *)
(* removed, and one that was removed never comes back.                     *)
ServerChanges ==
    /\ Opened /\ changes < MaxChanges
    /\ changes' = changes + 1
    /\ \E m \in Machines :
          \/ /\ m \in Exists
             /\ rows' = [rows EXCEPT ![m].active = m \in Runnable /\ ~@, ![m].date = changes + 1]
          \/ /\ m \notin Bases /\ (m \in Exists \/ rows[m].date = 0)
             /\ rows' = [rows EXCEPT ![m] = [exists |-> m \notin Exists, active |-> FALSE,
                                             date |-> changes + 1]]
    /\ UNCHANGED <<page, SocketVars, list, length, ShowVars, modal, clicks>>

(* _list_machines: the conditions are joined by OR.                        *)
Found(open, active) ==
    {m \in Exists : Base[m] = Nil \/ Base[m] \in open \/ (active /\ rows[m].active)}

(* _show_clones_parents opens the base of what is listed and the bases     *)
(* above it, up to the first that is open; then the server lists again.    *)
Opens(c) ==
    c.open \cup {b \in Bases : \E m \in Found(c.open, c.active) :
                    /\ b \in Ancestors(m)
                    /\ \A a \in Ancestors(m) \cap c.open : a # b /\ b \notin Ancestors(a)}

(* _list_children: the roots, and every machine after its base, in the     *)
(* order of the tree.  A machine whose base is not listed is left out.     *)
Place(m) == CHOOSE i \in DOMAIN Order : Order[i] = m
Rank(m, S) == Cardinality({x \in S : Place(x) <= Place(m)})
InOrder(S) == [k \in 1..Cardinality(S) |-> CHOOSE m \in S : Rank(m, S) = k]
Tree(S) == {m \in S : Ancestors(m) \subseteq S}
Listed(c) == InOrder(Tree(Found(Opens(c), c.active)))
Row(m) == [id |-> m, active |-> rows[m].active, date |-> rows[m].date, touched |-> FALSE]
Data(l) == [i \in DOMAIN l |-> Row(l[i])]

(* The answer to list_machines_tree.  A new list the first time, when the  *)
(* page told something since the last one, when there are more machines or *)
(* fewer, and now and then.                                                *)
SendsList ==
    /\ Opened /\ ws = "open" /\ wire = Nil
    /\ client' = [open |-> Opens(client), active |-> client.active, listed |-> Cardinality(Exists)]
    /\ wire' = [action |-> "new", data |-> Data(Listed(client))]
    /\ UNCHANGED <<page, ServerVars, ws, lost, losses, list, length, ShowVars, modal, clicks>>

(* Else what changed lately, if anything did and no base is to be opened   *)
(* for it.  Since the page was loaded rows changed in the order of their   *)
(* dates; those of date 0 changed before.                                  *)
SendsChanges ==
    /\ Opened /\ ws = "open" /\ wire = Nil
    /\ client.listed # Nil /\ client.listed = Cardinality(Exists)
    /\ \E since \in -1..changes :
          LET S == {m \in Found(client.open, client.active) : rows[m].date > since}
          IN  /\ S # {} /\ \A m \in S : Base[m] \in client.open \cup {Nil}
              /\ wire' = [action |-> "refresh", data |-> Data(InOrder(S))]
    /\ UNCHANGED <<page, ServerVars, client, ws, lost, losses, list, length, ShowVars, modal, clicks>>

(* manage_action: what the client opens, and whether it wants the active.  *)
(* A closed websocket sends nothing.                                       *)
Told(c, ids, value) ==
    IF ws # "open" THEN c
    ELSE [open |-> IF value THEN c.open \cup ids ELSE c.open \ ids,
          active |-> c.active, listed |-> Nil]
ToldActive(c, value) ==
    IF ws # "open" THEN c
    ELSE [open |-> IF value THEN {} ELSE c.open, active |-> value, listed |-> Nil]
Unknown == [open |-> {}, active |-> FALSE, listed |-> Nil]

(***************************************************************************)
(* The messages.                                                           *)
(***************************************************************************)
Shows(row) ==
    \/ IsRoot(row.id) /\ ~show_active
    \/ show_machine[row.id]
    \/ Base[row.id] # Nil /\ show_clones[Base[row.id]]
    \/ show_active /\ row.active
Put(row) == [row |-> row, show |-> Shows(row)]

\* Mutant: a row that changed but kept its place is not replaced.
NewList_ById(data) ==
    [i \in 1..(IF Len(data) < Len(list) THEN Len(list) ELSE Len(data)) |->
        IF i > Len(data) THEN list[i]
        ELSE IF i > Len(list) \/ list[i].row.id # data[i].id THEN Put(data[i]) ELSE list[i]]

(* A new list: a row with another place, or with another date, is replaced,*)
(* and so is an active one when only those are shown.                      *)
NewList(data) ==
    [i \in 1..(IF Len(data) < Len(list) THEN Len(list) ELSE Len(data)) |->
        IF i > Len(data) THEN list[i]
        ELSE IF i > Len(list) \/ list[i].row.id # data[i].id
                \/ list[i].row.date # data[i].date \/ (show_active /\ data[i].active)
             THEN Put(data[i]) ELSE list[i]]

(* What changed: the rows of the list that have the same machine.          *)
Refreshed(data) ==
    [i \in DOMAIN list |->
        LET same == {j \in DOMAIN data : data[j].id = list[i].row.id}
        IN  IF same = {} THEN list[i] ELSE Put(data[CHOOSE j \in same : TRUE])]

(* do_show_active: only active machines are shown, whatever was before.    *)
ActiveIn(l) == [i \in DOMAIN l |-> [l[i] EXCEPT !.show = l[i].row.active]]
BasesOfActive(l) == {Base[l[i].row.id] : i \in {j \in DOMAIN l : l[j].row.active}}
Marked(l) == [m \in Machines |-> show_machine[m] \/ m \in BasesOfActive(l)]

(* ws.onmessage.                                                           *)
Receive ==
    /\ Opened /\ wire # Nil
    /\ wire' = Nil
    /\ IF modal THEN UNCHANGED <<list, length, show_machine>>
       ELSE LET new == wire.action = "new" \/ list = <<>>
                l == IF new THEN NewList(wire.data) ELSE Refreshed(wire.data)
            IN  /\ length' = IF new THEN Len(wire.data) ELSE length
                /\ list' = IF show_active THEN ActiveIn(l) ELSE l
                /\ show_machine' = IF show_active THEN Marked(l) ELSE show_machine
    /\ UNCHANGED <<page, ServerVars, client, ws, lost, losses, show_clones, show_active,
                   modal, clicks>>

(***************************************************************************)
(* The websocket: its closing is told five seconds later.  The server      *)
(* forgets the client at once.                                             *)
(***************************************************************************)
SocketCloses ==
    /\ Opened /\ ws = "open" /\ losses < MaxLosses
    /\ losses' = losses + 1
    /\ ws' = "closed" /\ wire' = Nil /\ client' = Unknown
    /\ lost' = [lost EXCEPT !.timer = TRUE]
    /\ UNCHANGED <<page, ServerVars, list, length, ShowVars, modal, clicks>>

LostTimer ==
    /\ Opened /\ lost.timer
    /\ lost' = [timer |-> FALSE, told |-> TRUE]
    /\ UNCHANGED <<page, ServerVars, client, wire, ws, losses, list, length, ShowVars, modal, clicks>>

(* 'connect again', which a dialog covers: subscribe_list_machines starts  *)
(* from an empty list.                                                     *)
ConnectAgain ==
    /\ Opened /\ lost.told /\ ws = "closed" /\ ~modal
    /\ ws' = "connecting" /\ list' = <<>> /\ length' = 0
    /\ UNCHANGED <<page, ServerVars, client, wire, lost, losses, ShowVars, modal, clicks>>

(* ws.onopen tells the server what this page has open.  The first message  *)
(* of a websocket only makes the client: that the page shows the active    *)
(* machines is told first, and lost; of a base, that it is open is told    *)
(* after that it is not.                                                   *)
SocketOpens ==
    /\ Opened /\ ws = "connecting"
    /\ ws' = "open"
    /\ client' = [Unknown EXCEPT !.open = {b \in Machines : show_clones[b]}]
    /\ lost' = [lost EXCEPT !.told = FALSE]
    /\ UNCHANGED <<page, ServerVars, wire, losses, list, length, ShowVars, modal, clicks>>

(***************************************************************************)
(* What is shown.                                                          *)
(***************************************************************************)
Click == Opened /\ clicks < MaxClicks /\ clicks' = clicks + 1 /\ ~modal

(* toggle_show_clones and set_show_clones: the clones of the base follow   *)
(* it, and what hangs from a clone that is hidden is hidden, all of them   *)
(* as far as they are in the list.                                         *)
InList == {list[i].row.id : i \in DOMAIN list}
Under(id) == {m \in InList : id \in Ancestors(m) /\ Ancestors(m) \ (Ancestors(id) \cup {id}) \subseteq InList}

\* Mutant: a base that is closed hides its clones, and not theirs.
Follow_OneLevel(id, value) == {m \in InList : Base[m] = id}

Follow(id, value) == IF value THEN {m \in InList : Base[m] = id} ELSE Under(id)
Set(ids, value) ==
    LET moved == UNION {Follow(id, value) : id \in ids}
    IN  /\ show_clones' = [m \in Machines |->
                             IF m \in ids \/ (~value /\ m \in moved) THEN value ELSE show_clones[m]]
        /\ show_machine' = [m \in Machines |-> IF m \in moved THEN value ELSE show_machine[m]]
        /\ list' = [i \in DOMAIN list |->
                      IF list[i].row.id \in moved THEN [list[i] EXCEPT !.show = value] ELSE list[i]]

ToggleShowClones(id) ==
    /\ Click
    /\ \E i \in 1..length : list[i].row.id = id /\ list[i].show
    /\ Set({id}, ~show_clones[id])
    /\ show_active' = (show_active /\ ~show_clones[id])
    /\ client' = Told(client, {id}, ~show_clones[id])
    /\ UNCHANGED <<page, ServerVars, wire, ws, lost, losses, length, modal>>

(* showClones(value): the roots are shown, and every base of the list is   *)
(* opened or closed.                                                       *)
AllClones(l, value) ==
    LET ids == InList \cap Bases
        moved == {m \in InList : Base[m] \in ids}
    IN  /\ show_clones' = [m \in Machines |->
                             IF m \in ids \/ (~value /\ m \in moved) THEN value ELSE show_clones[m]]
        /\ show_machine' = [m \in Machines |-> IF m \in moved THEN value ELSE show_machine[m]]
        /\ list' = [i \in DOMAIN l |->
                      IF IsRoot(l[i].row.id) THEN [l[i] EXCEPT !.show = TRUE]
                      ELSE IF l[i].row.id \in moved THEN [l[i] EXCEPT !.show = value] ELSE l[i]]
        /\ show_active' = FALSE

ShowClones(value) ==
    /\ Click
    /\ AllClones(list, value)
    /\ client' = Told(client, InList \cap Bases, value)
    /\ UNCHANGED <<page, ServerVars, wire, ws, lost, losses, length, modal>>

(* toggle_show_active: on; or off, with reload_list and showClones(false). *)
(* Before anything else it sends, which fails on a websocket that connects.*)
ToggleShowActive ==
    /\ Click /\ ws # "connecting"
    /\ IF show_active
       THEN /\ AllClones([i \in DOMAIN list |->
                             [list[i] EXCEPT !.show = IsRoot(list[i].row.id)]], FALSE)
            /\ client' = Told(ToldActive(client, FALSE), InList \cap Bases, FALSE)
       ELSE /\ show_active' = TRUE
            /\ list' = ActiveIn(list) /\ show_machine' = Marked(list)
            /\ client' = ToldActive(client, TRUE)
            /\ UNCHANGED show_clones
    /\ UNCHANGED <<page, ServerVars, wire, ws, lost, losses, length, modal>>

(***************************************************************************)
(* Dialogs: the check box of a machine changes the row of the page, then   *)
(* the dialog asks; No changes it back.                                    *)
(***************************************************************************)
OpenModal(i) ==
    /\ Click /\ list[i].show
    /\ modal' = TRUE
    /\ list' = [list EXCEPT ![i].row.touched = TRUE]
    /\ UNCHANGED <<page, ServerVars, SocketVars, length, ShowVars>>

(* cancel_modal, for Yes, No and the cross.  The key Escape closes the     *)
(* dialog without it and is not an action here: modalOpened stays set, and *)
(* the list stays as it is.                                                *)
CancelModal ==
    /\ Opened /\ modal
    /\ modal' = FALSE
    /\ \E yes \in BOOLEAN :
          list' = IF yes THEN list
                  ELSE [i \in DOMAIN list |-> [list[i] EXCEPT !.row.touched = FALSE]]
    /\ UNCHANGED <<page, ServerVars, SocketVars, length, ShowVars, clicks>>

-----------------------------------------------------------------------------
None == [m \in Machines |-> FALSE]
(* At first every base is there, and some of the machines without clones.  *)
RowsBut(later) ==
    [m \in Machines |-> [exists |-> m \notin later, active |-> FALSE, date |-> 0]]
StartRows == {RowsBut(later) : later \in SUBSET (Machines \ Bases)}
Load ==
    /\ client' = Unknown /\ wire' = Nil /\ ws' = "connecting"
    /\ list' = <<>> /\ length' = 0
    /\ show_clones' = None /\ show_machine' = None /\ show_active' = FALSE
    /\ modal' = FALSE /\ lost' = [timer |-> FALSE, told |-> FALSE]
    /\ clicks' = 0 /\ losses' = 0

Init ==
    /\ page = [at |-> "machines", machine |-> Nil]
    /\ rows \in StartRows
    /\ client = Unknown /\ wire = Nil /\ ws = "connecting"
    /\ list = <<>> /\ length = 0
    /\ show_clones = None /\ show_machine = None /\ show_active = FALSE
    /\ modal = FALSE /\ lost = [timer |-> FALSE, told |-> FALSE]
    /\ changes = 0 /\ clicks = 0 /\ losses = 0

Next ==
    \/ ServerChanges \/ SendsList \/ SendsChanges \/ Receive
    \/ SocketCloses \/ LostTimer \/ ConnectAgain \/ SocketOpens
    \/ \E id \in Bases : ToggleShowClones(id)
    \/ ShowClones(TRUE) \/ ShowClones(FALSE) \/ ToggleShowActive
    \/ \E i \in 1..length : OpenModal(i)
    \/ CancelModal

Fairness == /\ WF_vars(SocketOpens) /\ WF_vars(LostTimer)
            /\ SF_vars(SendsList) /\ WF_vars(Receive)
Spec == Init /\ [][Next]_vars /\ Fairness

-----------------------------------------------------------------------------
Visible == {list[i].row.id : i \in {j \in 1..length : list[j].show}}

(* The step that closes a base hides its clones and the clones of its      *)
(* clones, as deep as they are shown: set_show_clones climbs down by the   *)
(* machines of the list, showClones(false) by one level of each base, and  *)
(* neither leaves anything behind, because no list ever shows a machine    *)
(* without its bases.  The lists that follow are another matter: a clone   *)
(* that the page did not hold at the click keeps its show_machine, and the *)
(* next list shows it below a base that is closed.                         *)
NothingBelow(b) == \A m \in Visible : b \notin Ancestors(m)
Hides == \A b \in Bases : show_clones[b] /\ ~show_clones'[b] => NothingBelow(b)'
ClosingHides == [][Hides]_vars

(* Every machine that is listed comes to be shown as it is at the server,  *)
(* also after the websocket was lost; and, if it was not, a base that stays*)
(* open comes to show its clones.                                          *)
ListIsCurrent ==
    <>[](Opened /\ ws = "open" /\ ~modal)
        => <>[](/\ Opened
                /\ [i \in 1..length |-> list[i].row.id] = Listed(client)
                /\ \A i \in 1..length : list[i].row.active = rows[list[i].row.id].active
                /\ ~show_active /\ losses = 0 => \A m \in Exists :
                       Base[m] \in Visible /\ show_clones[Base[m]] => m \in Visible)
=============================================================================
