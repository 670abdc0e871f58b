---------------------------- MODULE UserMachines ----------------------------
(***************************************************************************)
(* The page of the machines of a user: controller "bases", mainpageCrtl in *)
(* public/js/ravada.js, with the template main/list_bases_ng.html.ep that  *)
(* calls it.                                                               *)
(*                                                                         *)
(* The server sends over a websocket the whole answer of                   *)
(* list_machines_user; the page merges each answer by position into the    *)
(* list it shows.  In that list every base has the clones of the user and  *)
(* one of them chosen (machine.clone), and the chosen one is the one every *)
(* button acts on.  While the user chooses, starts, restores or shuts down *)
(* a machine, answers keep arriving, so a machine may change, move or go   *)
(* between a click and what the click does.                                *)
(***************************************************************************)
EXTENDS Integers, Sequences, FiniteSets

CONSTANTS
    Ids,         \* the ids of machines
    Answers,     \* the lists of machines list_machines_user may answer
    Nil,         \* JavaScript's undefined, null, and "nothing asked"
    MaxWire,     \* bound: answers sent and not received yet
    MaxChanges,  \* bound: how many times the server's list changes
    MaxClicks    \* bound: how many times the user clicks

(* Machines are listed once, and so are the clones of a machine: rows of   *)
(* the table domains.                                                      *)
Clones == [id : Ids, is_active : BOOLEAN, autostart : BOOLEAN]
Rows == [id : Ids, is_base : BOOLEAN, is_active : BOOLEAN, autostart : BOOLEAN,
         list_clones : Seq(Clones)]
Once(s) == \A i, j \in DOMAIN s : s[i].id = s[j].id => i = j
ASSUME AnswersAssumption ==
    /\ MaxWire \in Nat /\ MaxChanges \in Nat /\ MaxClicks \in Nat
    /\ Nil \notin Ids
    /\ Answers \subseteq Seq(Rows)
    /\ \A a \in Answers : Once(a) /\ \A i \in DOMAIN a : Once(a[i].list_clones)

VARIABLES
    page,          \* the page the browser shows: [at, machine]
    rows,          \* what the server would answer now
    wire,          \* the answers sent on the websocket, oldest first
    ws,            \* the websocket: [at, connected, fail, timer]
    machines,      \* $scope.machines
    limits,        \* questions to /execution_machines_limit not answered yet
    confirming,    \* $scope.confirming_stop_data
    changes, clicks

vars == <<page, rows, wire, ws, machines, limits, confirming, changes, clicks>>

ServerVars == <<rows, changes>>
SocketVars == <<wire, ws>>
DialogVars == <<limits, confirming>>

Opened == page.at = "bases"
Connecting == [at |-> "connecting", connected |-> FALSE, fail |-> FALSE, timer |-> TRUE]

(***************************************************************************)
(* The merge of an answer into the page.                                   *)
(***************************************************************************)

(* set_one_clone: the first clone that is active, or else the first.       *)
FirstOf(cs) ==
    IF cs = <<>> THEN Nil
    ELSE LET on == {j \in DOMAIN cs : cs[j].is_active}
         IN  IF on = {} THEN cs[1].id
             ELSE cs[CHOOSE j \in on : \A l \in on : j <= l].id

CloneOf(m) == IF m.clone = Nil THEN Nil
              ELSE m.list_clones[CHOOSE j \in DOMAIN m.list_clones :
                                    m.list_clones[j].id = m.clone]
CloneActive(m) == m.clone # Nil /\ CloneOf(m).is_active

(* change_clone: a machine is active when its chosen clone is.             *)
ChangeClone(m) == IF m.clone = Nil THEN m ELSE [m EXCEPT !.is_active = CloneOf(m).is_active]
SetOneClone(m) == ChangeClone([m EXCEPT !.clone = FirstOf(m.list_clones)])

(* A machine new to the page, or at another place in it.  What the page    *)
(* adds to the row: the chosen clone, the flag action that hides Start,    *)
(* and the dialogs that the card of the machine holds.                     *)
Fresh(row) ==
    SetOneClone([id |-> row.id, is_base |-> row.is_base, is_active |-> row.is_active,
                 autostart |-> row.autostart, list_clones |-> row.list_clones, clone |-> Nil,
                 action |-> "no", host_restore |-> Nil, pending_shutdown |-> FALSE])

(* copy_machine_data: the clones at the same place keep their object, the  *)
(* others are the answer's; only then is a clone chosen again.             *)

\* Mutant: the clones are merged by position only.
SameClone_ByPlace(m, row, j) == j \in DOMAIN m.list_clones

SameClone(m, row, j) == j \in DOMAIN m.list_clones
                        /\ m.list_clones[j].id = row.list_clones[j].id
Fewer(m, row) == Len(row.list_clones) < Len(m.list_clones)
CopyClones(m, row) ==
    IF Fewer(m, row) THEN row.list_clones
    ELSE [j \in DOMAIN row.list_clones |->
             IF SameClone(m, row, j)
             THEN [m.list_clones[j] EXCEPT !.is_active = row.list_clones[j].is_active]
             ELSE row.list_clones[j]]

\* Mutant: a clone that starts or stops makes the page choose again.
Reload_OnAnyChange(m, row) ==
    Fewer(m, row) \/ \E j \in DOMAIN row.list_clones :
        ~SameClone(m, row, j) \/ m.list_clones[j].is_active # row.list_clones[j].is_active

Reload(m, row) == Fewer(m, row) \/ \E j \in DOMAIN row.list_clones : ~SameClone(m, row, j)

\* Mutant: the choice is kept whatever the answer brings.
Copied_KeepsClone(m, row) ==
    [m EXCEPT !.is_base = row.is_base, !.is_active = row.is_active,
              !.list_clones = CopyClones(m, row)]

Copied(m, row) ==
    LET n == [m EXCEPT !.is_base = row.is_base, !.is_active = row.is_active,
                       !.list_clones = CopyClones(m, row)]
    IN  IF Reload(m, row) THEN SetOneClone(n) ELSE n

(* ws.onmessage: a list of another length starts again from nothing.       *)
Kept(ms, data, i) == Len(ms) = Len(data) /\ ms[i].id = data[i].id
Merged(ms, data) ==
    [i \in DOMAIN data |->
        IF Kept(ms, data, i) THEN Copied(ms[i], data[i]) ELSE Fresh(data[i])]

(* What a handler that waits for an answer holds is the object it was      *)
(* called with: the one shown at that place, or one shown no longer.       *)
The(held) == IF held.place # Nil THEN machines[held.place] ELSE held.gone
Hold(i) == [place |-> i, gone |-> Nil]
Follow(held, data) ==
    IF held.place = Nil \/ (held.place <= Len(data) /\ Kept(machines, data, held.place))
    THEN held
    ELSE [place |-> Nil, gone |-> machines[held.place]]

(***************************************************************************)
(* The server and the websocket.                                           *)
(***************************************************************************)

(* Machines are created, cloned, removed, renamed, started and stopped.    *)
ServerChanges ==
    /\ Opened /\ changes < MaxChanges
    /\ changes' = changes + 1
    /\ \E a \in Answers : a # rows /\ rows' = a
    /\ UNCHANGED <<page, SocketVars, machines, DialogVars, clicks>>

SocketOpens ==
    /\ Opened /\ ws.at = "connecting"
    /\ ws' = [ws EXCEPT !.at = "open", !.connected = TRUE, !.fail = FALSE]
    /\ UNCHANGED <<page, ServerVars, wire, machines, DialogVars, clicks>>

(* The websocket is lost, or never opens.  The script has no onclose: it   *)
(* does not connect again, and what was on its way does not arrive.        *)
SocketCloses ==
    /\ Opened /\ ws.at # "closed"
    /\ ws' = [ws EXCEPT !.at = "closed"]
    /\ wire' = <<>>
    /\ UNCHANGED <<page, ServerVars, machines, DialogVars, clicks>>

(* The page says that the websocket failed when it has not opened in a     *)
(* minute; it never says that one was lost.                                *)
FailTimer ==
    /\ Opened /\ ws.timer
    /\ ws' = [ws EXCEPT !.timer = FALSE, !.fail = @ \/ ~ws.connected]
    /\ UNCHANGED <<page, ServerVars, wire, machines, DialogVars, clicks>>

ServerSends ==
    /\ Opened /\ ws.at = "open" /\ Len(wire) < MaxWire
    /\ wire' = Append(wire, rows)
    /\ UNCHANGED <<page, ServerVars, ws, machines, DialogVars, clicks>>

\* Mutant: while the page asks the user, answers are thrown away.
Receive_NotWhileAsking ==
    /\ Opened /\ wire # <<>>
    /\ machines' = IF confirming = Nil THEN Merged(machines, Head(wire)) ELSE machines
    /\ limits' = IF confirming = Nil THEN {Follow(h, Head(wire)) : h \in limits} ELSE limits
    /\ wire' = Tail(wire)
    /\ UNCHANGED <<page, ServerVars, ws, confirming, clicks>>

Receive ==
    /\ Opened /\ wire # <<>>
    /\ LET data == Head(wire)
       IN  /\ machines' = Merged(machines, data)
           /\ limits' = {Follow(h, data) : h \in limits}
           /\ confirming' = IF confirming = Nil THEN Nil ELSE Follow(confirming, data)
    /\ wire' = Tail(wire)
    /\ UNCHANGED <<page, ServerVars, ws, clicks>>

(***************************************************************************)
(* The buttons of a card.                                                  *)
(***************************************************************************)
Click == Opened /\ clicks < MaxClicks /\ clicks' = clicks + 1

(* Dialog "One of the machines that are currently running will be          *)
(* shutdown": on the card of the very object that was held.                *)
Confirms(i) == confirming # Nil /\ confirming.place = i
Asks(m) == m.clone # Nil /\ m.host_restore = m.clone
Menu(i) == /\ ~Confirms(i)
           /\ \/ machines[i].is_active
              \/ CloneActive(machines[i]) /\ machines[i].action = "no"
Set(i, m) == machines' = [machines EXCEPT ![i] = m]

(* The select of the card.  Its ng-change is outside of the tag, so        *)
(* change_clone is not called.                                             *)
Choose(i) ==
    /\ Click
    /\ Len(machines[i].list_clones) > 1
    /\ \E j \in DOMAIN machines[i].list_clones :
          Set(i, [machines[i] EXCEPT !.clone = machines[i].list_clones[j].id])
    /\ UNCHANGED <<page, ServerVars, SocketVars, DialogVars>>

(* action(machine, 'start', true): the page of the clone, of the machine   *)
(* itself when it is no base, or of a new clone of the base.               *)
Start(m) ==
    page' = IF m.clone # Nil THEN [at |-> "run", machine |-> m.clone]
            ELSE [at |-> IF m.is_base THEN "clone" ELSE "run", machine |-> m.id]

(* action(machine, 'start'): a clone that is not active asks for the limit *)
(* of machines first.  The name and the picture start it too, so there is  *)
(* no state of the card that forbids it.                                   *)
ClickStart(i) ==
    /\ Click
    /\ Set(i, [machines[i] EXCEPT !.action = "no"])
    /\ IF CloneActive(machines[i])
       THEN Start(machines[i]) /\ UNCHANGED limits
       ELSE limits' = limits \cup {Hold(i)} /\ UNCHANGED page
    /\ UNCHANGED <<ServerVars, SocketVars, confirming>>

(* checkMaxMachines: there is room, or the machine runs already.           *)
LimitAllows(h) ==
    /\ Opened
    /\ limits' = limits \ {h}
    /\ Start(The(h))
    /\ IF h.place = Nil THEN UNCHANGED machines
       ELSE Set(h.place, [machines[h.place] EXCEPT !.action = "no"])
    /\ UNCHANGED <<ServerVars, SocketVars, confirming, clicks>>

LimitReached(h) ==
    /\ Opened
    /\ limits' = limits \ {h}
    /\ confirming' = h
    /\ UNCHANGED <<page, ServerVars, SocketVars, machines, clicks>>

(* The question fails: window.location.reload().                           *)
LimitFails(h) ==
    /\ Opened /\ h \in limits
    /\ limits' = {} /\ confirming' = Nil
    /\ machines' = <<>> /\ wire' = <<>>
    /\ ws' = Connecting
    /\ UNCHANGED <<page, ServerVars, clicks>>

StopYes(i) ==
    /\ Click /\ Confirms(i)
    /\ Start(machines[i])
    /\ Set(i, [machines[i] EXCEPT !.action = "no"])
    /\ confirming' = Nil
    /\ UNCHANGED <<ServerVars, SocketVars, limits>>

StopNo(i) ==
    /\ Click /\ Confirms(i)
    /\ confirming' = Nil
    /\ UNCHANGED <<page, ServerVars, SocketVars, machines, limits>>

(* The menu of an active machine: 'shutdown' and 'force_shutdown' ask      *)
(* first when the machine starts with the host, else they go at once, as   *)
(* 'reboot' and 'hibernate' do.                                            *)
Autostart(m) == m.autostart \/ (m.clone # Nil /\ CloneOf(m).autostart)
ClickShutdown(i) ==
    /\ Click /\ Menu(i)
    /\ \E shutdown \in BOOLEAN :
          Set(i, [machines[i] EXCEPT
                    !.action = "no",
                    !.pending_shutdown = @ \/ (shutdown /\ Autostart(machines[i]))])
    /\ UNCHANGED <<page, ServerVars, SocketVars, DialogVars>>

AnswerShutdown(i) ==
    /\ Click /\ ~Confirms(i) /\ machines[i].pending_shutdown
    /\ Set(i, [machines[i] EXCEPT !.action = "no", !.pending_shutdown = FALSE])
    /\ UNCHANGED <<page, ServerVars, SocketVars, DialogVars>>

(* The red button Restore hides Start with machine.action; the entry of    *)
(* the menu does not.                                                      *)
AskRestore(i) ==
    /\ Click /\ ~Confirms(i) /\ machines[i].clone # Nil
    /\ \/ /\ ~CloneActive(machines[i]) /\ machines[i].host_restore = Nil
          /\ Set(i, [machines[i] EXCEPT !.host_restore = machines[i].clone, !.action = "yes"])
       \/ /\ Menu(i)
          /\ Set(i, [machines[i] EXCEPT !.host_restore = machines[i].clone])
    /\ UNCHANGED <<page, ServerVars, SocketVars, DialogVars>>

(* Either answer closes the dialog; the dialog is shown only while the     *)
(* chosen clone is the one it was opened for.                              *)
AnswerRestore(i) ==
    /\ Click /\ ~Confirms(i) /\ Asks(machines[i])
    /\ Set(i, [machines[i] EXCEPT !.host_restore = Nil, !.action = "no"])
    /\ UNCHANGED <<page, ServerVars, SocketVars, DialogVars>>

(* A machine that is not a base yet: 'Prepare base' and its answers.       *)
AskPrepare(i) ==
    /\ Click /\ ~Confirms(i)
    /\ ~machines[i].is_base /\ machines[i].action = "no" /\ ~machines[i].is_active
    /\ Set(i, [machines[i] EXCEPT !.action = "prepare"])
    /\ UNCHANGED <<page, ServerVars, SocketVars, DialogVars>>

AnswerPrepare(i) ==
    /\ Click /\ ~Confirms(i) /\ machines[i].action = "prepare"
    /\ \E yes \in BOOLEAN :
          Set(i, [machines[i] EXCEPT !.action = "no", !.is_base = @ \/ yes])
    /\ UNCHANGED <<page, ServerVars, SocketVars, DialogVars>>

-----------------------------------------------------------------------------
(* The page as the browser loads it.                                       *)
Loaded == /\ wire = <<>> /\ machines = <<>>
          /\ ws = Connecting
          /\ limits = {} /\ confirming = Nil

Init == /\ page = [at |-> "bases", machine |-> Nil]
        /\ rows \in Answers
        /\ Loaded
        /\ changes = 0 /\ clicks = 0

Card(i) == \/ Choose(i) \/ ClickStart(i) \/ StopYes(i) \/ StopNo(i)
           \/ ClickShutdown(i) \/ AnswerShutdown(i)
           \/ AskRestore(i) \/ AnswerRestore(i)
           \/ AskPrepare(i) \/ AnswerPrepare(i)
Limit(h) == LimitAllows(h) \/ LimitReached(h) \/ LimitFails(h)

Next == \/ ServerChanges \/ SocketOpens \/ SocketCloses \/ FailTimer \/ ServerSends \/ Receive
        \/ \E i \in DOMAIN machines : Card(i)
        \/ \E h \in limits : Limit(h)

(* A websocket that is not lost connects, the server sends every few       *)
(* seconds, and each question is answered; users and the rest of the       *)
(* system owe nothing, and nobody owes a loss or its absence.              *)
Fairness == /\ WF_vars(SocketOpens) /\ WF_vars(ServerSends) /\ WF_vars(Receive)
            /\ WF_vars(\E h \in limits : Limit(h))

Spec == Init /\ [][Next]_vars /\ Fairness
-----------------------------------------------------------------------------
(* What the user sees of a list of machines or of an answer.               *)
Seen(list) ==
    [i \in DOMAIN list |->
        [id |-> list[i].id,
         clones |-> [j \in DOMAIN list[i].list_clones |->
                        [id |-> list[i].list_clones[j].id,
                         is_active |-> list[i].list_clones[j].is_active]]]]

Receives == wire # <<>> /\ wire' = Tail(wire) /\ ws'.at = "open"

(* The chosen clone of every machine is one of the clones listed for it,   *)
(* and there is one if the list is not empty: no button acts on a clone    *)
(* that an answer took away.                                               *)
ChosenIsListed ==
    \A i \in DOMAIN machines :
        LET m == machines[i]
        IN  IF m.list_clones = <<>> THEN m.clone = Nil
            ELSE \E j \in DOMAIN m.list_clones : m.list_clones[j].id = m.clone

(* After an answer the page shows that answer, whatever it showed before:  *)
(* the merge by position leaves nothing of machines or clones that are     *)
(* gone, and no clone with the state of another.                           *)
ShowsAnswer == Receives => Seen(machines') = Seen(Head(wire))
ShowsTheAnswer == [][ShowsAnswer]_vars

(* An answer that brings the same machines and clones as are shown leaves  *)
(* the clone the user chose, though some started or stopped.               *)
KeepsChoice ==
    \A i \in DOMAIN machines :
      (/\ Receives
       /\ Len(Head(wire)) = Len(machines) /\ Head(wire)[i].id = machines[i].id
       /\ Len(Head(wire)[i].list_clones) = Len(machines[i].list_clones)
       /\ \A j \in DOMAIN machines[i].list_clones :
             Head(wire)[i].list_clones[j].id = machines[i].list_clones[j].id)
      => machines'[i].clone = machines[i].clone
KeepsTheChoice == [][KeepsChoice]_vars

(* A page that stays open comes to show what the server has, in spite of   *)
(* the answers on their way and of the page loading itself again, unless   *)
(* its websocket is lost: then nothing brings the list up to date, and     *)
(* nothing on the page tells.                                              *)
ShowsTheServer ==
    <>[](Opened /\ ws.at # "closed") => <>[](Seen(machines) = Seen(rows))
=============================================================================
