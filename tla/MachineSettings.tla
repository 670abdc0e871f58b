-------------------------- MODULE MachineSettings --------------------------
(***************************************************************************)
(* The page that manages one machine: controller "singleMachinePage",      *)
(* singleMachinePageC in public/js/ravada.js, with the templates main/vm_* *)
(* that call it.  (Its lists of access, shares and groups are in           *)
(* PageLists.)                                                             *)
(*                                                                         *)
(* A websocket brings the whole machine whenever it changes and every      *)
(* message replaces showmachine, while the user edits, removes and renames *)
(* what showmachine held before.  What the user asks for is posted, the    *)
(* answer names a request, and a websocket of its own tells of it.  No     *)
(* websocket of this page has an onclose: one that is lost stays lost.     *)
(***************************************************************************)
EXTENDS Integers, Sequences, FiniteSets, SequencesExt

CONSTANTS
    Hardware,     \* the lists of disks machines have at first, volumes and drives
    Added,        \* the disks that may be added: new ones
    WithFile,     \* the disks that are volumes with a file
    Kinds,        \* those of "rename", "copy" and "rebase" the user asks for
    Others,       \* what somebody else may ask of the machine: [what, dev]
    Nil,          \* JavaScript's undefined
    MaxRequests,  \* bound: requests made of the machine, by anybody
    MaxClicks     \* bound: how many times the user clicks or types

(* Where the page shows a request: the operations made by request(), and   *)
(* rename_request, copy_request and rebase_request.                        *)
Slots == {"pending"} \cup Kinds

VARIABLES
    page,        \* the page the browser shows: [at, machine]
    server,      \* the machine at the server: [hw, opt]
    requests,    \* its requests at the server, in the order they were made
    wire,        \* the message machine_info on its way, or Nil
    info_open,   \* the websocket machine_info is there
    showmachine, \* $scope.showmachine: [hw, opt, requests], or Nil
    dialog,      \* [edit, lock_info, remove_item]
    options,     \* the form of options: [new_option, pristine]
    posts,       \* posts not answered yet
    subscribed,  \* websockets about requests: [slot, id]
    shown,       \* the status each slot shows
    failed,      \* the slots whose last request nobody tells of: see RequestsEnd
    clicks

vars == <<page, server, requests, wire, info_open, showmachine, dialog, options,
          posts, subscribed, shown, failed, clicks>>
ServerVars == <<server, requests>>
InfoVars == <<wire, info_open>>
RequestVars == <<posts, subscribed, shown, failed>>

Opened == page.at = "manage" /\ showmachine # Nil
NoDialog == [edit |-> Nil, lock_info |-> FALSE, remove_item |-> Nil]

(* Before the browser loads the page.                                      *)
Unloaded ==
    /\ server = [hw |-> <<>>, opt |-> 0] /\ requests = <<>>
    /\ wire = Nil /\ info_open = TRUE
    /\ showmachine = Nil /\ dialog = NoDialog
    /\ options = [new_option |-> 0, pristine |-> TRUE]
    /\ posts = {} /\ subscribed = {} /\ failed = {}
    /\ shown = [s \in Slots |-> "none"]
    /\ clicks = 0

(* The script of the page begins, or is gone.                              *)
Fresh ==
    /\ requests' = <<>> /\ wire' = Nil /\ info_open' = TRUE /\ dialog' = NoDialog
    /\ options' = [new_option |-> 0, pristine |-> TRUE]
    /\ posts' = {} /\ subscribed' = {} /\ failed' = {}
    /\ shown' = [s \in Slots |-> "none"]
    /\ clicks' = 0

(* init, with the first answer of /machine/info: update_info_settings.     *)
Load ==
    /\ Fresh
    /\ \E hw \in Hardware : server' = [hw |-> hw, opt |-> 0]
    /\ showmachine' = [hw |-> server'.hw, opt |-> 0, requests |-> 0]

Unload ==
    /\ Fresh
    /\ showmachine' = Nil /\ server' = [hw |-> <<>>, opt |-> 0]

(***************************************************************************)
(* The server.                                                             *)
(***************************************************************************)
Pending == Cardinality({i \in DOMAIN requests : ~requests[i].done})
Request(what, dev, at) == [what |-> what, dev |-> dev, at |-> at, done |-> FALSE]

(* Somebody else adds or removes hardware of the machine.                  *)
OthersRequest ==
    /\ Opened /\ Len(requests) < MaxRequests
    /\ \E o \in Others : requests' = Append(requests, Request(o.what, o.dev, Nil))
    /\ UNCHANGED <<page, server, InfoVars, showmachine, dialog, options, RequestVars, clicks>>

(* The daemon does a request.  A volume is removed by its file, a drive by *)
(* its index; when there is none the request ends in error.                *)
Without(hw, r) == IF r.at = Nil THEN SelectSeq(hw, LAMBDA e : e # r.dev)
                  ELSE IF r.at \in DOMAIN hw THEN RemoveAt(hw, r.at) ELSE hw
DaemonWorks ==
    /\ Opened
    /\ \E i \in DOMAIN requests :
          LET r == requests[i]
          IN  /\ ~r.done
              /\ requests' = [requests EXCEPT ![i].done = TRUE]
              /\ server' =
                    [server EXCEPT
                       !.hw = CASE r.what = "remove" -> Without(@, r)
                                [] r.what = "add" /\ ~Contains(@, r.dev) -> Append(@, r.dev)
                                [] OTHER -> @,
                       !.opt = IF r.what = "options" THEN r.dev ELSE @]
    /\ UNCHANGED <<page, InfoVars, showmachine, dialog, options, RequestVars, clicks>>

(***************************************************************************)
(* The websocket machine_info.                                             *)
(***************************************************************************)
ServerSends ==
    /\ Opened /\ info_open /\ wire = Nil
    /\ wire' = [hw |-> server.hw, opt |-> server.opt, requests |-> Pending]
    /\ UNCHANGED <<page, ServerVars, info_open, showmachine, dialog, options, RequestVars, clicks>>

\* Mutant: a message that finds the lock is thrown away.
InfoMessage_Locked ==
    /\ Opened /\ wire # Nil
    /\ wire' = Nil
    /\ IF dialog.lock_info THEN UNCHANGED <<showmachine, dialog, options>>
       ELSE /\ showmachine' = wire
            /\ dialog' = [dialog EXCEPT !.lock_info = dialog.edit # Nil]
            /\ options' = IF options.pristine THEN options
                          ELSE [options EXCEPT !.new_option = wire.opt]
    /\ UNCHANGED <<page, ServerVars, info_open, RequestVars, clicks>>

(* ws.onmessage of subscribe_machine_info.  lock_info spares the list of   *)
(* kinds of hardware and the form, never showmachine itself.               *)
InfoMessage ==
    /\ Opened /\ wire # Nil
    /\ showmachine' = wire
    /\ wire' = Nil
    /\ IF dialog.lock_info THEN UNCHANGED <<dialog, options>>
       ELSE /\ dialog' = [dialog EXCEPT !.lock_info = dialog.edit # Nil]
            /\ options' = IF options.pristine THEN options
                          ELSE [options EXCEPT !.new_option = wire.opt]
    /\ UNCHANGED <<page, ServerVars, info_open, RequestVars, clicks>>

(* It is lost, and what was on its way with it.                            *)
InfoCloses ==
    /\ Opened /\ info_open
    /\ info_open' = FALSE /\ wire' = Nil
    /\ UNCHANGED <<page, ServerVars, showmachine, dialog, options, RequestVars, clicks>>

(***************************************************************************)
(* Requests.                                                               *)
(***************************************************************************)
Click == Opened /\ clicks < MaxClicks /\ clicks' = clicks + 1

(* request(): counts one more request until the next message, forgets the  *)
(* last one, lets the messages in.                                         *)
Ask(what, dev, at) ==
    /\ showmachine' = [showmachine EXCEPT !.requests = @ + 1]
    /\ posts' = posts \cup {[slot |-> "pending", what |-> what, dev |-> dev, at |-> at]}
    /\ shown' = [shown EXCEPT !["pending"] = "none"]
    /\ failed' = failed \ {"pending"}
    /\ UNCHANGED <<page, ServerVars, InfoVars, subscribed>>

\* Mutant: only request() subscribes to the request it made.
PostAnswered_PendingOnly(p) ==
    /\ Opened /\ p.what # "set" /\ Len(requests) < MaxRequests
    /\ posts' = posts \ {p}
    /\ requests' = Append(requests, Request(p.what, p.dev, p.at))
    /\ subscribed' = IF p.slot = "pending"
                     THEN subscribed \cup {[slot |-> p.slot, id |-> Len(requests) + 1]}
                     ELSE subscribed
    /\ UNCHANGED <<page, server, InfoVars, showmachine, dialog, options, shown, failed, clicks>>

(* The post is answered with the request it made: subscribe_request.       *)
PostAnswered(p) ==
    /\ Opened /\ p.what # "set" /\ Len(requests) < MaxRequests
    /\ posts' = posts \ {p}
    /\ requests' = Append(requests, Request(p.what, p.dev, p.at))
    /\ subscribed' = IF p.what = "options" THEN subscribed
                     ELSE subscribed \cup {[slot |-> p.slot, id |-> Len(requests) + 1]}
    /\ UNCHANGED <<page, server, InfoVars, showmachine, dialog, options, shown, failed, clicks>>

(* The server sets a field at once.                                        *)
FieldIsSet(p) ==
    /\ Opened /\ p.what = "set"
    /\ posts' = posts \ {p}
    /\ server' = [server EXCEPT !.opt = p.dev]
    /\ UNCHANGED <<page, requests, InfoVars, showmachine, dialog, options,
                   subscribed, shown, failed, clicks>>

(* Or with an error and no request, which only request() looks at; or the  *)
(* post fails.                                                             *)
PostRefused(p) ==
    /\ Opened
    /\ posts' = posts \ {p}
    /\ \/ /\ p.slot = "pending"
          /\ shown' = [shown EXCEPT !["pending"] = "done"]
          /\ UNCHANGED failed
       \/ failed' = failed \cup {p.slot} /\ UNCHANGED shown
    /\ UNCHANGED <<page, ServerVars, InfoVars, showmachine, dialog, options, subscribed, clicks>>

(* ws.onmessage of subscribe_request.  Every websocket goes on telling of  *)
(* its request, the old ones too.                                          *)
RequestMessage(s) ==
    /\ Opened
    /\ shown' = [shown EXCEPT ![s.slot] = IF requests[s.id].done THEN "done" ELSE "requested"]
    /\ UNCHANGED <<page, ServerVars, InfoVars, showmachine, dialog, options,
                   posts, subscribed, failed, clicks>>

(* The websocket of a request is lost: its slot stays as it is.            *)
RequestCloses(s) ==
    /\ Opened
    /\ subscribed' = subscribed \ {s}
    /\ failed' = failed \cup {s.slot}
    /\ UNCHANGED <<page, ServerVars, InfoVars, showmachine, dialog, options,
                   posts, shown, clicks>>

(***************************************************************************)
(* Hardware.                                                               *)
(***************************************************************************)
Places == IF Opened THEN DOMAIN showmachine.hw ELSE {}
Idle == showmachine.requests = 0 /\ dialog.edit = Nil /\ dialog.remove_item = Nil

(* toggle_edit opens the form of one device; set_edit() closes it and      *)
(* leaves lock_info as it is.                                              *)
ToggleEdit(i) ==
    /\ Click /\ Idle
    /\ dialog' = [dialog EXCEPT !.edit = i, !.lock_info = TRUE]
    /\ UNCHANGED <<page, ServerVars, InfoVars, showmachine, options, RequestVars>>

CloseEdit ==
    /\ Click /\ dialog.edit # Nil
    /\ dialog' = [dialog EXCEPT !.edit = Nil]
    /\ UNCHANGED <<page, ServerVars, InfoVars, showmachine, options, RequestVars>>

(* change_hardware sends what the page holds at that index now.            *)
ChangeHardware ==
    /\ Click /\ dialog.edit # Nil /\ dialog.edit \in DOMAIN showmachine.hw
    /\ Ask("change", showmachine.hw[dialog.edit], dialog.edit)
    /\ \E close \in BOOLEAN :
          dialog' = [dialog EXCEPT !.lock_info = FALSE, !.edit = IF close THEN Nil ELSE @]
    /\ UNCHANGED options

AddHardware(d) ==
    /\ Click /\ dialog.edit = Nil
    /\ Ask("add", d, Nil)
    /\ dialog' = [dialog EXCEPT !.lock_info = FALSE]
    /\ UNCHANGED options

(* The button remove of a device opens a dialog that names the device.     *)
OpenRemove(i) ==
    /\ Click /\ Idle
    /\ dialog' = [dialog EXCEPT !.remove_item = [index |-> i, name |-> showmachine.hw[i]]]
    /\ UNCHANGED <<page, ServerVars, InfoVars, showmachine, options, RequestVars>>

CancelRemove ==
    /\ Click /\ dialog.remove_item # Nil
    /\ dialog' = [dialog EXCEPT !.remove_item = Nil]
    /\ UNCHANGED <<page, ServerVars, InfoVars, showmachine, options, RequestVars>>

(* remove_hardware('disk', index): a volume is removed by the file that is *)
(* at that index of hardware.disk now, a drive without one by the index.   *)
(* When there is nothing at that index the handler stops with an error.    *)
(* Hardware of the other kinds goes by its index as the drives do, in      *)
(* lists of their own.                                                     *)
RemoveHardware ==
    /\ Click /\ dialog.remove_item # Nil
    /\ LET i == dialog.remove_item.index
       IN  IF i \in DOMAIN showmachine.hw
           THEN /\ Ask("remove", showmachine.hw[i],
                       IF showmachine.hw[i] \in WithFile THEN Nil ELSE i)
                /\ dialog' = [dialog EXCEPT !.remove_item = Nil, !.lock_info = FALSE]
           ELSE /\ dialog' = [dialog EXCEPT !.remove_item = Nil]
                /\ UNCHANGED <<page, ServerVars, InfoVars, showmachine, RequestVars>>
    /\ UNCHANGED options

(***************************************************************************)
(* Options, names and copies.                                              *)
(***************************************************************************)
TypeOption ==
    /\ Click
    /\ options' = [new_option |-> 1 - options.new_option, pristine |-> FALSE]
    /\ UNCHANGED <<page, ServerVars, InfoVars, showmachine, dialog, RequestVars>>

ResetOptions ==
    /\ Click /\ ~options.pristine
    /\ options' = [new_option |-> showmachine.opt, pristine |-> TRUE]
    /\ UNCHANGED <<page, ServerVars, InfoVars, showmachine, dialog, RequestVars>>

UpdateOptions ==
    /\ Click /\ ~options.pristine
    /\ options' = [options EXCEPT !.pristine = TRUE]
    /\ posts' = posts \cup {[slot |-> "options", what |-> "options",
                             dev |-> options.new_option, at |-> Nil]}
    /\ UNCHANGED <<page, ServerVars, InfoVars, showmachine, dialog, subscribed, shown, failed>>

(* set_bool, and set and set_value behind a field: the page shows the new  *)
(* value before the server has it, and forgets a request that is done.     *)
SetField ==
    /\ Click
    /\ showmachine' = [showmachine EXCEPT !.opt = 1 - @]
    /\ shown' = [shown EXCEPT !["pending"] = IF @ = "done" THEN "none" ELSE @]
    /\ posts' = posts \cup {[slot |-> "set", what |-> "set", dev |-> showmachine'.opt, at |-> Nil]}
    /\ UNCHANGED <<page, ServerVars, InfoVars, dialog, options, subscribed, failed>>

Free(slot) == shown[slot] \in {"none", "done"}

(* rename and copy_machine show the request as requested at once; rebase   *)
(* only when it is told of.  Which name is typed, and what the server says  *)
(* of it, which may disable the button, is left out.                       *)
AskIn(slot) ==
    /\ Click /\ Free(slot)
    /\ posts' = posts \cup {[slot |-> slot, what |-> slot, dev |-> Nil, at |-> Nil]}
    /\ shown' = IF slot = "rebase" THEN shown ELSE [shown EXCEPT ![slot] = "requested"]
    /\ failed' = failed \ {slot}
    /\ UNCHANGED <<page, ServerVars, InfoVars, showmachine, dialog, options, subscribed>>

(* shutdown and shutdown_start close the form and let the messages in.     *)
Shutdown ==
    /\ Click
    /\ dialog' = [dialog EXCEPT !.edit = Nil, !.lock_info = FALSE]
    /\ UNCHANGED <<page, ServerVars, InfoVars, showmachine, options, RequestVars>>

(* action 'view': start the machine and wait for it in its own page.       *)
View ==
    /\ Click
    /\ page' = [at |-> "run", machine |-> page.machine]
    /\ UNCHANGED <<ServerVars, InfoVars, showmachine, dialog, options, RequestVars>>

-----------------------------------------------------------------------------
Server == OthersRequest \/ DaemonWorks \/ ServerSends \/ InfoCloses
Devs ==
    \/ \E i \in Places : ToggleEdit(i) \/ OpenRemove(i)
    \/ CloseEdit \/ ChangeHardware \/ CancelRemove \/ RemoveHardware
    \/ \E d \in Added : AddHardware(d)
Forms ==
    \/ TypeOption \/ ResetOptions \/ UpdateOptions \/ SetField
    \/ \E slot \in Kinds : AskIn(slot)
    \/ Shutdown \/ View

Next == \/ Server \/ InfoMessage
        \/ \E p \in posts : PostAnswered(p) \/ FieldIsSet(p) \/ PostRefused(p)
        \/ \E s \in subscribed : RequestMessage(s) \/ RequestCloses(s)
        \/ Devs \/ Forms

(* The daemon works, the server sends on the websockets that are there, and*)
(* every post is answered.  Nobody owes a loss or its absence.             *)
Fairness ==
    /\ WF_vars(DaemonWorks) /\ WF_vars(ServerSends) /\ WF_vars(InfoMessage)
    /\ WF_vars(\E p \in posts : PostAnswered(p) \/ FieldIsSet(p) \/ PostRefused(p))
    /\ \A i \in 1..MaxRequests :
          WF_vars(\E s \in subscribed : s.id = i /\ RequestMessage(s))

-----------------------------------------------------------------------------
(* The page comes to show the machine as the server has it, although the   *)
(* user edited, closed forms without saving, and lock_info may stay set    *)
(* for ever; unless the websocket of the machine is lost, which leaves an  *)
(* old machine on the page.                                                *)
MachineIsShown ==
    <>[](Opened /\ info_open) => <>[](Opened /\ showmachine.hw = server.hw /\ showmachine.opt = server.opt)

(* What the user asked for ends on the page, though old websockets go on   *)
(* telling of older requests: no slot says requested for ever, which would *)
(* leave its button disabled, unless since it was last asked for a post of *)
(* it failed or a websocket of it was lost.                                *)
RequestsEnd ==
    \A slot \in Slots :
        <>[](Opened /\ slot \notin failed) => <>[](shown[slot] \in {"none", "done"})

(* "Type the name of the volume disk to confirm": a removal that the       *)
(* dialog confirms is of the device that the dialog names.                 *)
RemovesTheNamed ==
    [][\A p \in posts' \ posts :
         p.what = "remove" => p.dev = dialog.remove_item.name]_vars
=============================================================================
