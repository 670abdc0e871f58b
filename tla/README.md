# Ravada in TLA+

Ravada is a broker of virtual desktops: a web frontend where users ask for
machines, a backend daemon that owns the hypervisors, a database between
them, and pages in the browser that learn over websockets what the others do.
This directory holds a TLA+ model of the parts of it whose correctness
depends on several actors taking steps in an order that nobody chose, the TLC
configurations that check the model, and proofs checked by TLAPS.

* [Inventory](#inventory): the parts of the system
* [Modules](#modules): what models what
* [Runs](#runs): what is checked, with which bounds
* [Disagreements](#disagreements-between-the-code-and-what-is-said-of-it)
* [Fairness](#fairness)
* [Proofs](#proofs)
* [Abstractions](#abstractions)
* [Not modelled](#not-modelled)

## Inventory

| part | state it keeps | operations | talks to |
|---|---|---|---|
| Request queue (`lib/Ravada.pm` `process_requests` … `_wait_pids`, `lib/Ravada/Request.pm`, `script/rvd_back`) | table `requests`; in the daemon `$self->{pids}` | insert, validate, fetch, select, mark, fork, execute, retry, postpone, stop, time out, reap, restart | everybody inserts; the daemon forks; children run the commands |
| Domain life cycle (`lib/Ravada/Domain.pm`) | table `domains`, instances in nodes, the hypervisor | start, shutdown, hibernate, remove and the hooks around them | called by the commands |
| Host devices (`Domain.pm` `_attach_host_devices` …, `HostDevice.pm`) | `host_devices_domain`, `host_devices_domain_locked` | choose, lock, attach, detach, unlock, expire | called by start, shutdown and refresh, in different processes |
| Exposed ports (`Domain.pm` `_add_expose` …, `VM.pm` `_new_free_port`) | `domain_ports`, iptables | choose a port, open, close, move | start, shutdown, `open_exposed_ports` |
| Clones and pools (`Ravada.pm` `_cmd_clone`, `_cmd_manage_pools`) | `domains.is_pool`, `comment`, `id_owner` | create and start clones ahead of use, give one to a user | the queue, the frontend |
| Bases, nodes, balancing (`Ravada.pm` `_cmd_set_base_vm`, `Domain.pm` `rsync`) | `bases_vm`, `domain_instances` | prepare a base, copy it to nodes, choose where a clone starts | the queue, ssh |
| Limits and cleanup (`Ravada.pm` `_enforce_limits_active`, `_clean_volatile_machines`) | none of its own | stop the machines above a user's limit, remove temporary ones | the life cycle |
| Volumes (`lib/Ravada/Volume*`) | files | qemu-img | commands |
| Virtual managers (`lib/Ravada/VM*`) | connections, `vms.is_active` | connect, search, list | libvirt, nodes |
| Networks (`lib/Ravada/NetInterface*`, `Route.pm`) | hypervisor networks | XML | libvirt |
| Bookings (`lib/Ravada/Booking*`) | `bookings`, `booking_entries` | who may start what at an hour | start, bundle of pages |
| Users (`lib/Ravada/Auth*`) | users, grants, sessions | login, grants | LDAP, OpenID, SSO |
| Pages of users (`public/js/ravada.js`: `mainpageCrtl`, `run_domain_req_ctrl`) | the list of machines with the clone chosen in each, dialogs, the websockets of a start | start, shut down, restore, choose; wait for a machine | websocket, routes |
| Pages of administrators (`public/js/admin.js`, `singleMachinePageC` of `ravada.js`) | the tree of machines, one machine with its dialogs and requests, lists of access, the nodes | open and close bases, change hardware and options, grant, start and check nodes | websocket, routes |
| Booking pages (`public/js/booking/*`) | events of the calendar, the form, its conflicts | select hours, edit, save with a mode, remove | routes |
| Web frontend (`script/rvd_front`, `lib/Ravada/Front*`) | sessions | routes; every change is a request | the queue |
| Websocket (`lib/Ravada/WebSocket.pm`) | subscriptions | push the differences | browsers |
| Schema, ISO repository, translations, templates | | | |

The backend is one master process that loops over the table `requests`
(`rvd_back` `do_start`), and one child for each request it executes. The
frontend, the commands running in the children and the daemon itself insert
rows. Nobody locks the table: every read of a row may be old when it is used.

The pages are the other concurrent part. A page keeps a copy of what the server
has; the server sends new copies over a websocket whenever it likes; posts and
lists are answered in any order; timers fire between them; and the user clicks
on what is shown at the moment of the click. Nothing in the scripts makes one
of these wait for another. The repository has no test that runs these scripts.

### What makes each part correct

* *Queue*: a request executes in one process at a time; a type has no more
  processes than its limit; two requests with one command about one machine do
  not execute together; nothing executes before what it comes after is over;
  changes of a machine's hardware execute in order; a request that was inserted
  ends, whatever dies meanwhile.
* *Host devices*: a device is in the configuration of one active machine at
  most; a lock outlives its machine only for a while.
* *Ports*: one public port of a node belongs to one machine.
* *Pools*: a clone is given to one user; the number of clones reaches what the
  pool asks for and stays there.
* *Nodes*: a machine runs in one node; a clone starts only where its base is.
* *Limits*: a user above the limit ends at the limit, and nobody below it loses
  a machine.
* *Bookings*: a booking that was checked and is saved overlaps no other; who
  may start a machine now agrees with the intervals booked.
* *Pages*: a button acts on what its card or dialog shows; what a page shows
  becomes what the server has; a choice of the user is not undone by a message
  that has nothing to do with it; a request that is watched is seen to end; a
  lost connection is told.

`PROJECT.json` lists under `hazards`, line by line, what can go wrong in the
code and which property would notice.

## Modules

`RequestQueue` is the queue as the code implements it. `JobQueue` is what it
promises to those who insert requests. `MCRequestQueue` gives the instances
TLC checks. The theorems are in a chain of modules, each of which extends the
one before: `RequestQueue_proofs` (types, what is working, single execution),
`RequestLimits_proofs` (limits and exclusion), `JobQueue_proofs` (the promises)
and `HardwareOrder_proofs` (the order of hardware changes).

Each page is a module: `UserMachines`, `RunMachine` and `Booking` for users,
`AdminMachines`, `MachineSettings`, `PageLists` and `NodesPage` for
administrators. `UserPages` and `AdminPages` compose them into a browser that
has one page open at a time, and `MCUserPages` and `MCAdminPages` give the
instances. `UserMachines_proofs` and `PageLists_proofs` hold the theorems of
those pages, `UserPages_proofs` and `AdminPages_proofs` those of the composed
browsers; the bookings and the tree of machines are proved about there.

### RequestQueue

The state is the table and the processes:

| variable | in the code |
|---|---|
| `requests[r]` | row `r` of `requests`: status, whether there is an error, `at_time` (not set, reached, in the future), `retry`, `after_request`, `after_request_ok`, `pid`, whether `start_time` is set |
| `proc[p]` | the process with pid `p`: for which request it was forked and how far it is in `_do_execute_command`; a zombie until somebody waits for it |
| `pids` | the keys of `$self->{pids}`: what the daemon remembers |
| `master` | how far `process_requests` is |
| `todo`, `selected`, `seen`, `current` | rows still to be looked at, `@reqs`, `%duplicated`, and the request in `_execute` |
| `callers` | requests whose row is inserted and whose `_validate` has not returned |
| `crashes` | a bound: how many deaths happened |

What a request asks for never changes and is a constant, `Args[r]`; the ids are
given in order, and which of the callers inserts which is not told apart.

An action is a piece of the code between two accesses to the table that another
process could come between:

| actions | code |
|---|---|
| `NewRequest`, `ValidateRequest` | `Request.pm` `start_domain`, `_new_request` up to the INSERT; then `_validate` and the second `status('requested')` |
| `Housekeeping`, `KillStaleProcess`, `KillDeadProcess`, `TimeoutRequests` | the block that `process_requests` runs once a minute |
| `FetchRequests`, `PingBackend`, `FailRequest`, `SelectRequest`, `SkipRequest`, `EndSelect` | its first loop: the query, `requirements_done`, `%duplicated`, `_domain_working` |
| `CheckRequest`, `EndPass` | its second loop, by priority |
| `MarkWorking`, `ReapBeforeFork`, `Fork`, `WaitForOthers` | `_execute`: status and start time, `_stop_refresh`, `_wait_pids`, `_can_fork`, `fork` |
| `ChildBegin`, `ChildFinish`, `ChildAsksRetry`, `ChildReschedules`, `ChildExit` | `_do_execute_command`: note that a retried row is requested again one step before it is delayed |
| `ChildPostpones` | `_cmd_prepare_base` of an active machine: it inserts a shutdown and comes back after it |
| `TimePasses` | the clock reaches an `at_time` |
| `ChildDies`, `Crash`, `Restart` | a process or the daemon dies; systemd starts it again and `clean_old_requests` runs |

Accesses that no other actor can tell apart are one action: the four writes of a
`prepare_base` that postpones itself, because the row says working, which
nobody takes, until the last of them; the writes of `WaitForOthers`, for the
same reason; the status and the pid that a child writes when it begins.

Two facts deserve a word, because properties hang on them:

* `_wait_pids` asks `kill(0, $pid)`, which a zombie answers; the children are
  waited for at the end of the same call. A process that ended is therefore
  noticed by the second call after its end (`GonePids`), and only then is the
  row of its request marked done if it says working.
* A request that finds no room (`WaitForOthers`) keeps the status waiting until
  the process that is forked for it later begins.

### JobQueue

A job is new, pending, running or over; it starts only when all it comes after
is over, and what is over stays over. A running job may be put back, and told
then to come after others: that is what `prepare_base` does when it waits for
the shutdown it asked for. `Queue` in `RequestQueue` is the instance
that maps a row and its processes to a job (`JobOf`), and the property
`KeepsPromises` says that the queue implements it.

### The pages

All of them share the variable `page`, the page that is open and the machine it
is about. An action is a handler of the script, a step of the server, or the
arrival of a message; a handler that posts or asks and goes on in `.then` is
two actions with the server's step between them. Loading a page (`LoadRun`,
`GoesHome`, `GoesBooking`, `Goes`) forgets all that the script knew.

| module | variables | actions |
|---|---|---|
| `UserMachines` | `rows` is what `list_machines_user` would answer, `wire` the answers on their way, `machines` is `$scope.machines`, `limits` the calls of `checkMaxMachines` that wait, `confirming` is `confirming_stop_data` | `Receive` is `ws.onmessage` with the whole merge (`Merged`, `Copied`, `CopyClones`, `SetOneClone`); the buttons of a card: `Choose`, `ClickStart`, `StopYes`, `ClickShutdown`, `AskRestore`, `AskPrepare` and their answers; `LimitAllows`, `LimitReached`, `LimitFails`; the websocket `SocketOpens` and `SocketCloses`, which the script does not notice |
| `RunMachine` | `req` and `machine` at the server, `sockets` and what each is subscribed to, `timers` of closed sockets, `scope`, `posts` | `RequestMessage`, `BaseMessage`, `MachineMessage` are the `ws.onmessage` of `subscribe_request` and `subscribe_domain_info`; `SocketCloses`, `CloseTimer`, `ConnectAgain`; `ReloadPorts`, `Logout` |
| `Booking` | the table `entries`, the calendar's `fetch` and `events`, the `form`, its `checks` and `conflicts`, the `post` that saves | `NewEntry`, `EditEntry`, the fields (`SetDate` ... `SetGroups`), `CheckReads` and `CheckShows`, `SaveNew`, `Confirm` with a mode, `ServerSaves` (`BUILD`, `change`), `Answered`, `FetchReads`, `FetchShows`; `InRange` is the query of `bookings_range` |
| `AdminMachines` | `rows`, what the server keeps of the `client`, the `list` (its entries past `length` too, which the script leaves), `show_clones`, `show_machine`, `show_active`, `modal` | `SendsList` and `SendsChanges` are `_list_machines_tree`, `Told` and `ToldActive` are `manage_action`, `Receive` takes new lists and changes, `ToggleShowClones`, `ShowClones`, `ToggleShowActive`, the dialogs, and the loss of the websocket |
| `MachineSettings` | the machine at the `server` and its `requests`, whether its websocket is there (`info_open`), `showmachine`, the `dialog` that is open with `lock_info`, the form of `options`, the requests that are watched and what is `shown` of them | `InfoMessage`, the dialogs of hardware, `RemoveHardware`, options, fields, `AskIn` (rename, copy, rebase), `PostAnswered`, `PostRefused`, `RequestMessage`; `InfoCloses` and `RequestCloses` lose a websocket |
| `PageLists` | how many times each table changed (`current`), which of these each list shows, changes and lists on their way | one action per handler (`AddAccess` ... `RemoveMember`); `ServerChanges`, `Answered`, `ServerLists`, `Shows` and the failures |
| `NodesPage` | the nodes at the server and in the page, lists on their way, the request being checked and its `polls` | the buttons, the dialog that disables, `Interval`, `PollTimer`, `PollAnswered`; `LoadFails`, `GetFails` and `PollFails`; nodes that go up and down |

Facts that the properties hang on:

* The merge keeps the object of a machine that stays in its place, so a
  handler that waits for an answer may hold a machine that is shown no more:
  `Hold` and `Follow` say which one it holds.
* In `RunMachine` and `AdminMachines`, `ws.onclose` tells the user five seconds
  later, and the timer is not cancelled by connecting again. The websockets of
  `UserMachines` and `MachineSettings` have no `onclose` and are opened once:
  one that is lost stays lost and the page keeps what it shows. `ws_fail` says
  only that the first one has not opened within a minute.
* `fetch_request` of `NodesPage` has no `catch`: a question about a request that
  fails is the last one.
* The first message of a websocket only makes the client at the server
  (`subscribe`), whatever it says. A list that shows the active machines and
  connects again tells that first, so the server does not hear of it; what it
  tells of the bases comes later and is heard (`SocketOpens`).
* The list of `AdminMachines` is an object with numbers for keys: setting its
  `length` to less leaves the entries after it where they are.
* The server lists a machine only below bases that it lists (`Tree`), and a
  machine that was removed never comes back with its id; so no list of
  `AdminMachines` holds a machine without its bases, which is what lets
  `set_show_clones` climb down by the machines of the list.

## Runs

The runs of the queue (`clones` to `crash`, and `limit` to `cycle` below)
instantiate `MCRequestQueue`. Deadlock is not checked: when every
request is done and nothing is inserted the master still loops, but a run where
pids are exhausted stops, and the bounds are chosen so that this hides nothing
(the liveness properties would fail). The real limits of the types are long 4,
disk_low_priority 2, disk 2, huge 1, secondary 50, important 20 and iptables 4;
the instances use one or two, so that they are reached.

| run | instance | checks |
|---|---|---|
| `clones` | five requests, two processes at once, five pids | `LimitRespected`, `OneProcessPerRequest`, `SameCommandExclusive`, `NotDoneEarly`, `DependencyRespected`, `KeepsPromises` |
| `hardware` | three hardware changes and a volume move of a machine in one second, one process at once | `HardwareInLine`, `HardwareInOrder` |
| `retry` | `prepare_base` of an active machine, its shutdown, and a `set_base_vm` that depends on its success and may retry once | `TypeOK`, `EventuallyDone` |
| `crash` | the same without that retry, and one death, of any process or of the daemon, at any moment | `WorkingIsTracked`, `EventuallyDone` |
| `userpages` | `MCUserPages`: six lists of machines (a base with no, one and two clones, in other places and orders, active and not), two clicks, one change and one answer on its way; a start with one loss of a websocket; three days of bookings, two forms, one edit, one other booking | `ChosenIsListed`, `ShowsTheAnswer`, `KeepsTheChoice`, `ShowsTheServer`, `StartIsNoticed`, `ListensOrTells`, `NewIsFree`, `ShowsWhatISaved` |
| `adminpages` | `MCAdminPages`: a base, its clone that is a base and a clone of that, three clicks, one change, one loss; a machine with one volume, which somebody else may remove, and another that may be added, two requests, two clicks, any loss of a websocket and any failure of a post; two changes of lists; two nodes and two events | `ClosingHides`, `SettledIsCurrent`, `ListIsCurrent`, `MachineIsShown`, `RequestsEnd`, `NodesAreShown`, `ChecksEnd` |

Of the queue, `NotDoneEarly` is the property that the others lean on: no request
is done while a process executes it or the daemon is about to fork for it.
`_can_fork`, `requirements_done` and `_domain_working` all look at the status of
a row, and are right as long as it is. `SameCommandExclusive` leaves out the
commands that `_domain_working` lets pass, `list_cpu_models` among them, and the
requests of no machine.

What the properties of the pages say: the chosen clone of a card is one of those
listed (`ChosenIsListed`); an answer is shown whatever was shown before
(`ShowsTheAnswer`) and leaves the choice alone when it brings the same clones
(`KeepsTheChoice`); a page that stays open comes to show what the server has
(`ShowsTheServer` and `MachineIsShown` unless its websocket is lost,
`ListIsCurrent` while the websocket is open and no dialog is, `NodesAreShown`
while no dialog is); a
machine that starts and stays up is noticed unless a loss is told
(`StartIsNoticed`), and a page that tells no loss listens (`ListensOrTells`);
a booking for which the form was told of no conflict overlaps nothing if nobody
changed anything since (`NewIsFree`), and is then seen in the calendar
(`ShowsWhatISaved`); the step that closes a base hides its clones and theirs
(`ClosingHides`); lists that cross each other settle on the table
(`SettledIsCurrent`); no place of the page says requested for ever, unless
since it was last asked for a post of it failed or a websocket of it was lost
(`RequestsEnd`); nor does a check of a node, unless an answer to a question
about it failed (`ChecksEnd`). Each of these exceptions is one the scripts
leave the user in: the page shows something old and does not say so.

The bounds: `NRequests` is what the interesting cases need (a request that
competes, one that it comes after, one that depends on success); `NPids` is
more than the processes that a run forks before the daemon forgets the first;
one crash reaches every state a second one could start from, except the death
of a process after a restart, which the run with one crash reaches from the
initial state; `PrepareBaseRetries` is 1 instead of 5. A `prepare_base` postpones
itself once for each shutdown it can insert, and the runs have one: it comes
back and goes on when its shutdown is over. Running out of retries takes two
shutdowns, and a run with them and with what `retry` and `crash` have besides
does not finish in five minutes; so that no retry goes below zero, and what the
queue promises then, rest on the theorems, which hold for any number, and that
such a request ends is not checked. The run `clones` has no postponement: of
its properties only the theorems speak of one.

The bounds of the pages count what the user, the network and other people do;
what the page and the server do by themselves is not bounded except for
messages on their way. One change of the server beside two or three clicks
gives every order of a message and a click on what it changes, and the merges
look at one old and one new list; `rename` stands for `copy`, whose request is
shown in the same way, and for `rebase`, which shows it only when it is told of
it; two posts, two forms or two events are what
it takes for answers to cross; the clicks open two bases and close one; three levels of machines are the fewest where a
base that is closed hides more than its own clones. A page that is loaded again
starts from its first state, so the bounds hold for each visit. Deadlock is not
checked: a page whose bounds are used up, or one that was left for a page that
is not modelled, stops.

`PromptChildren` and `PromptCallers` are assumptions about time, of which the
model knows nothing else. The first says that a forked process sets its row to
working before the next pass begins (the daemon sleeps up to a second between
two passes, though not always: `rvd_back` skips the pause when `rand(5) > 2`
while a cleanup is due); the second that a caller validates its
request before anything else happens to it. The runs that pass assume both; the
runs `limit` and `cycle` show what happens without them.

To check one: `tlc -config RequestQueueClones.cfg MCRequestQueue`; to check the
proofs: `tlapm RequestQueue_proofs.tla`, and the same for
`RequestLimits_proofs`, `JobQueue_proofs`, `HardwareOrder_proofs`,
`UserMachines_proofs`, `UserPages_proofs`, `PageLists_proofs` and
`AdminPages_proofs`. The passing runs take one to four
minutes each with two workers.

Each property of a run has a mutant in the module beside the definition it
replaces (`CanFork_UpTo`, `WaitPids_OnlyForgets`, …): a plausible bug in the
code that makes TLC find the property violated.

## Disagreements between the code and what is said of it

| run | property | what happens |
|---|---|---|
| `limit` | `LimitRespected` | a waiting request is taken by two passes before its process begins; forked again after it is done, it is not counted, and the limit is exceeded |
| `afterretry` | `DependencyRespected` | a retried request is marked done when its first process is found gone, and what comes after it starts while its second process runs |
| `autostart` | `DependencyRespected` | `requirements_done` forgets what `after_request` said when there is an `after_request_ok` |
| `older` | `HardwareInLine` | `_search_request` orders seconds forwards and ids backwards, so a change follows an old one and not the last one |
| `cycle` | `EventuallyDone` | two hardware changes inserted together wait for each other for ever |
| `removedisk` | `RemovesTheNamed` | the dialog that makes the administrator type the name of a volume asks for the removal of the file that is in its place when it is confirmed; somebody else removed the volume, a message of the machine has put the next one there, and that one's file is removed |

These are not the last word on their properties: the run `clones` checks
`LimitRespected` and `DependencyRespected`, and the run `hardware`
`HardwareInLine`, where nothing of the kind happens, and the theorems below say
for every instance what has to happen for them to fail.

One stronger property of the tree of machines was tried and is none of the code:
that no list shows a clone below a base that is closed. `set_show_clones` hides
what the page holds at the click. A list on its way that was made before a base
was opened takes its clones out of the page; if the base above is closed just
then, `show_machine` of those clones stays true, and the next list shows them
below two closed bases (five clicks and one old list; the server is not told of
the bases that are closed with another one, and goes on sending their clones).
`ClosingHides` says what does hold, of the step that closes a base.

## Fairness

`FairSpec` assumes

* weak fairness of the master's steps: `do_start` is an endless loop, and each
  step of a pass is enabled until it is taken;
* strong fairness of `Housekeeping`: the block runs when more than a minute has
  passed, so in between it is not enabled, but a pass that finds it enabled
  again and again takes it;
* weak fairness of every child: a forked command comes to an end (commands have
  time-outs in the libraries they use; one that does not end is what
  `_kill_stale_process` is for);
* weak fairness of the clock for each `at_time`, and of the caller that has
  inserted a request and is about to validate it.

Nobody is obliged to insert a request, to kill a stale process, or to die.

Of the pages, while they are open:

* `UserMachines`: weak fairness of the websocket that connects, of the server
  that sends while the websocket is open (its loop runs every three seconds), of
  the handler, and of the answer to each question about the limit;
* `RunMachine`: weak fairness of the daemon's work on the request, of what the
  server sends to each socket and its handler, of the timer of a closed socket,
  and of the answers to posts;
* `Booking`: weak fairness of the answers to the calendar and to what is saved;
* `AdminMachines`: weak fairness of connecting, of the timer and of the handler,
  strong fairness of a new list (`SendsList`): the server sends one of every sixty times at
  least, with changes in between that leave no room for it;
* `MachineSettings`: weak fairness of the daemon, of the messages, of the end of
  each post, and of each websocket of a request that is there;
* `NodesPage`: weak fairness of answers, of the daemon and of the timers, strong
  fairness of lists that are read and shown: some may fail, not all for ever.
  Operations and questions may all fail;
* the browser loads the page it was sent to.

Nobody owes a click, a change, a lost connection, a failure or its absence.

## Proofs

### Types, what is working, single execution

`RequestQueue_proofs` proves, for every number of requests, of pids and of
crashes, for every `Args` and `Limit` that satisfy the assumptions:

* `TypeCorrect`: `Spec => []TypeOK`.
* `WorkingTracked`: `Spec => []WorkingIsTracked`.
* `NoDoubleExecution`: `PromptChildren /\ PromptCallers /\ Spec =>
  []OneProcessPerRequest`.

The assumptions are `SizeAssumption`, `ArgsAssumption` (a request depends on
requests that were inserted before it, ids follow the clock, and nobody depends
on the success of a request that a restart deletes, which is true of all
callers in the code) and `LimitAssumption`.

*The first two* follow from one inductive invariant, `IInv`: `TypeOK`, `ProcessesKnown` and
`WorkingIsTracked`. `ProcessesKnown` says that every process and every
remembered pid belongs to a request and that `current` is one while the master
is executing; without it `requests[proc[p].req]` could be anything and a step
of a child would lose its type. `WorkingIsTracked` is inductive with them: the only
actions that make a row working are `MarkWorking`, which leaves `current` as
the witness, and `ChildBegin`, whose process is remembered; the only ones that
remove a witness are `WaitPids`, which marks the row done, `Fork`, which adds
the pid, `WaitForOthers`, which changes the status, and the crash.

*The third* needs `EachOnce`: a request that is being executed is in none of the
master's lists and is not what it is about to fork; the row of a running process is working or
done; and a request that its caller has not validated has no process and is in
no list. A pass can only take a request again when its row is requested, retry
or waiting, and with prompt children no executing process has such a row when
`FetchRequests` reads the table. The proof is one lemma for each kind of step
(`OnceSelect`, `OncePass`, `OnceExecute`, `OnceChild`), and `StillOnce` for the
many steps that start nothing.

### Limits and exclusion

`RequestLimits_proofs` proves in two stages what rests on the status of a row.

* `LimitWhileNotDone`: `Spec /\ []NotDoneEarly => []LimitRespected`, and
  `ExclusiveWhileNotDone`, the same of `SameCommandExclusive` with
  `PromptChildren` and `PromptCallers`. While no request is done early, the
  limits of the types hold and two requests with one command about one machine
  exclude each other, whatever is retried, killed or restarted.
* `NothingDoneEarly`: `PromptChildren /\ PromptCallers /\ NothingComesBack /\
  Spec /\ [][~ Accident]_vars => []NotDoneEarly`. With the first stage it gives
  `LimitHolds` and `ExclusiveHolds`.

What the second stage assumes is what its counterexamples need. `NothingComesBack`:
a request that is retried has a second process, and the end of the first, found
by `_wait_pids`, marks the row done (run `afterretry`). `Accident` is one of two
steps: a process that dies between `fork` and the first statement of
`_do_execute_command` may leave a row that says waiting, which a later pass
executes again while the pid of the dead process is remembered, and marks done
as before; and the start of a machine may cancel a low priority request that the
daemon has checked and not forked for yet, so that a done request is executed. Any other
death, kill, crash and restart is allowed.

The invariant of the limit is the limit itself: `Fork` is the only step that adds a process, it is enabled when
`CanFork` counts fewer rows than the limit, and with `NotDoneEarly` each process
of the type is one of the rows it counts. `OnePid`, the invariant of
`NothingDoneEarly`, says that a request has one pid in its life, that its row
has it and no other row has, and what the row may say (`RowFits`) in each state
of the process: so the pid that `_wait_pids` finds gone is that of the only
process. `Alone`, the invariant of exclusion, says that of two `Twins` (one
command, one machine) no two are chosen or executing at a time, and that during
`select` each one selected has been `seen` by `%duplicated`.

### The promises

`JobQueue_proofs` proves the refinement: `PromisesWhileNotDone`,
`PromptChildren /\ PromptCallers /\ OneRequirement /\ Spec /\ []NotDoneEarly =>
KeepsPromises`, for every number of requests; `PromisesKept` replaces
`[]NotDoneEarly` by `NothingComesBack` and no `Accident`. `KeepsPromises` is the
specification of `JobQueue` under `JobOf`, so the proof has an initial state and
a step for each job: `RowStep` sorts what a step may do to a row into a few kinds
(`CallerRows`, `MasterRows`, `ChildRows`), and each kind is a step of a job.
`OneRequirement` says that no request has an `after_request_ok` beside an
`after_request`, given or set by `_validate` (run `autostart`). The invariant,
`Ordered`, says that what is chosen or executed comes only after jobs that are
over, that nobody deletes it, and that nobody comes after a request that its caller has
not validated. `DependenciesRespected` follows: `[]DependencyRespected`.

### The order of hardware changes

`HardwareOrder_proofs` proves `HardwareWaits` (`[]HardwareInLine`) and
`HardwareOrdered` (`[]HardwareInOrder`), under the hypotheses of
`PromisesWhileNotDone` and two more: `OneSecond`, that the changes of a domain
are asked for in one second, since `_search_request` finds the last only then
(run `older`), and no step that `Cancels` a move of a volume because its machine
starts: it is done then, and the change that waited for it starts though older
ones are pending.
`SearchLast` says what a search finds, and the invariant
`Lined` that each change comes after the last one before it that is not over,
and that when one starts or ends all before it are over. The first of these
is what `HardwareInLine` says, the second is what makes it inductive: a change that is
over may be forgotten, and nothing older than it is pending.

### Machines of users

`UserMachines_proofs` proves, for all lists of machines and clones and any
bounds, from `AnswersAssumption` (rows have the columns the page reads, and a
machine is listed once):

* `AlwaysChosen`: `Spec => []ChosenIsListed`. The invariant `IInv` says that the
  cards, the answers on their way and the server's list have their types and
  that every card is `Listed`. Each handler keeps the clones and the choice of
  its card, or chooses among the clones it lists; the merge is the hard case
  (`MergedSeen`): a card that is copied without choosing again has the same
  clones in the same places (`CopiedListed`), because a clone that came, went or
  moved makes `Reload` true.
* `AlwaysShows`: `Spec => ShowsTheAnswer`, from the same lemma
  (`CopyClonesSeen`: whichever objects are kept, the user sees the clones of the
  answer), and from `ReceivesIsReceive`: no other step takes an answer.
* `AlwaysKeeps`: `Spec => KeepsTheChoice`.

`UserPages_proofs` proves the same of `PagesSpec`, where the page is left and
loaded again beside the others (`PagesChosen`, `PagesShow`, `PagesKeep`): its
lemma `OtherPages` says that a step of another page takes no answer and leaves
what is shown, or nothing.

### Bookings

`UserPages_proofs` proves `PagesFree`, `PagesSpec => NewIsFree`, for any number
of days, hours, bookings of other people, forms and edits, from
`BookingAssumption` (a week has days, the entries there are at first and the
hours that may be selected have numbers, and undefined is none of them). The
invariant, `BookingInv`, has two parts that matter beside the types: each answer
about conflicts that has not been shown, and the one that is, is `Told`: it is
of an older version of the table, or it found what the question would find now;
and the last day of the form is no earlier than the first (`FormTyped`), which
`updateDates` sees to. Then the two lemmas that a test by examples would hardly
replace: `DatesAsked`, every day that `BUILD` makes an entry for is in the range
and on a day of the week that was asked about, with and without `repeat`; and
`OverlapMeets`, hours that overlap satisfy one of the three conditions of
`bookings_range`. `OnlyServerSaves` excludes that another step adds the entries.

### Pages of administrators

`PageLists_proofs` proves `SettledShowsCurrent`, `Spec => []SettledIsCurrent`,
for any number of changes and lists on their way. `SettledIsCurrent` says
nothing of what is under way, so the invariant does: a list that is not excused
is `Owed` by a change that was made and not answered, or `OnItsWay` with the
last number that was asked for and what the table is now, or `Shown`
(`UpToDate`). Its steps need that each change asks for all the lists that show
its table (`ReloadsAll`) and that the numbers of the lists on their way are
distinct and not the last that arrived (`Numbered`).

`AdminPages_proofs` proves of `AdminMachines` and of the composed pages, for any
tree of machines that has a root and whose `Nil` is no machine or message
(`TreeAssumption`), and any bounds:

* `ClosedOnceHidden`: `Spec => ClosingHides`, and `PagesClosedHidden`, the same of
  `PagesSpec`, where pages are left and loaded again.
* `PagesSettle`: `PagesSpec => []SettledIsCurrent`. `LP` is the instance of
  `PageLists_proofs` with the variables of the pages, so the lemmas of the
  component are used and only the loading of a page is new.

`Ancestors` is the smallest set that is closed under `Base` and not a recursive
operator, so that its facts have proofs: `AboveItsBase` (what is above a machine
is its base or above its base) and `HigherIsAbove` (it is transitive). The invariant `TreeInv` has
the types of the server, the messages, the switches and the list (`ServerTyped`,
`WireTyped`, `ShowTyped`, `ListTyped`), and that no list, on its
way or shown, holds a machine without its bases (`ListWithBases`). The server's
lists have that by `Tree` (`TreeHasBases`); a refresh only replaces rows, of a
list that is there, for `LinkInv` says that changes are on their way only to a
page that has a list (`HasList`), and that a list which the server sent to a
client is in the page or on its way; the
step that closes a base climbs down the machines of the list, and without
`ListWithBases` a machine whose base is missing would stay shown.

### Not proved, and why

The properties that say that something comes to be are liveness under fairness,
out of the prover's reach, and stay with TLC: `EventuallyDone`,
`ShowsTheServer`, `StartIsNoticed`, `ListensOrTells`, `ShowsWhatISaved`,
`ListIsCurrent`, `MachineIsShown`, `RequestsEnd`, `NodesAreShown`,
`ChecksEnd`. All the others are stated by a theorem.
`LimitRespected`, `SameCommandExclusive`, `DependencyRespected`, `KeepsPromises`
and the two of hardware are theorems under hypotheses, because the code breaks
them without: the runs of the disagreements show how.

## Abstractions

* `_kill_requests` writes the status stopping before it kills and done after
  it, which is one step (`TimeoutRequests`): whoever reads the row between the
  two finds a request that is not over, as before.
* Time: an `at_time` is not set, reached or in the future; `start_time` is set
  or not, and a kill that depends on its age may or may not happen;
  `date_req` is the second of the insertion and part of `Args`.
* A command has no effect but on the queue; it succeeds, fails, asks for a
  retry, or (prepare_base) postpones itself.
* The other commands that requeue themselves (migrate, shutdown of a machine
  that is starting, moves) and the requests that commands insert are not
  modelled, except that anybody may insert any request at any moment.
* The check for duplicates (`_duplicated_request`, `done_recently`) returns an
  old request instead of inserting; in the model duplicates are inserted.
* The download of an ISO image that a create waits for (`_check_downloading`).
* `process_requests` with a request type or without forking, which only tests
  and debugging use.
* `domains.is_locked`, messages, `run_time`, results: nothing in the queue
  reads them.
* Of the pages: a machine is its id and what the properties tell apart (active,
  base, date of its last change); the hardware of `MachineSettings` is its list of
  disks, volumes and drives (the code has one list for each kind and looks in
  none but that of the kind), a device is a name; an option is one value;
  days and hours are small numbers;
  which changes are late enough for a refresh of `AdminMachines` is any moment
  (`since` in `SendsChanges`), as the code's window is seconds long. What a list of `PageLists` shows is how many
  changes its table had when it was read.
* `UserPages` and `AdminPages` take the server as at first when a page is
  loaded: the pages share nothing but the server, and each is loaded with a
  fresh copy of it.
* In `NodesPage`, starting and stopping a node also asks the daemon to look at
  it again (`connect_node`), which changes nothing that the model has.
* In `Booking` the user may edit every entry, as its owner or an operator may;
  for others the form has no buttons.
* A dialog is left by its buttons: the key Escape, which closes some dialogs
  without telling the script, is not an action.

## Not modelled

* The check of a new name while it is typed (`/machine_name` and the flag that
  disables the button) and the filter by name of the list of machines: with
  them the composed state space does not finish, and what they would say is
  about one field.
* Of the pages: the form of a new machine, bundles, host devices, storage
  pools, networks and routes, messages, reports and settings. They post a form
  and show a list, as `PageLists` does; `localGroups` is `ldapGroups` with other
  routes, so `SetGroups` stands for both, and `time` wraps a clock widget.
* The refusal of duplicates in the queue, and the commands other than
  `prepare_base` that requeue themselves.
* The life cycle of machines, host devices, exposed ports, pools, bases in
  nodes and limits, in `lib/Ravada/Domain.pm` and `lib/Ravada.pm`: a step of
  them is a series of calls to libvirt, qemu-img, rsync, iptables and ssh, and
  what happens between two of them depends on those programs and on the
  isolation of the database, about which the source says nothing to translate.
  Their hazards are listed in `PROJECT.json` without a property.
* Volumes, virtual managers, networks, the schema, the ISO repository,
  authentication, translations and templates: input and output of one process.
