--------------------------- MODULE MCRequestQueue ---------------------------
(* Instances of RequestQueue small enough for TLC.                         *)
EXTENDS RequestQueue

\* What a caller leaves out.
Plain(command, domain) ==
  [ command |-> command, id_domain |-> domain, id_base |-> NoDomain,
    after_request |-> NoRequest, after_request_ok |-> NoRequest,
    date_req |-> 0, at |-> FALSE, retry |-> Undefined, timeout |-> FALSE ]

CONSTANTS d1, d2

\* The frontend asks if the backend is there, two users clone a virtual machine, one of them
\* after the list of ISO images is read, and a third user clones another; the two clones of
\* one machine are asked for in the same second.  Two processes at once may run any of them.
CloneArgs == << Plain("ping_backend", NoDomain),
                [Plain("list_isos", NoDomain) EXCEPT !.date_req = 1],
                [Plain("clone", d1) EXCEPT !.after_request = 2, !.timeout = TRUE, !.date_req = 2],
                [Plain("clone", d1) EXCEPT !.date_req = 2],
                [Plain("clone", d2) EXCEPT !.date_req = 3] >>

\* prepare_base of an active domain, its shutdown, and a request that goes only if the
\* base was prepared and that may try again.
RetryArgs == << Plain("prepare_base", d1),
                Plain("shutdown", d1),
                [Plain("set_base_vm", d1) EXCEPT !.after_request_ok = 1, !.retry = 1] >>

\* The same, and nothing is tried again but prepare_base.
CrashArgs == [RetryArgs EXCEPT ![3] = [Plain("set_base_vm", d1) EXCEPT !.after_request_ok = 1]]

\* A start that comes after a request that may try again.
AfterRetryArgs == << [Plain("refresh_machine_ports", d1) EXCEPT !.retry = 1],
                     [Plain("start", d2) EXCEPT !.after_request = 1] >>

\* The machines that start with the host wait for the storage to be checked; a hardware
\* change of one of them is pending behind another request of its type.
AutostartArgs == << Plain("migrate", d2),
                    Plain("change_hardware", d1),
                    Plain("check_storage", NoDomain),
                    [Plain("start", d1) EXCEPT !.after_request_ok = 3] >>

\* Three changes of a virtual machine while a volume of it is moved, in one second; and
\* the same when the first is a second older.
HardwareArgs == << Plain("change_hardware", d1),
                   Plain("move_volume", d1),
                   Plain("add_hardware", d1),
                   Plain("change_hardware", d1) >>

OlderArgs == [r \in 1 .. 4 |-> [HardwareArgs[r] EXCEPT !.date_req = IF r = 1 THEN 0 ELSE 1]]

\* Two changes of a virtual machine that are asked for at the same time.
CycleArgs == << Plain("change_hardware", d1), Plain("add_hardware", d1) >>

\* Three requests of one type.
DiskArgs == << Plain("compact", d1), Plain("compact", d2), Plain("screenshot", NoDomain) >>

OneEach == [t \in Types |-> 1]
Plenty == [t \in Types |-> 5]
TwoEach == [t \in Types |-> 2]
=============================================================================
