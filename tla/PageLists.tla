------------------------------ MODULE PageLists ------------------------------
(***************************************************************************)
(* Lists that a page shows and changes: who may use a machine, its shares  *)
(* and groups, in singleMachinePageC of public/js/ravada.js; the groups of *)
(* a user and the members of a group, in usersPageC and admin_groups_ctrl  *)
(* of public/js/admin.js.                                                  *)
(*                                                                         *)
(* Every handler posts a change and, when it is answered, asks for lists   *)
(* again.  Nothing stops a user from clicking while a change or a list is  *)
(* on its way, so lists that are asked for twice may arrive in any order.  *)
(***************************************************************************)
EXTENDS Integers, FiniteSets

CONSTANTS
    MaxPosts  \* bound: how many changes the user makes

(* A list that depends on another shows what the other was when it was     *)
(* read: who is allowed follows from the access rules.                     *)
Tables == {"domain_access", "ldap_access", "ldap_groups", "local_groups",
           "shares", "user_groups", "user", "group_members"}
Lists == Tables \cup {"check_client_access", "check_allowed"}
TableOf(l) == CASE l = "check_client_access" -> "domain_access"
                [] l = "check_allowed" -> "ldap_access"
                [] OTHER -> l

VARIABLES
    page,     \* the page the browser shows: [at]
    current,  \* how many times each table changed
    shown,    \* what each list shows: how many times it had changed
    posts,    \* changes on their way: [n, table, reloads, done]
    loads,    \* lists on their way: [n, list, read], read is -1 at first
    sent,     \* how many times each list was asked for again
    arrived,  \* the last one of them that arrived
    excused,  \* lists of which an answer failed, or came after a later one
    clicks

vars == <<page, current, shown, posts, loads, sent, arrived, excused, clicks>>

Opened == page.at = "lists"

(***************************************************************************)
(* The handlers.                                                           *)
(***************************************************************************)
Post(table, reloads) ==
    /\ Opened /\ clicks < MaxPosts
    /\ clicks' = clicks + 1
    /\ posts' = posts \cup {[n |-> clicks', table |-> table, reloads |-> reloads, done |-> FALSE]}
    /\ UNCHANGED <<page, current, shown, loads, sent, arrived, excused>>

(* What init_domain_access and init_ldap_access ask for.                   *)
DomainAccess == {"domain_access", "check_client_access"}

\* Mutant: who is allowed is not asked for again.
LdapAccess_RulesOnly == {"ldap_access"}

LdapAccess == {"ldap_access", "check_allowed"}

AddAccess(type) == IF type = "ldap" THEN Post("ldap_access", LdapAccess)
                   ELSE Post("domain_access", DomainAccess)
MoveAccess == Post("domain_access", DomainAccess)
SetAccess == Post("domain_access", DomainAccess)
DeleteAccess == Post("domain_access", DomainAccess)

AddLdapAccess == Post("ldap_access", LdapAccess)
DeleteLdapAccess == Post("ldap_access", LdapAccess)
MoveLdapAccess == Post("ldap_access", LdapAccess)
SetLdapAccess == Post("ldap_access", LdapAccess)

Groups(type) == IF type = "ldap" THEN "ldap_groups" ELSE "local_groups"
AddGroupAccess(type) == Post(Groups(type), {Groups(type)})
RemoveGroupAccess(type) == Post(Groups(type), {Groups(type)})

ShareMachine == Post("shares", {"shares"})
RemoveShareMachine == Post("shares", {"shares"})

AddGroupMember == Post("user_groups", {"user_groups"})
RemoveGroupMember == Post("user_groups", {"user_groups"})
ChangeUser == Post("user", {"user"})

AddMember == Post("group_members", {"group_members"})
RemoveMember == Post("group_members", {"group_members"})

(***************************************************************************)
(* The server, and the answers.                                            *)
(***************************************************************************)
ServerChanges(p) ==
    /\ Opened /\ ~p.done
    /\ current' = [current EXCEPT ![p.table] = @ + 1]
    /\ posts' = (posts \ {p}) \cup {[p EXCEPT !.done = TRUE]}
    /\ UNCHANGED <<page, shown, loads, sent, arrived, excused, clicks>>

(* .then of the post: the lists are asked for again.                       *)
Answered(p) ==
    /\ Opened /\ p.done
    /\ posts' = posts \ {p}
    /\ sent' = [l \in Lists |-> IF l \in p.reloads THEN sent[l] + 1 ELSE sent[l]]
    /\ loads' = loads \cup {[n |-> sent'[l], list |-> l, read |-> -1] : l \in p.reloads}
    /\ UNCHANGED <<page, current, shown, arrived, excused, clicks>>

(* The post fails, after the server made the change or without it: there   *)
(* is no handler for it, and no list is asked for.                         *)
PostFails(p) ==
    /\ Opened
    /\ posts' = posts \ {p}
    /\ excused' = excused \cup p.reloads
    /\ UNCHANGED <<page, current, shown, loads, sent, arrived, clicks>>

ServerLists(d) ==
    /\ Opened /\ d.read = -1
    /\ loads' = (loads \ {d}) \cup {[d EXCEPT !.read = current[TableOf(d.list)]]}
    /\ UNCHANGED <<page, current, shown, posts, sent, arrived, excused, clicks>>

(* .then of the list: it is shown, whatever is shown already.              *)
Shows(d) ==
    /\ Opened /\ d.read # -1
    /\ shown' = [shown EXCEPT ![d.list] = d.read]
    /\ loads' = loads \ {d}
    /\ excused' = IF d.n < arrived[d.list] THEN excused \cup {d.list} ELSE excused
    /\ arrived' = [arrived EXCEPT ![d.list] = IF d.n > @ THEN d.n ELSE @]
    /\ UNCHANGED <<page, current, posts, sent, clicks>>

LoadFails(d) ==
    /\ Opened
    /\ loads' = loads \ {d}
    /\ excused' = excused \cup {d.list}
    /\ UNCHANGED <<page, current, shown, posts, sent, arrived, clicks>>

-----------------------------------------------------------------------------
Zero == [l \in Lists |-> 0]
(* Before the browser loads the page, and after it did, with the lists read*)
(* once.                                                                   *)
Unloaded ==
    /\ current = [t \in Tables |-> 0]
    /\ shown = Zero /\ sent = Zero /\ arrived = Zero
    /\ posts = {} /\ loads = {} /\ excused = {} /\ clicks = 0

Load ==
    /\ current' = [t \in Tables |-> 0]
    /\ shown' = Zero /\ sent' = Zero /\ arrived' = Zero
    /\ posts' = {} /\ loads' = {} /\ excused' = {} /\ clicks' = 0

Handlers ==
    \/ \E type \in {"client", "ldap"} : AddAccess(type)
    \/ MoveAccess \/ SetAccess \/ DeleteAccess
    \/ AddLdapAccess \/ DeleteLdapAccess \/ MoveLdapAccess \/ SetLdapAccess
    \/ \E type \in {"local", "ldap"} : AddGroupAccess(type) \/ RemoveGroupAccess(type)
    \/ ShareMachine \/ RemoveShareMachine
    \/ AddGroupMember \/ RemoveGroupMember \/ ChangeUser
    \/ AddMember \/ RemoveMember

Next == \/ Handlers
        \/ \E p \in posts : ServerChanges(p) \/ Answered(p) \/ PostFails(p)
        \/ \E d \in loads : ServerLists(d) \/ Shows(d) \/ LoadFails(d)

Init == page = [at |-> "lists"] /\ Unloaded
Spec == Init /\ [][Next]_vars

-----------------------------------------------------------------------------
Quiet(l) == (\A p \in posts : l \notin p.reloads) /\ (\A d \in loads : d.list # l)

(* Once nothing is on its way, a list shows its table as it is at the      *)
(* server, however many changes and lists crossed each other, unless the   *)
(* answers to one list came in another order than they were asked for or   *)
(* failed: each change asks for its lists only after the server made it.   *)
SettledIsCurrent ==
    \A l \in Lists : Quiet(l) /\ l \notin excused => shown[l] = current[TableOf(l)]
=============================================================================
