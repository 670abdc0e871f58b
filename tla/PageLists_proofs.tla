--------------------------- MODULE PageLists_proofs ---------------------------
(***************************************************************************)
(* A list of a page is right once nothing is on its way, for any number of *)
(* changes and for answers that cross each other.                          *)
(***************************************************************************)
EXTENDS PageLists, TLAPS

PostType == [n : Nat, table : Tables, reloads : SUBSET Lists, done : BOOLEAN]
LoadType == [n : Nat, list : Lists, read : Nat \cup {-1}]

TypeOK ==
    /\ current \in [Tables -> Nat]
    /\ shown \in [Lists -> Nat] /\ sent \in [Lists -> Nat] /\ arrived \in [Lists -> Nat]
    /\ posts \in SUBSET PostType /\ loads \in SUBSET LoadType
    /\ excused \in SUBSET Lists /\ clicks \in Nat

(* A change asks again for every list that shows what it changes.          *)
ReloadsAll == \A p \in posts : \A l \in Lists : TableOf(l) = p.table => l \in p.reloads

(* The lists on their way are numbered as they were asked for, each number *)
(* once, and the last that arrived is not among them.                      *)
Numbered ==
    /\ \A l \in Lists : arrived[l] <= sent[l]
    /\ \A d \in loads : d.n <= sent[d.list] /\ d.n # arrived[d.list]
    /\ \A d, e \in loads : d.list = e.list /\ d.n = e.n => d = e

(* Three ways for a list to be up to date, now or soon: a change that was  *)
(* made is about to ask for it; the list asked for last is not read yet or *)
(* holds what the table is; or that one arrived, and nothing changed since.*)
Owed(l) == \E p \in posts : p.done /\ l \in p.reloads
OnItsWay(l) == \E d \in loads : /\ d.list = l /\ d.n = sent[l]
                                /\ d.read \in {-1, current[TableOf(l)]}
Shown(l) == arrived[l] = sent[l] /\ shown[l] = current[TableOf(l)]

UpToDate == \A l \in Lists \ excused : Owed(l) \/ OnItsWay(l) \/ Shown(l)

IInv == TypeOK /\ ReloadsAll /\ Numbered /\ UpToDate

-----------------------------------------------------------------------------
(* Every list shows a table.                                               *)
LEMMA TableOfType == \A l \in Lists : TableOf(l) \in Tables
BY DEF TableOf, Lists, Tables

(* Nothing is asked for when the page is not loaded yet, nor when it was   *)
(* loaded just now.                                                        *)
LEMMA UnloadedIInv == Unloaded => IInv
<1> SUFFICES ASSUME Unloaded PROVE IInv
  OBVIOUS
<1> USE DEF Unloaded, Zero
<1>1. TypeOK
  BY DEF TypeOK, PostType, LoadType
<1>2. ReloadsAll
  BY DEF ReloadsAll
<1>3. Numbered
  BY DEF Numbered
<1>4. UpToDate
  BY TableOfType DEF UpToDate, Shown
<1> QED BY <1>1, <1>2, <1>3, <1>4 DEF IInv

LEMMA LoadIInv == Load => IInv'
<1> SUFFICES ASSUME Load PROVE IInv'
  OBVIOUS
<1> USE DEF Load, Zero
<1>1. TypeOK'
  BY DEF TypeOK, PostType, LoadType
<1>2. ReloadsAll' /\ Numbered'
  BY DEF ReloadsAll, Numbered
<1>3. UpToDate'
  BY TableOfType DEF UpToDate, Shown
<1> QED BY <1>1, <1>2, <1>3 DEF IInv

LEMMA InitIInv == Init => IInv
BY UnloadedIInv DEF Init

(* A change that a handler makes, whatever it is about.                    *)
LEMMA PostIInv ==
    ASSUME IInv, NEW table \in Tables, NEW reloads \in SUBSET Lists,
           Post(table, reloads), \A l \in Lists : TableOf(l) = table => l \in reloads
    PROVE  IInv'
<1> DEFINE p == [n |-> clicks', table |-> table, reloads |-> reloads, done |-> FALSE]
<1>1. posts' = posts \cup {p} /\ clicks' \in Nat
  BY DEF Post, IInv, TypeOK
<1>2. TypeOK'
  <2>1. p \in PostType
    BY <1>1 DEF PostType
  <2> QED BY <1>1, <2>1 DEF IInv, TypeOK, Post
<1>3. ReloadsAll'
  BY <1>1 DEF IInv, ReloadsAll
<1>4. Numbered'
  BY DEF IInv, Numbered, Post
<1>5. UpToDate'
  BY <1>1 DEF IInv, UpToDate, Owed, OnItsWay, Shown, Post
<1> QED BY <1>2, <1>3, <1>4, <1>5 DEF IInv

(* What each handler asks for again covers what it changes.                *)
LEMMA HandlersIInv == IInv /\ Handlers => IInv'
<1> SUFFICES ASSUME IInv, Handlers PROVE IInv'
  OBVIOUS
<1>1. \E table \in Tables : \E reloads \in SUBSET Lists :
         /\ Post(table, reloads)
         /\ \A l \in Lists : TableOf(l) = table => l \in reloads
  <2>0. ASSUME NEW t \in Tables, t \notin {"domain_access", "ldap_access"}
        PROVE  /\ {t} \in SUBSET Lists
               /\ \A l \in Lists : TableOf(l) = t => l \in {t}
    BY <2>0 DEF TableOf, Lists, Tables
  <2>1. /\ DomainAccess \in SUBSET Lists
        /\ \A l \in Lists : TableOf(l) = "domain_access" => l \in DomainAccess
    BY DEF TableOf, Lists, Tables, DomainAccess
  <2>2. /\ LdapAccess \in SUBSET Lists
        /\ \A l \in Lists : TableOf(l) = "ldap_access" => l \in LdapAccess
    BY DEF TableOf, Lists, Tables, LdapAccess
  <2>3. CASE \/ \E type \in {"client", "ldap"} : AddAccess(type)
             \/ MoveAccess \/ SetAccess \/ DeleteAccess
             \/ AddLdapAccess \/ DeleteLdapAccess \/ MoveLdapAccess \/ SetLdapAccess
    <3>1. Post("domain_access", DomainAccess) \/ Post("ldap_access", LdapAccess)
      BY <2>3 DEF AddAccess, MoveAccess, SetAccess, DeleteAccess, AddLdapAccess,
                  DeleteLdapAccess, MoveLdapAccess, SetLdapAccess
    <3> QED BY <2>1, <2>2, <3>1 DEF Tables
  <2>4. CASE \/ \E type \in {"local", "ldap"} : AddGroupAccess(type) \/ RemoveGroupAccess(type)
             \/ ShareMachine \/ RemoveShareMachine
             \/ AddGroupMember \/ RemoveGroupMember \/ ChangeUser
             \/ AddMember \/ RemoveMember
    <3>1. \E t \in Tables \ {"domain_access", "ldap_access"} : Post(t, {t})
      BY <2>4 DEF AddGroupAccess, RemoveGroupAccess, Groups, ShareMachine, RemoveShareMachine,
                  AddGroupMember, RemoveGroupMember, ChangeUser, AddMember, RemoveMember, Tables
    <3> QED BY <2>0, <3>1
  <2> QED BY <2>3, <2>4 DEF Handlers
<1> QED BY <1>1, PostIInv

-----------------------------------------------------------------------------
(* The server makes a change: the lists that show it are owed.             *)
LEMMA ServerChangesIInv == ASSUME IInv, NEW p \in posts, ServerChanges(p) PROVE IInv'
<1> DEFINE q == [p EXCEPT !.done = TRUE]
<1>1. p \in PostType /\ q \in PostType /\ q.done /\ q.reloads = p.reloads /\ q.table = p.table
  BY DEF IInv, TypeOK, PostType
<1>2. /\ posts' = (posts \ {p}) \cup {q}
      /\ current' = [current EXCEPT ![p.table] = @ + 1]
      /\ UNCHANGED <<shown, loads, sent, arrived, excused, clicks>>
  BY DEF ServerChanges
<1> HIDE DEF q
<1>3. TypeOK'
  <2>1. p.table \in Tables /\ current[p.table] + 1 \in Nat
    BY <1>1 DEF PostType, IInv, TypeOK
  <2>2. current' \in [Tables -> Nat] /\ posts' \in SUBSET PostType
    BY <1>1, <1>2, <2>1 DEF IInv, TypeOK
  <2> QED BY <1>2, <2>2 DEF IInv, TypeOK
<1>4. ReloadsAll'
  BY <1>1, <1>2 DEF IInv, ReloadsAll
<1>5. Numbered'
  BY <1>2 DEF IInv, Numbered
<1>6. UpToDate'
  <2> SUFFICES ASSUME NEW l \in Lists, l \notin excused
               PROVE  Owed(l)' \/ OnItsWay(l)' \/ Shown(l)'
    BY <1>2 DEF UpToDate
  <2>1. CASE TableOf(l) = p.table
    BY <1>1, <1>2, <2>1 DEF IInv, ReloadsAll, Owed
  <2>2. CASE TableOf(l) # p.table
    <3>1. current'[TableOf(l)] = current[TableOf(l)]
      BY <1>2, <2>2, TableOfType DEF IInv, TypeOK
    <3>2. Owed(l) => Owed(l)'
      BY <1>1, <1>2 DEF Owed
    <3>3. OnItsWay(l) => OnItsWay(l)'
      BY <1>2, <3>1 DEF OnItsWay
    <3>4. Shown(l) => Shown(l)'
      BY <1>2, <3>1 DEF Shown
    <3> QED BY <3>2, <3>3, <3>4 DEF IInv, UpToDate
  <2> QED BY <2>1, <2>2
<1> QED BY <1>3, <1>4, <1>5, <1>6 DEF IInv

(* A change is answered: the lists it owes are on their way.               *)
LEMMA AnsweredIInv == ASSUME IInv, NEW p \in posts, Answered(p) PROVE IInv'
<1> DEFINE New(l) == [n |-> sent'[l], list |-> l, read |-> -1]
<1>1. p \in PostType
  BY DEF IInv, TypeOK
<1>2. /\ posts' = posts \ {p}
      /\ sent' = [l \in Lists |-> IF l \in p.reloads THEN sent[l] + 1 ELSE sent[l]]
      /\ loads' = loads \cup {New(l) : l \in p.reloads}
      /\ UNCHANGED <<current, shown, arrived, excused, clicks>>
  BY DEF Answered
<1>3. sent' \in [Lists -> Nat] /\ \A l \in Lists : sent[l] <= sent'[l]
  BY <1>2 DEF IInv, TypeOK
<1>4. TypeOK'
  <2>1. {New(l) : l \in p.reloads} \in SUBSET LoadType
    BY <1>1, <1>3 DEF PostType, LoadType
  <2> QED BY <1>2, <1>3, <2>1 DEF IInv, TypeOK
<1>5. ReloadsAll'
  BY <1>2 DEF IInv, ReloadsAll
<1>6. Numbered'
  <2>1. \A l \in Lists : arrived'[l] <= sent'[l]
    BY <1>2, <1>3 DEF IInv, TypeOK, Numbered
  <2>2. \A d \in loads : d.list \in Lists /\ d.n \in Nat /\ d.n <= sent[d.list]
    BY DEF IInv, TypeOK, LoadType, Numbered
  <2>3. \A l \in p.reloads : l \in Lists /\ sent'[l] = sent[l] + 1 /\ arrived[l] <= sent[l]
    BY <1>1, <1>2 DEF PostType, IInv, Numbered
  <2>4. \A d \in loads' : d.n <= sent'[d.list] /\ d.n # arrived'[d.list]
    BY <1>2, <1>3, <2>2, <2>3 DEF IInv, TypeOK, Numbered
  <2>5. \A d, e \in loads' : d.list = e.list /\ d.n = e.n => d = e
    BY <1>2, <2>2, <2>3 DEF IInv, TypeOK, Numbered
  <2> QED BY <2>1, <2>4, <2>5 DEF Numbered
<1>7. UpToDate'
  <2> SUFFICES ASSUME NEW l \in Lists, l \notin excused
               PROVE  Owed(l)' \/ OnItsWay(l)' \/ Shown(l)'
    BY <1>2 DEF UpToDate
  <2>1. CASE l \in p.reloads
    <3>1. New(l) \in loads' /\ New(l).list = l /\ New(l).n = sent'[l] /\ New(l).read = -1
      BY <1>2, <2>1
    <3> QED BY <3>1 DEF OnItsWay
  <2>2. CASE l \notin p.reloads
    <3>1. sent'[l] = sent[l]
      BY <1>2, <2>2
    <3>2. Owed(l) => Owed(l)'
      BY <1>2, <2>2 DEF Owed
    <3>3. OnItsWay(l) => OnItsWay(l)'
      BY <1>2, <3>1 DEF OnItsWay
    <3>4. Shown(l) => Shown(l)'
      BY <1>2, <3>1 DEF Shown
    <3> QED BY <3>2, <3>3, <3>4 DEF IInv, UpToDate
  <2> QED BY <2>1, <2>2
<1> QED BY <1>4, <1>5, <1>6, <1>7 DEF IInv

(* A change fails: its lists are excused.                                  *)
LEMMA PostFailsIInv == ASSUME IInv, NEW p \in posts, PostFails(p) PROVE IInv'
<1>1. p \in PostType
  BY DEF IInv, TypeOK
<1>2. /\ posts' = posts \ {p} /\ excused' = excused \cup p.reloads
      /\ UNCHANGED <<current, shown, loads, sent, arrived, clicks>>
  BY DEF PostFails
<1>3. TypeOK'
  BY <1>1, <1>2 DEF IInv, TypeOK, PostType
<1>4. ReloadsAll' /\ Numbered'
  BY <1>2 DEF IInv, ReloadsAll, Numbered
<1>5. UpToDate'
  BY <1>2 DEF IInv, UpToDate, Owed, OnItsWay, Shown
<1> QED BY <1>3, <1>4, <1>5 DEF IInv

-----------------------------------------------------------------------------
(* The server reads a list: it holds what the table is.                    *)
LEMMA ServerListsIInv == ASSUME IInv, NEW d \in loads, ServerLists(d) PROVE IInv'
<1> DEFINE e == [d EXCEPT !.read = current[TableOf(d.list)]]
<1>1. /\ d \in LoadType /\ e \in LoadType /\ e.n = d.n /\ e.list = d.list
      /\ e.read = current[TableOf(d.list)]
  BY TableOfType DEF IInv, TypeOK, LoadType
<1>2. /\ loads' = (loads \ {d}) \cup {e}
      /\ UNCHANGED <<current, shown, posts, sent, arrived, excused, clicks>>
  BY DEF ServerLists
<1> HIDE DEF e
<1>3. TypeOK'
  BY <1>1, <1>2 DEF IInv, TypeOK
<1>4. ReloadsAll'
  BY <1>2 DEF IInv, ReloadsAll
<1>5. Numbered'
  <2>1. \A f \in loads' : \E h \in loads : /\ h.n = f.n /\ h.list = f.list
                                           /\ f = IF h = d THEN e ELSE h
    BY <1>1, <1>2
  <2>2. \A f \in loads' : f.n <= sent'[f.list] /\ f.n # arrived'[f.list]
    BY <1>2, <2>1 DEF IInv, Numbered
  <2>3. \A f, h \in loads' : f.list = h.list /\ f.n = h.n => f = h
    BY <2>1 DEF IInv, Numbered
  <2> QED BY <1>2, <2>2, <2>3 DEF IInv, Numbered
<1>6. UpToDate'
  <2> SUFFICES ASSUME NEW l \in Lists, l \notin excused
               PROVE  Owed(l)' \/ OnItsWay(l)' \/ Shown(l)'
    BY <1>2 DEF UpToDate
  <2>1. OnItsWay(l) => OnItsWay(l)'
    BY <1>1, <1>2 DEF OnItsWay
  <2> QED BY <1>2, <2>1 DEF IInv, UpToDate, Owed, Shown
<1> QED BY <1>3, <1>4, <1>5, <1>6 DEF IInv

(* A list is shown: it is the last that was asked for, or that one arrived *)
(* before and the list is excused, or that one is still on its way.        *)
LEMMA ShowsIInv == ASSUME IInv, NEW d \in loads, Shows(d) PROVE IInv'
<1>1. /\ d \in LoadType /\ d.read \in Nat /\ d.list \in Lists /\ d.n \in Nat
      /\ d.n <= sent[d.list] /\ d.n # arrived[d.list] /\ arrived[d.list] <= sent[d.list]
      /\ sent[d.list] \in Nat /\ arrived[d.list] \in Nat
  BY DEF IInv, TypeOK, LoadType, Numbered, Shows
<1>2. /\ shown' = [shown EXCEPT ![d.list] = d.read]
      /\ loads' = loads \ {d}
      /\ excused' = IF d.n < arrived[d.list] THEN excused \cup {d.list} ELSE excused
      /\ arrived' = [arrived EXCEPT ![d.list] = IF d.n > @ THEN d.n ELSE @]
      /\ UNCHANGED <<current, posts, sent, clicks>>
  BY DEF Shows
<1>3. TypeOK'
  BY <1>1, <1>2 DEF IInv, TypeOK
<1>4. ReloadsAll'
  BY <1>2 DEF IInv, ReloadsAll
<1>5. Numbered'
  <2>1. \A l \in Lists : arrived'[l] <= sent'[l]
    BY <1>1, <1>2 DEF IInv, TypeOK, Numbered
  <2>2. \A e \in loads' : e.n <= sent'[e.list] /\ e.n # arrived'[e.list]
    <3> SUFFICES ASSUME NEW e \in loads, e # d
                 PROVE  e.n <= sent[e.list] /\ e.n # arrived'[e.list]
      BY <1>2
    <3>1. e.list \in Lists /\ e.n <= sent[e.list] /\ e.n # arrived[e.list]
      BY DEF IInv, TypeOK, LoadType, Numbered
    <3>2. e.list = d.list => e.n # d.n
      BY DEF IInv, Numbered
    <3> QED BY <1>1, <1>2, <3>1, <3>2 DEF IInv, TypeOK
  <2>3. \A e, f \in loads' : e.list = f.list /\ e.n = f.n => e = f
    BY <1>2 DEF IInv, Numbered
  <2> QED BY <2>1, <2>2, <2>3 DEF Numbered
<1>6. UpToDate'
  <2> SUFFICES ASSUME NEW l \in Lists, l \notin excused'
               PROVE  Owed(l)' \/ OnItsWay(l)' \/ Shown(l)'
    BY DEF UpToDate
  <2>0. l \notin excused /\ (Owed(l) \/ OnItsWay(l) \/ Shown(l))
    BY <1>2 DEF IInv, UpToDate
  <2>1. CASE l # d.list
    BY <1>2, <2>0, <2>1 DEF Owed, OnItsWay, Shown, IInv, TypeOK
  <2>2. CASE l = d.list
    <3>1. d.n > arrived[l] /\ arrived'[l] = d.n /\ shown'[l] = d.read
      BY <1>1, <1>2, <2>2 DEF IInv, TypeOK
    <3>2. CASE Owed(l)
      BY <1>2, <3>2 DEF Owed
    <3>3. CASE OnItsWay(l)
      <4>1. PICK e \in loads : /\ e.list = l /\ e.n = sent[l]
                               /\ e.read \in {-1, current[TableOf(l)]}
        BY <3>3 DEF OnItsWay
      <4>2. CASE e = d
        BY <1>1, <1>2, <3>1, <4>1, <4>2 DEF Shown
      <4>3. CASE e # d
        BY <1>2, <4>1, <4>3 DEF OnItsWay
      <4> QED BY <4>2, <4>3
    <3>4. CASE Shown(l)
      BY <1>1, <2>2, <3>1, <3>4 DEF Shown
    <3> QED BY <2>0, <3>2, <3>3, <3>4
  <2> QED BY <2>1, <2>2
<1> QED BY <1>3, <1>4, <1>5, <1>6 DEF IInv

(* A list fails to come: it is excused.                                    *)
LEMMA LoadFailsIInv == ASSUME IInv, NEW d \in loads, LoadFails(d) PROVE IInv'
<1>1. d.list \in Lists
  BY DEF IInv, TypeOK, LoadType
<1>2. /\ loads' = loads \ {d} /\ excused' = excused \cup {d.list}
      /\ UNCHANGED <<current, shown, posts, sent, arrived, clicks>>
  BY DEF LoadFails
<1>3. TypeOK'
  BY <1>1, <1>2 DEF IInv, TypeOK
<1>4. ReloadsAll' /\ Numbered'
  BY <1>2 DEF IInv, ReloadsAll, Numbered
<1>5. UpToDate'
  BY <1>2 DEF IInv, UpToDate, Owed, OnItsWay, Shown
<1> QED BY <1>3, <1>4, <1>5 DEF IInv

-----------------------------------------------------------------------------
(* Every step keeps the invariant.                                         *)
LEMMA NextIInv == IInv /\ [Next]_vars => IInv'
<1> SUFFICES ASSUME IInv, [Next]_vars PROVE IInv'
  OBVIOUS
<1>1. CASE Handlers
  BY <1>1, HandlersIInv
<1>2. ASSUME NEW p \in posts, ServerChanges(p) \/ Answered(p) \/ PostFails(p) PROVE IInv'
  BY <1>2, ServerChangesIInv, AnsweredIInv, PostFailsIInv
<1>3. ASSUME NEW d \in loads, ServerLists(d) \/ Shows(d) \/ LoadFails(d) PROVE IInv'
  BY <1>3, ServerListsIInv, ShowsIInv, LoadFailsIInv
<1>4. CASE UNCHANGED vars
  BY <1>4 DEF vars, IInv, TypeOK, ReloadsAll, Numbered, UpToDate, Owed, OnItsWay, Shown
<1> QED BY <1>1, <1>2, <1>3, <1>4 DEF Next

LEMMA SettledFromIInv == IInv => SettledIsCurrent
BY DEF IInv, UpToDate, SettledIsCurrent, Quiet, Owed, OnItsWay, Shown

(* Once nothing is on its way, a list shows its table as it is at the      *)
(* server: for any number of changes, lists and orders of answers, unless  *)
(* one to this very list failed or came after a later one.                 *)
THEOREM SettledShowsCurrent == Spec => []SettledIsCurrent
BY SettledFromIInv, InitIInv, NextIInv, PTL DEF Spec
=============================================================================
