-------------------------- MODULE UserMachines_proofs --------------------------
(***************************************************************************)
(* The merge of the answers into the page of the machines, proved for any  *)
(* lists of machines and clones, and for clicks and answers in any order.  *)
(***************************************************************************)
EXTENDS UserMachines, TLAPS, WellFoundedInduction

(* What the page shows of a machine.                                       *)
Cards == [id : Ids, is_base : BOOLEAN, is_active : BOOLEAN, autostart : BOOLEAN,
          list_clones : Seq(Clones), clone : Ids \cup {Nil},
          action : {"no", "yes", "prepare"}, host_restore : Ids \cup {Nil},
          pending_shutdown : BOOLEAN]

(* ChosenIsListed of one machine.                                          *)
Listed(m) ==
    IF m.list_clones = <<>> THEN m.clone = Nil
    ELSE \E j \in DOMAIN m.list_clones : m.list_clones[j].id = m.clone

Sockets == [at : {"connecting", "open", "closed"}, connected : BOOLEAN,
            fail : BOOLEAN, timer : BOOLEAN]

TypeOK == /\ rows \in Answers /\ wire \in Seq(Answers) /\ machines \in Seq(Cards)
          /\ ws \in Sockets
IInv == TypeOK /\ \A i \in DOMAIN machines : Listed(machines[i])

(* What the user sees of the clones of a machine.                          *)
SeenClones(cs) == [j \in DOMAIN cs |-> [id |-> cs[j].id, is_active |-> cs[j].is_active]]

-----------------------------------------------------------------------------
(* A set of natural numbers has a least one.                               *)
LEMMA LeastExists ==
    ASSUME NEW T, T \subseteq Nat, T # {}
    PROVE  \E x \in T : \A y \in T : x <= y
<1>1. PICK x \in T : \A y \in T : ~(<<y, x>> \in OpToRel(<, Nat))
  BY NatLessThanWellFounded, WFMin
<1>2. \A y \in T : ~(y < x)
  BY <1>1 DEF OpToRel
<1> QED BY <1>2

(* The clone that is chosen first is in the list.                          *)
LEMMA FirstOfListed ==
    ASSUME NEW cs \in Seq(Clones), cs # <<>>
    PROVE  \E j \in DOMAIN cs : cs[j].id = FirstOf(cs)
<1> DEFINE on == {j \in DOMAIN cs : cs[j].is_active}
<1>1. CASE on = {}
  <2>1. 1 \in DOMAIN cs
    OBVIOUS
  <2> QED BY <1>1, <2>1 DEF FirstOf
<1>2. CASE on # {}
  <2>1. on \in SUBSET Nat
    OBVIOUS
  <2>2. \E j \in on : \A l \in on : j <= l
    <3> HIDE DEF on
    <3> QED BY <1>2, <2>1, LeastExists
  <2> DEFINE first == CHOOSE j \in on : \A l \in on : j <= l
  <2>3. first \in on
    <3> HIDE DEF on
    <3> QED BY <2>2
  <2>4. FirstOf(cs) = cs[first].id
    <3>1. FirstOf(cs) = IF on = {} THEN cs[1].id ELSE cs[first].id
      BY Zenon DEF FirstOf
    <3> HIDE DEF on, first
    <3> QED BY <1>2, <3>1
  <2> HIDE DEF first
  <2> QED BY <2>3, <2>4
<1> QED BY <1>1, <1>2

(* set_one_clone chooses a listed clone and changes nothing else that the  *)
(* user sees of it.                                                        *)
LEMMA SetOneCloneListed ==
    ASSUME NEW m \in Cards
    PROVE  LET n == SetOneClone(m)
           IN  n \in Cards /\ Listed(n) /\ n.id = m.id /\ n.list_clones = m.list_clones
<1> DEFINE k == [m EXCEPT !.clone = FirstOf(m.list_clones)]
<1>1. m.list_clones \in Seq(Clones)
  BY DEF Cards
<1>2. CASE m.list_clones = <<>>
  <2>1. FirstOf(m.list_clones) = Nil
    BY <1>2 DEF FirstOf
  <2>2. k \in Cards /\ k.clone = Nil /\ k.id = m.id /\ k.list_clones = m.list_clones
    BY <2>1 DEF Cards
  <2>3. SetOneClone(m) = k
    BY <2>2 DEF SetOneClone, ChangeClone
  <2> QED BY <1>2, <2>2, <2>3 DEF Listed
<1>3. CASE m.list_clones # <<>>
  <2>1. PICK j \in DOMAIN m.list_clones : m.list_clones[j].id = FirstOf(m.list_clones)
    BY <1>1, <1>3, FirstOfListed
  <2>2. m.list_clones[j] \in Clones
    BY <1>1, <2>1
  <2>3. FirstOf(m.list_clones) \in Ids
    BY <2>1, <2>2 DEF Clones
  <2>4. /\ k \in Cards /\ k.clone \in Ids /\ k.clone = FirstOf(m.list_clones)
        /\ k.id = m.id /\ k.list_clones = m.list_clones
    BY <2>3 DEF Cards
  <2>5. k.clone # Nil
    BY <2>4, AnswersAssumption
  <2>6. CloneOf(k) \in Clones
    <3> DEFINE c == CHOOSE l \in DOMAIN k.list_clones : k.list_clones[l].id = k.clone
    <3>1. c \in DOMAIN m.list_clones
      <4> HIDE DEF k
      <4>1. \E l \in DOMAIN k.list_clones : k.list_clones[l].id = k.clone
        BY <2>1, <2>4
      <4> QED BY <2>4, <4>1
    <3>2. CloneOf(k) = k.list_clones[c]
      BY <2>5 DEF CloneOf
    <3> HIDE DEF c, k
    <3> QED BY <1>1, <2>4, <3>1, <3>2
  <2>7. SetOneClone(m) = [k EXCEPT !.is_active = CloneOf(k).is_active]
    BY <2>5 DEF SetOneClone, ChangeClone
  <2>8. CloneOf(k).is_active \in BOOLEAN
    BY <2>6 DEF Clones
  <2>9. /\ SetOneClone(m) \in Cards /\ SetOneClone(m).clone = k.clone
        /\ SetOneClone(m).id = m.id /\ SetOneClone(m).list_clones = m.list_clones
    <3> HIDE DEF k
    <3> QED BY <2>4, <2>7, <2>8 DEF Cards
  <2> QED BY <1>3, <2>1, <2>4, <2>9 DEF Listed
<1> QED BY <1>2, <1>3

(* A machine new to the page.                                              *)
LEMMA FreshListed ==
    ASSUME NEW row \in Rows
    PROVE  LET n == Fresh(row)
           IN  n \in Cards /\ Listed(n) /\ n.id = row.id /\ n.list_clones = row.list_clones
<1> DEFINE m == [id |-> row.id, is_base |-> row.is_base, is_active |-> row.is_active,
                 autostart |-> row.autostart, list_clones |-> row.list_clones, clone |-> Nil,
                 action |-> "no", host_restore |-> Nil, pending_shutdown |-> FALSE]
<1>1. m \in Cards /\ m.id = row.id /\ m.list_clones = row.list_clones
  BY DEF Rows, Cards
<1>2. Fresh(row) = SetOneClone(m)
  BY DEF Fresh
<1> QED BY <1>1, <1>2, SetOneCloneListed

-----------------------------------------------------------------------------
(* copy_machine_data: whichever objects are kept, the user sees the clones *)
(* of the answer.                                                          *)
LEMMA CopyClonesSeen ==
    ASSUME NEW m \in Cards, NEW row \in Rows
    PROVE  /\ CopyClones(m, row) \in Seq(Clones)
           /\ DOMAIN CopyClones(m, row) = DOMAIN row.list_clones
           /\ \A j \in DOMAIN row.list_clones :
                 /\ CopyClones(m, row)[j].id = row.list_clones[j].id
                 /\ CopyClones(m, row)[j].is_active = row.list_clones[j].is_active
<1> DEFINE cs == row.list_clones
           old == m.list_clones
           New(j) == IF SameClone(m, row, j)
                     THEN [old[j] EXCEPT !.is_active = cs[j].is_active] ELSE cs[j]
<1>1. cs \in Seq(Clones) /\ old \in Seq(Clones)
  BY DEF Rows, Cards
<1>2. CASE Fewer(m, row)
  BY <1>1, <1>2 DEF CopyClones
<1>3. CASE ~Fewer(m, row)
  <2>1. ASSUME NEW j \in DOMAIN cs
        PROVE  New(j) \in Clones /\ New(j).id = cs[j].id /\ New(j).is_active = cs[j].is_active
    <3>1. cs[j] \in Clones
      BY <1>1
    <3>2. CASE SameClone(m, row, j)
      <4>1. old[j] \in Clones /\ old[j].id = cs[j].id
        BY <1>1, <3>2 DEF SameClone
      <4> QED BY <3>1, <3>2, <4>1 DEF Clones
    <3> QED BY <3>1, <3>2
  <2>2. CopyClones(m, row) = [j \in 1..Len(cs) |-> New(j)]
    BY <1>1, <1>3 DEF CopyClones
  <2>3. Len(cs) \in Nat /\ DOMAIN cs = 1..Len(cs)
    BY <1>1
  <2> HIDE DEF New
  <2>4. [j \in 1..Len(cs) |-> New(j)] \in Seq(Clones)
    BY <2>1, <2>3
  <2> QED BY <2>1, <2>2, <2>3, <2>4
<1> QED BY <1>2, <1>3

(* A machine that is copied keeps its id and has a listed clone chosen;    *)
(* unless clones came, went or moved, it is the one chosen before.         *)
LEMMA CopiedListed ==
    ASSUME NEW m \in Cards, NEW row \in Rows, Listed(m)
    PROVE  LET n == Copied(m, row)
           IN  /\ n \in Cards /\ Listed(n) /\ n.id = m.id
               /\ n.list_clones = CopyClones(m, row)
               /\ ~Reload(m, row) => n.clone = m.clone
<1> DEFINE k == [m EXCEPT !.is_base = row.is_base, !.is_active = row.is_active,
                          !.list_clones = CopyClones(m, row)]
<1>1. /\ k \in Cards /\ k.id = m.id /\ k.clone = m.clone /\ k.list_clones = CopyClones(m, row)
  <2>1. CopyClones(m, row) \in Seq(Clones)
    BY CopyClonesSeen
  <2> QED BY <2>1 DEF Cards, Rows
<1>2. Copied(m, row) = IF Reload(m, row) THEN SetOneClone(k) ELSE k
  BY DEF Copied
<1> HIDE DEF k
<1>3. CASE Reload(m, row)
  BY <1>1, <1>2, <1>3, SetOneCloneListed
<1>4. CASE ~Reload(m, row)
  <2>1. /\ m.list_clones \in Seq(Clones) /\ row.list_clones \in Seq(Clones)
        /\ CopyClones(m, row) \in Seq(Clones)
    BY CopyClonesSeen DEF Cards, Rows
  <2>2. /\ ~(Len(row.list_clones) < Len(m.list_clones))
        /\ \A j \in DOMAIN row.list_clones :
              j \in DOMAIN m.list_clones /\ m.list_clones[j].id = row.list_clones[j].id
    BY <1>4 DEF Reload, Fewer, SameClone
  <2>3. DOMAIN m.list_clones = DOMAIN row.list_clones
    BY <2>1, <2>2
  <2>4. /\ DOMAIN CopyClones(m, row) = DOMAIN m.list_clones
        /\ \A j \in DOMAIN m.list_clones : CopyClones(m, row)[j].id = m.list_clones[j].id
    BY <2>2, <2>3, CopyClonesSeen
  <2>5. CopyClones(m, row) = <<>> <=> m.list_clones = <<>>
    BY <2>1, <2>4
  <2>6. Listed(k)
    BY <1>1, <2>4, <2>5 DEF Listed
  <2> QED BY <1>1, <1>2, <1>4, <2>6
<1> QED BY <1>3, <1>4

(* The merge shows the answer, with a listed clone chosen in every machine.*)
LEMMA MergedSeen ==
    ASSUME NEW ms \in Seq(Cards), \A i \in DOMAIN ms : Listed(ms[i]), NEW data \in Answers
    PROVE  /\ Merged(ms, data) \in Seq(Cards)
           /\ \A i \in DOMAIN Merged(ms, data) : Listed(Merged(ms, data)[i])
           /\ Seen(Merged(ms, data)) = Seen(data)
<1> DEFINE New(i) == IF Kept(ms, data, i) THEN Copied(ms[i], data[i]) ELSE Fresh(data[i])
<1>1. data \in Seq(Rows) /\ Len(data) \in Nat /\ DOMAIN data = 1..Len(data)
  BY AnswersAssumption
<1>2. ASSUME NEW i \in DOMAIN data
      PROVE  /\ New(i) \in Cards /\ Listed(New(i)) /\ New(i).id = data[i].id
             /\ SeenClones(New(i).list_clones) = SeenClones(data[i].list_clones)
  <2>1. data[i] \in Rows
    BY <1>1
  <2>2. CASE Kept(ms, data, i)
    <3>1. ms[i] \in Cards /\ Listed(ms[i]) /\ ms[i].id = data[i].id
      BY <1>1, <2>2 DEF Kept
    <3>2. /\ Copied(ms[i], data[i]) \in Cards /\ Listed(Copied(ms[i], data[i]))
          /\ Copied(ms[i], data[i]).id = ms[i].id
          /\ Copied(ms[i], data[i]).list_clones = CopyClones(ms[i], data[i])
      BY <2>1, <3>1, CopiedListed
    <3>3. SeenClones(CopyClones(ms[i], data[i])) = SeenClones(data[i].list_clones)
      BY <2>1, <3>1, CopyClonesSeen DEF SeenClones
    <3> QED BY <2>2, <3>1, <3>2, <3>3
  <2>3. CASE ~Kept(ms, data, i)
    BY <2>1, <2>3, FreshListed
  <2> QED BY <2>2, <2>3
<1>3. Merged(ms, data) = [i \in 1..Len(data) |-> New(i)]
  BY <1>1 DEF Merged
<1> HIDE DEF New
<1>4. /\ [i \in 1..Len(data) |-> New(i)] \in Seq(Cards)
      /\ \A i \in 1..Len(data) : Listed(New(i))
  BY <1>1, <1>2
<1>5. Seen(data) = [i \in 1..Len(data) |->
                       [id |-> data[i].id, clones |-> SeenClones(data[i].list_clones)]]
  BY <1>1 DEF Seen, SeenClones
<1>6. Seen(Merged(ms, data)) = [i \in 1..Len(data) |->
                       [id |-> New(i).id, clones |-> SeenClones(New(i).list_clones)]]
  BY <1>3 DEF Seen, SeenClones
<1>7. Seen(Merged(ms, data)) = Seen(data)
  BY <1>1, <1>2, <1>5, <1>6
<1> QED BY <1>3, <1>4, <1>7

-----------------------------------------------------------------------------
LEMMA InitIInv == Init => IInv
BY DEF Init, Loaded, Connecting, IInv, TypeOK, Sockets

(* A button changes flags of one card, or its choice among listed clones.  *)
LEMMA SetIInv ==
    ASSUME IInv, NEW i \in DOMAIN machines, NEW m \in Cards, Listed(m), Set(i, m),
           rows' = rows, wire' = wire, ws' = ws
    PROVE  IInv'
BY DEF IInv, TypeOK, Set

LEMMA CardIInv == ASSUME IInv, NEW i \in DOMAIN machines, Card(i) PROVE IInv'
<1> DEFINE m == machines[i]
<1>1. m \in Cards /\ Listed(m)
  BY DEF IInv, TypeOK
<1>2. rows' = rows /\ wire' = wire /\ ws' = ws
  BY DEF Card, Choose, ClickStart, StopYes, StopNo, ClickShutdown, AnswerShutdown, AskRestore,
         AnswerRestore, AskPrepare, AnswerPrepare, ServerVars, SocketVars
<1>3. CASE Choose(i)
  <2>1. PICK j \in DOMAIN m.list_clones : Set(i, [m EXCEPT !.clone = m.list_clones[j].id])
    BY <1>3 DEF Choose
  <2>2. m.list_clones \in Seq(Clones)
    BY <1>1 DEF Cards
  <2>3. m.list_clones[j].id \in Ids
    <3>1. j \in DOMAIN m.list_clones
      BY <2>1
    <3>2. m.list_clones[j] \in Clones
      BY <2>2, <3>1
    <3> QED BY <3>2 DEF Clones
  <2> DEFINE n == [m EXCEPT !.clone = m.list_clones[j].id]
  <2>4. n \in Cards /\ n.list_clones = m.list_clones /\ n.clone = m.list_clones[j].id
    BY <1>1, <2>3 DEF Cards
  <2>5. m.list_clones # <<>>
    BY <2>1
  <2>6. Listed(n)
    BY <2>1, <2>4, <2>5 DEF Listed
  <2> QED BY <1>2, <2>1, <2>4, <2>6, SetIInv
<1>4. ASSUME NEW n \in Cards, n.list_clones = m.list_clones, n.clone = m.clone, Set(i, n)
      PROVE  IInv'
  BY <1>1, <1>2, <1>4, SetIInv DEF Listed
<1>5. CASE ClickStart(i) \/ StopYes(i)
  <2>1. Set(i, [m EXCEPT !.action = "no"])
    BY <1>5 DEF ClickStart, StopYes
  <2>2. [m EXCEPT !.action = "no"] \in Cards
    BY <1>1 DEF Cards
  <2> QED BY <1>1, <1>4, <2>1, <2>2 DEF Cards
<1>6. CASE StopNo(i)
  BY <1>2, <1>6 DEF StopNo, IInv, TypeOK
<1>7. CASE ClickShutdown(i)
  <2>1. PICK shutdown \in BOOLEAN :
           Set(i, [m EXCEPT !.action = "no",
                            !.pending_shutdown = @ \/ (shutdown /\ Autostart(m))])
    BY <1>7 DEF ClickShutdown
  <2> DEFINE n == [m EXCEPT !.action = "no",
                            !.pending_shutdown = @ \/ (shutdown /\ Autostart(m))]
  <2>2. (m.pending_shutdown \/ (shutdown /\ Autostart(m))) \in BOOLEAN
    OBVIOUS
  <2>3. n \in Cards /\ n.list_clones = m.list_clones /\ n.clone = m.clone
    BY <1>1, <2>2 DEF Cards
  <2> QED BY <1>4, <2>1, <2>3
<1>8. CASE AnswerShutdown(i)
  <2> DEFINE n == [m EXCEPT !.action = "no", !.pending_shutdown = FALSE]
  <2>1. Set(i, n)
    BY <1>8 DEF AnswerShutdown
  <2>2. n \in Cards /\ n.list_clones = m.list_clones /\ n.clone = m.clone
    BY <1>1 DEF Cards
  <2> QED BY <1>4, <2>1, <2>2
<1>9. CASE AskRestore(i)
  <2> DEFINE n == [m EXCEPT !.host_restore = m.clone]
             o == [m EXCEPT !.host_restore = m.clone, !.action = "yes"]
  <2>1. Set(i, n) \/ Set(i, o)
    BY <1>9 DEF AskRestore
  <2>2. n \in Cards /\ n.list_clones = m.list_clones /\ n.clone = m.clone
    BY <1>1 DEF Cards
  <2>3. o \in Cards /\ o.list_clones = m.list_clones /\ o.clone = m.clone
    BY <1>1 DEF Cards
  <2> QED BY <1>4, <2>1, <2>2, <2>3
<1>10. CASE AnswerRestore(i)
  <2> DEFINE n == [m EXCEPT !.host_restore = Nil, !.action = "no"]
  <2>1. Set(i, n)
    BY <1>10 DEF AnswerRestore
  <2>2. n \in Cards /\ n.list_clones = m.list_clones /\ n.clone = m.clone
    BY <1>1 DEF Cards
  <2> QED BY <1>4, <2>1, <2>2
<1>11. CASE AskPrepare(i)
  <2> DEFINE n == [m EXCEPT !.action = "prepare"]
  <2>1. Set(i, n)
    BY <1>11 DEF AskPrepare
  <2>2. n \in Cards /\ n.list_clones = m.list_clones /\ n.clone = m.clone
    BY <1>1 DEF Cards
  <2> QED BY <1>4, <2>1, <2>2
<1>12. CASE AnswerPrepare(i)
  <2>1. PICK yes \in BOOLEAN : Set(i, [m EXCEPT !.action = "no", !.is_base = @ \/ yes])
    BY <1>12 DEF AnswerPrepare
  <2> DEFINE n == [m EXCEPT !.action = "no", !.is_base = @ \/ yes]
  <2>2. (m.is_base \/ yes) \in BOOLEAN
    OBVIOUS
  <2>3. n \in Cards /\ n.list_clones = m.list_clones /\ n.clone = m.clone
    BY <1>1, <2>2 DEF Cards
  <2> QED BY <1>4, <2>1, <2>3
<1> QED BY <1>3, <1>5, <1>6, <1>7, <1>8, <1>9, <1>10, <1>11, <1>12 DEF Card

(* The answers to the question of the limit of machines.                   *)
LEMMA LimitIInv == ASSUME IInv, NEW h \in limits, Limit(h) PROVE IInv'
<1>1. CASE LimitAllows(h)
  <2>1. rows' = rows /\ wire' = wire /\ ws' = ws
    BY <1>1 DEF LimitAllows, ServerVars, SocketVars
  <2>2. CASE machines' = machines
    BY <2>1, <2>2 DEF IInv, TypeOK
  <2>3. CASE Set(h.place, [machines[h.place] EXCEPT !.action = "no"])
    <3>1. CASE h.place \in DOMAIN machines
      <4> DEFINE m == machines[h.place]
                 n == [m EXCEPT !.action = "no"]
      <4>1. m \in Cards /\ Listed(m)
        BY <3>1 DEF IInv, TypeOK
      <4>2. n \in Cards /\ n.list_clones = m.list_clones /\ n.clone = m.clone
        BY <4>1 DEF Cards
      <4>3. Listed(n)
        BY <4>1, <4>2 DEF Listed
      <4> QED BY <2>1, <2>3, <3>1, <4>2, <4>3, SetIInv
    <3>2. CASE h.place \notin DOMAIN machines
      <4>1. machines' = machines
        BY <2>3, <3>2 DEF Set, IInv, TypeOK
      <4> QED BY <2>2, <4>1
    <3> QED BY <3>1, <3>2
  <2> QED BY <1>1, <2>2, <2>3 DEF LimitAllows
<1>2. CASE LimitReached(h)
  BY <1>2 DEF LimitReached, ServerVars, SocketVars, IInv, TypeOK
<1>3. CASE LimitFails(h)
  BY <1>3 DEF LimitFails, Connecting, ServerVars, IInv, TypeOK, Sockets
<1> QED BY <1>1, <1>2, <1>3 DEF Limit

(* An answer that arrives is merged.                                       *)
LEMMA ReceiveIInv == ASSUME IInv, Receive PROVE IInv' /\ Seen(machines') = Seen(Head(wire))
<1>1. /\ wire # <<>> /\ machines' = Merged(machines, Head(wire))
      /\ wire' = Tail(wire) /\ rows' = rows /\ ws' = ws
  BY DEF Receive, ServerVars
<1>2. Head(wire) \in Answers /\ Tail(wire) \in Seq(Answers)
  BY <1>1 DEF IInv, TypeOK
<1>3. machines \in Seq(Cards) /\ \A i \in DOMAIN machines : Listed(machines[i])
  BY DEF IInv, TypeOK
<1>4. /\ machines' \in Seq(Cards) /\ \A i \in DOMAIN machines' : Listed(machines'[i])
      /\ Seen(machines') = Seen(Head(wire))
  BY <1>1, <1>2, <1>3, MergedSeen
<1> QED BY <1>1, <1>2, <1>4 DEF IInv, TypeOK

(* Every step keeps the invariant.                                         *)
LEMMA NextIInv == IInv /\ [Next]_vars => IInv'
<1> SUFFICES ASSUME IInv, [Next]_vars PROVE IInv'
  OBVIOUS
<1>1. CASE ServerChanges
  BY <1>1 DEF ServerChanges, SocketVars, DialogVars, IInv, TypeOK
<1>2. CASE SocketOpens
  BY <1>2 DEF SocketOpens, ServerVars, IInv, TypeOK, Sockets
<1>3. CASE FailTimer
  <2>1. (ws.fail \/ ~ws.connected) \in BOOLEAN
    OBVIOUS
  <2>2. [ws EXCEPT !.timer = FALSE, !.fail = @ \/ ~ws.connected] \in Sockets
    BY <2>1 DEF IInv, TypeOK, Sockets
  <2>3. ws' = [ws EXCEPT !.timer = FALSE, !.fail = @ \/ ~ws.connected]
        /\ rows' = rows /\ wire' = wire /\ machines' = machines
    BY <1>3 DEF FailTimer, ServerVars
  <2> QED BY <2>2, <2>3 DEF IInv, TypeOK
<1>7. CASE SocketCloses
  BY <1>7 DEF SocketCloses, ServerVars, IInv, TypeOK, Sockets
<1>4. CASE ServerSends
  BY <1>4 DEF ServerSends, ServerVars, IInv, TypeOK
<1>5. CASE Receive
  BY <1>5, ReceiveIInv
<1>6. CASE UNCHANGED vars
  BY <1>6 DEF vars, IInv, TypeOK
<1> QED BY <1>1, <1>2, <1>3, <1>4, <1>5, <1>6, <1>7, CardIInv, LimitIInv DEF Next

-----------------------------------------------------------------------------
(* No button acts on a clone that an answer took away, whatever answers    *)
(* and clicks there were.                                                  *)
THEOREM AlwaysChosen == Spec => []ChosenIsListed
<1>1. IInv => ChosenIsListed
  BY DEF IInv, Listed, ChosenIsListed
<1> QED BY <1>1, InitIInv, NextIInv, PTL DEF Spec

(* The only step that takes an answer from the websocket is its handler.   *)
LEMMA ReceivesIsReceive == IInv /\ [Next]_vars /\ Receives => Receive
<1> SUFFICES ASSUME IInv, [Next]_vars, Receives PROVE Receive
  OBVIOUS
<1>1. wire \in Seq(Answers) /\ wire # <<>> /\ wire' = Tail(wire) /\ ws'.at = "open"
  BY DEF IInv, TypeOK, Receives
<1>2. Len(wire') < Len(wire)
  BY <1>1
<1>3. wire' # wire
  BY <1>2
<1>4. CASE ServerSends
  <2>1. Len(wire') = Len(wire) + 1
    BY <1>1, <1>4 DEF ServerSends, IInv, TypeOK
  <2> QED BY <1>1, <1>2, <2>1
<1>5. CASE ServerChanges \/ SocketOpens \/ FailTimer \/ UNCHANGED vars
  BY <1>3, <1>5 DEF ServerChanges, SocketOpens, FailTimer, SocketVars, vars
<1>8. CASE SocketCloses
  <2>1. ws'.at = "closed"
    BY <1>8 DEF SocketCloses, IInv, TypeOK, Sockets
  <2> QED BY <1>1, <2>1
<1>6. ASSUME NEW i \in DOMAIN machines, Card(i) PROVE FALSE
  BY <1>3, <1>6 DEF Card, Choose, ClickStart, StopYes, StopNo, ClickShutdown, AnswerShutdown,
         AskRestore, AnswerRestore, AskPrepare, AnswerPrepare, SocketVars
<1>7. ASSUME NEW h \in limits, Limit(h) PROVE FALSE
  <2>1. CASE LimitAllows(h) \/ LimitReached(h)
    BY <1>3, <2>1 DEF LimitAllows, LimitReached, SocketVars
  <2>2. CASE LimitFails(h)
    BY <1>1, <2>2 DEF LimitFails, Connecting
  <2> QED BY <1>7, <2>1, <2>2 DEF Limit
<1> QED BY <1>4, <1>5, <1>6, <1>7, <1>8 DEF Next

(* So whatever takes an answer shows it.                                   *)
LEMMA NextShows == IInv /\ [Next]_vars => ShowsAnswer
BY ReceivesIsReceive, ReceiveIInv DEF ShowsAnswer

(* After every answer the page shows that answer, whatever it showed       *)
(* before.                                                                 *)
THEOREM AlwaysShows == Spec => ShowsTheAnswer
BY NextShows, InitIInv, NextIInv, PTL DEF Spec, ShowsTheAnswer

(* The clones that are listed where they were make nobody choose again.    *)
LEMMA NextKeeps == IInv /\ [Next]_vars => KeepsChoice
<1>1. ASSUME IInv, [Next]_vars, NEW i \in DOMAIN machines, Receives,
             Len(Head(wire)) = Len(machines), Head(wire)[i].id = machines[i].id,
             Len(Head(wire)[i].list_clones) = Len(machines[i].list_clones),
             \A j \in DOMAIN machines[i].list_clones :
                Head(wire)[i].list_clones[j].id = machines[i].list_clones[j].id
      PROVE  machines'[i].clone = machines[i].clone
  <2> DEFINE m == machines[i]
             row == Head(wire)[i]
  <2>1. machines' = Merged(machines, Head(wire)) /\ Head(wire) \in Answers
    BY <1>1, ReceivesIsReceive DEF Receive, IInv, TypeOK, Receives
  <2>2. Head(wire) \in Seq(Rows) /\ machines \in Seq(Cards) /\ i \in DOMAIN Head(wire)
    BY <1>1, <2>1, AnswersAssumption DEF IInv, TypeOK
  <2>3. m \in Cards /\ row \in Rows /\ Listed(m)
    BY <2>2, <1>1 DEF IInv
  <2>4. machines'[i] = Copied(m, row)
    BY <1>1, <2>1, <2>2 DEF Merged, Kept
  <2>5. m.list_clones \in Seq(Clones) /\ row.list_clones \in Seq(Clones)
    BY <2>3 DEF Cards, Rows
  <2>6. ~Reload(m, row)
    BY <1>1, <2>5 DEF Reload, Fewer, SameClone
  <2> QED BY <2>3, <2>4, <2>6, CopiedListed
<1> QED BY <1>1 DEF KeepsChoice

(* An answer with the same machines and clones leaves the choice alone.    *)
THEOREM AlwaysKeeps == Spec => KeepsTheChoice
BY NextKeeps, InitIInv, NextIInv, PTL DEF Spec, KeepsTheChoice
=============================================================================
