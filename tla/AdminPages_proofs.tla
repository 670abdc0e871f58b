--------------------------- MODULE AdminPages_proofs ---------------------------
(***************************************************************************)
(* What the pages of an administrator show: the tree of machines, for any  *)
(* tree and any lists of it that arrive in any order, and the lists of     *)
(* access, groups and members beside the other pages.                      *)
(***************************************************************************)
EXTENDS AdminPages, TLAPS, FiniteSetTheorems

(***************************************************************************)
(* The tree.                                                               *)
(***************************************************************************)

(* A machine that has a base has it above.                                 *)
LEMMA BaseIsAbove ==
    ASSUME NEW m \in Machines, Base[m] # Nil
    PROVE  Base[m] \in Bases /\ Base[m] \in Machines /\ Base[m] \in Ancestors(m)
<1>1. Base[m] \in Bases /\ Base[m] \in Machines
  BY TreeAssumption DEF Bases
<1> QED BY <1>1 DEF Ancestors, Above, Climbs

(* What is above a machine is a base, and so a machine.                    *)
LEMMA AboveAreBases ==
    ASSUME NEW m \in Machines
    PROVE  Ancestors(m) \subseteq Bases /\ Bases \subseteq Machines
BY TreeAssumption DEF Ancestors, Above, Bases

(* What is above a base of a machine is above the machine.                 *)
LEMMA HigherIsAbove ==
    ASSUME NEW m \in Machines, NEW b \in Ancestors(m), NEW a \in Ancestors(b)
    PROVE  a \in Ancestors(m)
<1>1. b \in Machines /\ a \in Bases
  BY AboveAreBases
<1>2. SUFFICES ASSUME NEW S \in SUBSET Bases, Climbs(m, S) PROVE a \in S
  BY <1>1 DEF Ancestors, Above
<1>3. b \in S
  BY <1>2 DEF Ancestors, Above
<1>4. Climbs(b, S)
  BY <1>2, <1>3 DEF Climbs
<1> QED BY <1>1, <1>4 DEF Ancestors, Above

(* Whatever is above a machine is its base, or above its base.             *)
LEMMA AboveItsBase ==
    ASSUME NEW m \in Machines, NEW b \in Ancestors(m)
    PROVE  Base[m] # Nil /\ b \in {Base[m]} \cup Ancestors(Base[m])
<1>1. CASE Base[m] = Nil
  <2>1. Climbs(m, {})
    BY <1>1 DEF Climbs
  <2> QED BY <2>1 DEF Ancestors, Above
<1>2. CASE Base[m] # Nil
  <2> DEFINE B == Base[m]
             T == {B} \cup Ancestors(B)
  <2>1. B \in Machines /\ B \in Bases
    BY <1>2, BaseIsAbove
  <2>2. T \in SUBSET Bases /\ T \subseteq Machines
    BY <2>1, AboveAreBases
  <2>3. ASSUME NEW x \in T \cup {m} PROVE Base[x] \in T \cup {Nil}
    <3>1. CASE x = m \/ x = B
      BY <2>1, <3>1, BaseIsAbove
    <3>2. CASE x \in Ancestors(B)
      BY <2>1, <2>2, <3>2, BaseIsAbove, HigherIsAbove
    <3> QED BY <2>3, <3>1, <3>2
  <2>4. Climbs(m, T)
    BY <2>3 DEF Climbs
  <2> QED BY <1>2, <2>2, <2>4 DEF Ancestors, Above
<1> QED BY <1>1, <1>2

(***************************************************************************)
(* The lists that the server makes.                                        *)
(***************************************************************************)

(* Every machine has its place in the tree.                                *)
LEMMA PlaceOfAll ==
    /\ IsFiniteSet(Machines)
    /\ \A m \in Machines : Place(m) \in Nat /\ Order[Place(m)] = m
<1>1. Order \in Seq(Machines) /\ DOMAIN Order = 1..Len(Order) /\ Len(Order) \in Nat
  BY TreeAssumption
<1>2. Machines = {Order[i] : i \in DOMAIN Order}
  BY DEF Machines, ToSet
<1>3. Order \in Surjection(1..Len(Order), Machines)
  BY <1>1, <1>2 DEF Surjection
<1>4. IsFiniteSet(1..Len(Order))
  BY <1>1, FS_Interval
<1>5. IsFiniteSet(Machines)
  BY <1>3, <1>4, FS_Surjection
<1>6. ASSUME NEW m \in Machines PROVE Place(m) \in Nat /\ Order[Place(m)] = m
  <2>1. \E i \in DOMAIN Order : Order[i] = m
    BY <1>2
  <2>2. Place(m) \in DOMAIN Order /\ Order[Place(m)] = m
    BY <2>1 DEF Place
  <2> QED BY <1>1, <2>2
<1> QED BY <1>5, <1>6

(* A list has each machine of a set once, and nothing else.                *)
LEMMA InOrderIsAll ==
    ASSUME NEW S \in SUBSET Machines
    PROVE  /\ Cardinality(S) \in Nat
           /\ InOrder(S) \in [1..Cardinality(S) -> S]
           /\ \A m \in S : \E k \in 1..Cardinality(S) : InOrder(S)[k] = m
<1> DEFINE n == Cardinality(S)
           Upto(m) == {x \in S : Place(x) <= Place(m)}
           R == [m \in S |-> Rank(m, S)]
<1>1. IsFiniteSet(S) /\ n \in Nat
  BY PlaceOfAll, FS_Subset, FS_CardinalityType
<1>2. ASSUME NEW m \in S
      PROVE  /\ IsFiniteSet(Upto(m)) /\ Rank(m, S) = Cardinality(Upto(m))
             /\ Rank(m, S) \in 1..n
  <2>1. Upto(m) \in SUBSET S /\ m \in Upto(m)
    BY PlaceOfAll
  <2>2. IsFiniteSet(Upto(m)) /\ Cardinality(Upto(m)) <= n /\ Cardinality(Upto(m)) \in Nat
    BY <1>1, <2>1, FS_Subset, FS_CardinalityType
  <2>3. Cardinality(Upto(m)) # 0
    BY <2>1, <2>2, FS_EmptySet
  <2> QED BY <1>1, <2>2, <2>3 DEF Rank
<1>3. ASSUME NEW x \in S, NEW m \in S, Rank(x, S) = Rank(m, S), Place(x) <= Place(m)
      PROVE  x = m
  <2>1. Upto(x) \in SUBSET Upto(m)
    BY <1>3, PlaceOfAll
  <2>2. Upto(x) = Upto(m)
    BY <1>2, <1>3, <2>1, FS_Subset
  <2>3. Place(m) <= Place(x)
    BY <2>2, PlaceOfAll
  <2> QED BY <1>3, <2>3, PlaceOfAll
<1>4. \A x, m \in S : Rank(x, S) = Rank(m, S) => x = m
  BY <1>3, PlaceOfAll
<1>5. R \in Injection(S, 1..n)
  BY <1>2, <1>4 DEF Injection, IsInjective
<1>6. IsFiniteSet(1..n) /\ Cardinality(1..n) = n
  BY <1>1, FS_Interval
<1>7. R \in Surjection(S, 1..n)
  <2> HIDE DEF R, n
  <2> QED BY <1>1, <1>5, <1>6, FS_Injection DEF n
<1>8. ASSUME NEW k \in 1..n PROVE \E m \in S : Rank(m, S) = k
  BY <1>7 DEF Surjection
<1>9. ASSUME NEW k \in 1..n PROVE InOrder(S)[k] \in S /\ Rank(InOrder(S)[k], S) = k
  BY <1>8 DEF InOrder
<1>10. InOrder(S) \in [1..n -> S]
  BY <1>9 DEF InOrder
<1>11. ASSUME NEW m \in S PROVE InOrder(S)[Rank(m, S)] = m
  BY <1>2, <1>4, <1>9
<1> QED BY <1>1, <1>2, <1>10, <1>11

(* The tree of what the server found has the bases of all it holds.        *)
LEMMA TreeHasBases ==
    ASSUME NEW S \in SUBSET Machines, NEW m \in Tree(S), NEW b \in Ancestors(m)
    PROVE  b \in Tree(S)
<1>1. m \in Machines /\ Ancestors(m) \subseteq S
  BY DEF Tree
<1>2. Ancestors(b) \subseteq Ancestors(m)
  BY <1>1, HigherIsAbove
<1> QED BY <1>1, <1>2 DEF Tree

(***************************************************************************)
(* The page of the machines.                                               *)
(***************************************************************************)
EntrySet == [row : RowSet, show : BOOLEAN]

(* Rows, or entries of the page, that hold the bases of each of them.      *)
WithBases(data) ==
    \A i \in DOMAIN data : \A b \in Ancestors(data[i].id) : \E j \in DOMAIN data : data[j].id = b
ListWithBases ==
    \A i \in 1..length : \A b \in Ancestors(list[i].row.id) :
        \E j \in 1..length : list[j].row.id = b

ServerTyped ==
    /\ changes \in Nat
    /\ rows \in [Machines -> [exists : BOOLEAN, active : BOOLEAN, date : Nat]]
    /\ \A b \in Bases : rows[b].exists
(* Any list will do when no machine has a base, for then WithBases says    *)
(* nothing.                                                                *)
HasList(l) == l # <<>> \/ Bases = {}
WireTyped ==
    wire # Nil =>
        /\ wire.data \in Seq(RowSet)
        /\ wire.action = "new" => WithBases(wire.data) /\ HasList(wire.data)
ShowTyped ==
    /\ show_clones \in [Machines -> BOOLEAN] /\ show_machine \in [Machines -> BOOLEAN]
    /\ show_active \in BOOLEAN
ListTyped ==
    /\ list \in Seq(EntrySet) /\ length \in 0..Len(list)
    /\ ListWithBases
(* The rows that changed come only to a page that has a list already: else *)
(* it would take them, without their bases, for a whole one.               *)
LinkInv ==
    /\ ws # "open" => client.listed = Nil /\ wire = Nil
    /\ modal => list # <<>>
    /\ client.listed # Nil => HasList(list) \/ (wire # Nil /\ wire.action = "new")
    /\ wire # Nil /\ wire.action # "new" => HasList(list)
TreeInv == ServerTyped /\ WireTyped /\ ShowTyped /\ ListTyped /\ LinkInv

LEMMA TreeStarts ==
    ASSUME NEW r \in StartRows
    PROVE  /\ r \in [Machines -> [exists : BOOLEAN, active : BOOLEAN, date : Nat]]
           /\ \A b \in Bases : r[b].exists
<1>1. PICK later \in SUBSET (Machines \ Bases) : r = RowsBut(later)
  BY DEF StartRows
<1>2. r \in [Machines -> [exists : BOOLEAN, active : BOOLEAN, date : Nat]]
  <2>1. \A m \in Machines : (m \notin later) \in BOOLEAN
    OBVIOUS
  <2> QED BY <1>1, <2>1, Zenon DEF RowsBut
<1>3. \A b \in Bases : r[b].exists
  BY <1>1, TreeAssumption DEF RowsBut, Bases
<1> QED BY <1>2, <1>3

LEMMA InitTreeInv == Init => TreeInv
<1> SUFFICES ASSUME Init PROVE TreeInv
  OBVIOUS
<1>1. ServerTyped
  BY TreeStarts DEF Init, ServerTyped
<1>2. WireTyped /\ ShowTyped
  BY DEF Init, WireTyped, ShowTyped, None
<1>3. ListTyped /\ LinkInv
  BY DEF Init, Unknown, ListTyped, ListWithBases, LinkInv
<1> QED BY <1>1, <1>2, <1>3 DEF TreeInv

(* The data of a message: a row for each machine of a set.                 *)
LEMMA DataOfSet ==
    ASSUME ServerTyped, NEW S \in SUBSET Machines
    PROVE  LET data == Data(InOrder(S))
           IN  /\ data \in Seq(RowSet)
               /\ \A i \in DOMAIN data : data[i].id \in S
               /\ \A m \in S : \E i \in DOMAIN data : data[i].id = m
<1> DEFINE n == Cardinality(S)
           l == InOrder(S)
<1>1. n \in Nat /\ l \in [1..n -> S] /\ \A m \in S : \E k \in 1..n : l[k] = m
  BY InOrderIsAll
<1>2. \A m \in Machines : Row(m) \in RowSet /\ Row(m).id = m
  BY DEF ServerTyped, Row, RowSet
<1> HIDE DEF n, l
<1>3. /\ Data(l) \in [1..n -> RowSet] /\ \A i \in 1..n : Data(l)[i].id = l[i]
  BY <1>1, <1>2 DEF Data
<1>4. Data(l) \in Seq(RowSet) /\ DOMAIN Data(l) = 1..n
  BY <1>1, <1>3
<1> QED BY <1>1, <1>3, <1>4 DEF l

(* A whole list holds the bases of what it lists.                          *)
LEMMA SendsListTreeInv ==
    ASSUME TreeInv, SendsList
    PROVE  TreeInv'
<1> DEFINE found == Found(Opens(client), client.active)
           S == Tree(found)
           data == Data(InOrder(S))
<1>1. found \in SUBSET Machines /\ S \in SUBSET Machines
  BY DEF Found, Exists, Tree
<1>2. /\ wire' = [action |-> "new", data |-> data] /\ ws = "open"
      /\ UNCHANGED <<ServerVars, ws, list, length, ShowVars, modal>>
  BY DEF SendsList, Listed
<1>3. /\ data \in Seq(RowSet)
      /\ \A i \in DOMAIN data : data[i].id \in S
      /\ \A m \in S : \E i \in DOMAIN data : data[i].id = m
  <2> HIDE DEF S
  <2> QED BY <1>1, DataOfSet DEF TreeInv
<1>4. WithBases(data)
  <2> SUFFICES ASSUME NEW i \in DOMAIN data, NEW b \in Ancestors(data[i].id)
               PROVE  \E j \in DOMAIN data : data[j].id = b
    BY DEF WithBases
  <2>1. b \in S
    <3> HIDE DEF found
    <3> QED BY <1>1, <1>3, TreeHasBases
  <2> QED BY <1>3, <2>1
<1>5. HasList(data)
  <2> SUFFICES ASSUME Bases # {} PROVE data # <<>>
    BY DEF HasList
  <2>1. PICK b \in Bases : Base[b] = Nil
    BY TreeAssumption DEF IsRoot
  <2>2. b \in Machines /\ rows[b].exists
    BY TreeAssumption DEF Bases, TreeInv, ServerTyped
  <2>3. b \in found /\ Ancestors(b) = {}
    BY <2>1, <2>2, AboveItsBase DEF Found, Exists
  <2>4. b \in S
    BY <2>3 DEF Tree
  <2>5. DOMAIN data # {}
    BY <1>3, <2>4
  <2> QED BY <2>5
<1> HIDE DEF data
<1>6. WireTyped'
  <2>1. wire'.data \in Seq(RowSet) /\ WithBases(wire'.data) /\ HasList(wire'.data)
    BY <1>2, <1>3, <1>4, <1>5
  <2> HIDE DEF found, S
  <2>2. wire' # Nil => wire'.data \in Seq(RowSet) /\ WithBases(wire'.data) /\ HasList(wire'.data)
    BY <2>1
  <2> QED BY <2>2, Zenon DEF WireTyped, WithBases, HasList
<1>7. ServerTyped' /\ ShowTyped' /\ ListTyped'
  BY <1>2 DEF TreeInv, ServerTyped, ShowTyped, ListTyped, ListWithBases, ServerVars, ShowVars
<1>8. LinkInv'
  <2>1. wire' \in Messages /\ wire'.action = "new"
    BY <1>2, <1>3 DEF Messages
  <2>2. wire' # Nil
    BY <2>1, TreeAssumption
  <2> HIDE DEF found, S
  <2> QED BY <1>2, <2>1, <2>2 DEF TreeInv, LinkInv, HasList
<1> QED BY <1>6, <1>7, <1>8 DEF TreeInv

(* The rows that changed are sent only after a whole list.                 *)
LEMMA SendsChangesTreeInv ==
    ASSUME TreeInv, SendsChanges
    PROVE  TreeInv'
<1>1. PICK since \in -1..changes :
         LET S == {m \in Found(client.open, client.active) : rows[m].date > since}
         IN  wire' = [action |-> "refresh", data |-> Data(InOrder(S))]
  BY DEF SendsChanges
<1> DEFINE S == {m \in Found(client.open, client.active) : rows[m].date > since}
           data == Data(InOrder(S))
<1>2. S \in SUBSET Machines
  BY DEF Found, Exists
<1>3. data \in Seq(RowSet)
  <2> HIDE DEF S
  <2> QED BY <1>2, DataOfSet DEF TreeInv
<1>4. wire' = [action |-> "refresh", data |-> data]
  BY <1>1
<1>5. /\ UNCHANGED <<ServerVars, client, ws, list, length, ShowVars, modal>>
      /\ wire = Nil /\ client.listed # Nil /\ ws = "open"
  BY DEF SendsChanges
<1> HIDE DEF data
<1>6. WireTyped'
  BY <1>3, <1>4 DEF WireTyped
<1>7. ServerTyped' /\ ShowTyped' /\ ListTyped'
  BY <1>5 DEF TreeInv, ServerTyped, ShowTyped, ListTyped, ListWithBases, ServerVars, ShowVars
<1>8. LinkInv'
  BY <1>4, <1>5 DEF TreeInv, LinkInv, HasList
<1> QED BY <1>6, <1>7, <1>8 DEF TreeInv

-----------------------------------------------------------------------------
(* What is put in the list is an entry of the row that came.               *)
LEMMA PutIsEntry ==
    ASSUME ShowTyped, NEW row \in RowSet
    PROVE  Put(row) \in EntrySet /\ Put(row).row = row
<1>1. Shows(row) \in BOOLEAN
  BY Zenon DEF Shows
<1> QED BY <1>1, Zenon DEF Put, EntrySet

(* A new list has the rows that came, in their places.                     *)
LEMMA NewListIds ==
    ASSUME TreeInv, NEW data \in Seq(RowSet)
    PROVE  /\ NewList(data) \in Seq(EntrySet) /\ Len(data) \in 0..Len(NewList(data))
           /\ \A i \in 1..Len(data) : NewList(data)[i].row.id = data[i].id
<1> DEFINE n == IF Len(data) < Len(list) THEN Len(list) ELSE Len(data)
           New(i) == IF i > Len(data) THEN list[i]
                     ELSE IF i > Len(list) \/ list[i].row.id # data[i].id
                             \/ list[i].row.date # data[i].date \/ (show_active /\ data[i].active)
                          THEN Put(data[i]) ELSE list[i]
<1>1. n \in Nat /\ Len(data) \in 0..n
  BY DEF TreeInv, ListTyped
<1>2. NewList(data) = [i \in 1..n |-> New(i)]
  BY Zenon DEF NewList
<1>3. \A i \in 1..Len(data) : Put(data[i]) \in EntrySet /\ Put(data[i]).row = data[i]
  BY PutIsEntry DEF TreeInv
<1>4. \A i \in 1..n : New(i) \in EntrySet /\ (i <= Len(data) => New(i).row.id = data[i].id)
  BY <1>3 DEF TreeInv, ListTyped
<1> QED
  <2> HIDE DEF n, New
  <2> QED BY <1>1, <1>2, <1>4

(* The rows that changed take the places of the same machines.             *)
LEMMA RefreshedIds ==
    ASSUME TreeInv, NEW data \in Seq(RowSet)
    PROVE  /\ Refreshed(data) \in Seq(EntrySet) /\ Len(Refreshed(data)) = Len(list)
           /\ \A i \in 1..Len(list) : Refreshed(data)[i].row.id = list[i].row.id
<1> DEFINE Same(i) == {j \in DOMAIN data : data[j].id = list[i].row.id}
           New(i) == IF Same(i) = {} THEN list[i] ELSE Put(data[CHOOSE j \in Same(i) : TRUE])
<1>1. DOMAIN list = 1..Len(list) /\ Len(list) \in Nat
  BY DEF TreeInv, ListTyped
<1>2. Refreshed(data) = [i \in 1..Len(list) |-> New(i)]
  BY <1>1, Zenon DEF Refreshed
<1>3. \A j \in DOMAIN data : Put(data[j]) \in EntrySet /\ Put(data[j]).row = data[j]
  BY PutIsEntry DEF TreeInv
<1>4. ASSUME NEW i \in 1..Len(list) PROVE New(i) \in EntrySet /\ New(i).row.id = list[i].row.id
  <2>1. CASE Same(i) = {}
    BY <2>1 DEF TreeInv, ListTyped
  <2>2. CASE Same(i) # {}
    <3> DEFINE j == CHOOSE k \in Same(i) : TRUE
    <3>1. j \in Same(i)
      BY <2>2
    <3>2. New(i) = Put(data[j])
      BY <2>2
    <3> QED BY <1>3, <3>1, <3>2
  <2> QED BY <2>1, <2>2
<1> QED
  <2> HIDE DEF New
  <2> QED BY <1>1, <1>2, <1>4

(* Only the active ones shown: the same entries.                           *)
LEMMA ActiveInIds ==
    ASSUME NEW l \in Seq(EntrySet)
    PROVE  /\ ActiveIn(l) \in Seq(EntrySet) /\ Len(ActiveIn(l)) = Len(l)
           /\ \A i \in 1..Len(l) : ActiveIn(l)[i].row = l[i].row
<1> DEFINE New(i) == [l[i] EXCEPT !.show = l[i].row.active]
<1>1. DOMAIN l = 1..Len(l) /\ Len(l) \in Nat
  OBVIOUS
<1>2. ASSUME NEW i \in 1..Len(l) PROVE New(i) \in EntrySet /\ New(i).row = l[i].row
  <2>1. l[i] \in EntrySet
    OBVIOUS
  <2>2. l[i].row.active \in BOOLEAN
    BY <2>1 DEF EntrySet, RowSet
  <2> QED BY <2>1, <2>2 DEF EntrySet
<1>3. ActiveIn(l) = [i \in 1..Len(l) |-> New(i)]
  BY <1>1 DEF ActiveIn
<1> QED
  <2> HIDE DEF New
  <2> QED BY <1>1, <1>2, <1>3

LEMMA MarkedTyped ==
    ASSUME ShowTyped, NEW l PROVE Marked(l) \in [Machines -> BOOLEAN]
BY Zenon DEF Marked

(* A step that leaves each machine of the list in its place leaves every   *)
(* machine with its bases, and the list as empty as it was.                *)
LEMMA SameIds ==
    ASSUME TreeInv, list' \in Seq(EntrySet), Len(list') = Len(list), length' = length,
           \A i \in 1..Len(list) : list'[i].row.id = list[i].row.id
    PROVE  ListTyped' /\ (list' = <<>> <=> list = <<>>)
<1>1. \A i \in 1..length : list'[i].row.id = list[i].row.id
  BY DEF TreeInv, ListTyped
<1>2. ListTyped'
  BY <1>1 DEF TreeInv, ListTyped, ListWithBases
<1>3. list \in Seq(EntrySet)
  BY DEF TreeInv, ListTyped
<1> QED BY <1>2, <1>3

(* A click tells the server, which then forgets what it listed, or does not*)
(* reach it.                                                               *)
LEMMA TellsLink ==
    ASSUME TreeInv, UNCHANGED <<wire, ws, modal>>, list' = <<>> <=> list = <<>>,
           client'.listed \in {client.listed, Nil}
    PROVE  LinkInv'
BY DEF TreeInv, LinkInv, HasList

LEMMA ToldListed ==
    ASSUME NEW ids, NEW value
    PROVE  /\ Told(client, ids, value).listed \in {client.listed, Nil}
           /\ ToldActive(client, value).listed \in {client.listed, Nil}
           /\ Told(ToldActive(client, value), ids, value).listed \in {client.listed, Nil}
BY DEF Told, ToldActive

LEMMA ReceiveTreeInv ==
    ASSUME TreeInv, Receive
    PROVE  TreeInv' /\ show_clones' = show_clones
<1> DEFINE data == wire.data
           new == wire.action = "new" \/ list = <<>>
           l == IF new THEN NewList(data) ELSE Refreshed(data)
<1>1. data \in Seq(RowSet) /\ (wire.action = "new" => WithBases(data) /\ HasList(data))
  BY DEF TreeInv, WireTyped, Receive
<1>6. new => WithBases(data) /\ HasList(data)
  <2>1. CASE wire.action = "new"
    BY <1>1, <2>1
  <2>2. CASE wire.action # "new" /\ list = <<>>
    <3>1. wire # Nil
      BY DEF Receive
    <3>3. Bases = {}
      BY <2>2, <3>1 DEF TreeInv, LinkInv, HasList
    <3> HIDE DEF data
    <3>4. ASSUME NEW i \in DOMAIN data PROVE data[i].id \in Machines
      <4>1. data[i] \in RowSet
        BY <1>1
      <4> QED BY <4>1 DEF RowSet
    <3>2. \A i \in DOMAIN data : data[i].id \in Machines
      BY <3>4
    <3> QED BY <3>2, <3>3, AboveAreBases DEF WithBases, HasList
  <2> QED BY <2>1, <2>2
<1>2. ServerTyped' /\ WireTyped'
  BY DEF TreeInv, ServerTyped, WireTyped, Receive, ServerVars
<1>3. ShowTyped' /\ show_clones' = show_clones
  BY MarkedTyped DEF TreeInv, ShowTyped, Receive
<1> SUFFICES ListTyped' /\ (list' # <<>> \/ (~modal /\ Bases = {}) \/ (~new /\ list' = list))
  <2>1. wire' = Nil /\ wire # Nil /\ UNCHANGED <<ws, client, modal>>
    BY DEF Receive
  <2>2. ASSUME list' # <<>> \/ (~modal /\ Bases = {}) \/ (~new /\ list' = list) PROVE LinkInv'
    <3> HIDE DEF l
    <3> QED BY <2>1, <2>2 DEF TreeInv, LinkInv, HasList
  <2> QED BY <1>2, <1>3, <2>2 DEF TreeInv
<1>4. CASE modal
  <2>1. UNCHANGED <<list, length>>
    BY <1>4 DEF Receive
  <2>2. list # <<>>
    BY <1>4 DEF TreeInv, LinkInv
  <2> QED BY <2>1, <2>2 DEF TreeInv, ListTyped, ListWithBases
<1>5. CASE ~modal
  <2>1. /\ length' = (IF new THEN Len(data) ELSE length)
        /\ list' = (IF show_active THEN ActiveIn(l) ELSE l)
    BY <1>5 DEF Receive
  <2>2. l \in Seq(EntrySet)
    BY <1>1, NewListIds, RefreshedIds
  <2>3. /\ list' \in Seq(EntrySet) /\ Len(list') = Len(l)
        /\ \A i \in 1..Len(l) : list'[i].row = l[i].row
    <3> HIDE DEF l
    <3> QED BY <2>1, <2>2, ActiveInIds
  <2>4. CASE new
    <3>1. /\ length' = Len(data) /\ Len(data) \in 0..Len(l) /\ Len(data) \in Nat
          /\ \A i \in 1..Len(data) : l[i].row.id = data[i].id
      BY <1>1, <2>1, <2>4, NewListIds
    <3>2. \A i \in 1..Len(data) : list'[i].row.id = data[i].id
      <4> HIDE DEF l, data
      <4> QED BY <2>2, <2>3, <3>1
    <3>3. ListWithBases'
      <4>1. DOMAIN data = 1..Len(data)
        BY <1>1
      <4> HIDE DEF l, data
      <4>2. SUFFICES ASSUME NEW i \in 1..Len(data), NEW b \in Ancestors(data[i].id)
                     PROVE  \E j \in 1..Len(data) : list'[j].row.id = b
        BY <3>1, <3>2 DEF ListWithBases
      <4>3. PICK j \in 1..Len(data) : data[j].id = b
        BY <1>6, <2>4, <4>1 DEF WithBases
      <4> QED BY <3>2, <4>3
    <3>4. list' # <<>> \/ Bases = {}
      <4>1. data # <<>> \/ Bases = {}
        BY <1>6, <2>4 DEF HasList
      <4>2. data # <<>> => Len(data) > 0
        BY <1>1
      <4> HIDE DEF l, data
      <4> QED BY <2>3, <3>1, <4>1, <4>2
    <3> HIDE DEF l, data
    <3> QED BY <1>5, <2>2, <2>3, <3>1, <3>3, <3>4 DEF ListTyped
  <2>5. CASE ~new
    <3>1. /\ length' = length /\ Len(l) = Len(list)
          /\ \A i \in 1..Len(list) : l[i].row.id = list[i].row.id
      BY <1>1, <2>1, <2>5, RefreshedIds
    <3>2. list # <<>>
      BY <2>5
    <3> HIDE DEF l
    <3> QED BY <2>3, <3>1, <3>2, SameIds
  <2> QED BY <2>4, <2>5
<1> QED BY <1>4, <1>5

-----------------------------------------------------------------------------
(* The clicks that open and close bases keep every machine in its place.   *)
SameRows == /\ list' \in Seq(EntrySet) /\ Len(list') = Len(list)
            /\ \A i \in 1..Len(list) : list'[i].row = list[i].row

LEMMA SetTyped ==
    ASSUME TreeInv, NEW ids, NEW value \in BOOLEAN, Set(ids, value)
    PROVE  /\ SameRows
           /\ show_clones' \in [Machines -> BOOLEAN] /\ show_machine' \in [Machines -> BOOLEAN]
           /\ \A i \in 1..Len(list) : \A id \in ids :
                  list[i].row.id \in Follow(id, value) => list'[i].show = value
<1> DEFINE moved == UNION {Follow(id, value) : id \in ids}
           New(i) == IF list[i].row.id \in moved THEN [list[i] EXCEPT !.show = value] ELSE list[i]
<1>1. DOMAIN list = 1..Len(list) /\ Len(list) \in Nat /\ list \in Seq(EntrySet)
  BY DEF TreeInv, ListTyped
<1>2. list' = [i \in 1..Len(list) |-> New(i)]
  BY <1>1, Zenon DEF Set
<1>3. ASSUME NEW i \in 1..Len(list)
      PROVE  /\ New(i) \in EntrySet /\ New(i).row = list[i].row
             /\ list[i].row.id \in moved => New(i).show = value
  <2>1. list[i] \in EntrySet
    BY <1>1
  <2> HIDE DEF moved
  <2> QED BY <2>1 DEF EntrySet
<1>4. /\ SameRows
      /\ \A i \in 1..Len(list) : list[i].row.id \in moved => list'[i].show = value
  <2> HIDE DEF New, moved
  <2> QED BY <1>1, <1>2, <1>3 DEF SameRows
<1>5. show_clones' \in [Machines -> BOOLEAN] /\ show_machine' \in [Machines -> BOOLEAN]
  BY DEF Set, TreeInv, ShowTyped
<1> QED BY <1>4, <1>5

LEMMA AllClonesTyped ==
    ASSUME TreeInv, NEW l \in Seq(EntrySet), Len(l) = Len(list),
           \A i \in 1..Len(list) : l[i].row = list[i].row,
           NEW value \in BOOLEAN, AllClones(l, value)
    PROVE  /\ SameRows
           /\ show_clones' \in [Machines -> BOOLEAN] /\ show_machine' \in [Machines -> BOOLEAN]
           /\ \A i \in 1..Len(list) :
                  Base[list[i].row.id] # Nil /\ Base[list[i].row.id] \in InList \cap Bases
                      => list'[i].show = value
<1> DEFINE ids == InList \cap Bases
           moved == {m \in InList : Base[m] \in ids}
           New(i) == IF IsRoot(l[i].row.id) THEN [l[i] EXCEPT !.show = TRUE]
                     ELSE IF l[i].row.id \in moved THEN [l[i] EXCEPT !.show = value] ELSE l[i]
<1>1. /\ DOMAIN list = 1..Len(list) /\ Len(list) \in Nat
      /\ DOMAIN l = 1..Len(list) /\ list \in Seq(EntrySet)
  BY DEF TreeInv, ListTyped
<1>2. list' = [i \in 1..Len(list) |-> New(i)]
  BY <1>1, Zenon DEF AllClones
<1>3. ASSUME NEW i \in 1..Len(list)
      PROVE  /\ New(i) \in EntrySet /\ New(i).row = list[i].row
             /\ ~IsRoot(list[i].row.id) /\ list[i].row.id \in moved => New(i).show = value
  <2>1. l[i] \in EntrySet /\ l[i].row = list[i].row
    BY <1>1
  <2> HIDE DEF moved
  <2> QED BY <2>1 DEF EntrySet
<1>4. \A i \in 1..Len(list) : list[i].row.id \in InList
  BY <1>1 DEF InList
<1>5. /\ SameRows
      /\ \A i \in 1..Len(list) : Base[list[i].row.id] # Nil /\ Base[list[i].row.id] \in ids
             => list'[i].show = value
  <2>1. \A i \in 1..Len(list) : list'[i] = New(i)
    BY <1>2
  <2>2. \A i \in 1..Len(list) : Base[list[i].row.id] \in ids => list[i].row.id \in moved
    BY <1>4
  <2> HIDE DEF New, moved, ids
  <2> QED BY <1>1, <1>2, <1>3, <2>1, <2>2 DEF SameRows, IsRoot
<1>6. show_clones' \in [Machines -> BOOLEAN] /\ show_machine' \in [Machines -> BOOLEAN]
  BY DEF AllClones, TreeInv, ShowTyped
<1> QED BY <1>5, <1>6

(* What a step that closes bases has to do, entry by entry.                *)
LEMMA HidesEntries ==
    ASSUME TreeInv, SameRows, length' = length,
           \A b \in Bases : show_clones[b] /\ ~show_clones'[b] =>
               \A i \in 1..length : b \in Ancestors(list[i].row.id) => list'[i].show = FALSE
    PROVE  Hides
<1> SUFFICES ASSUME NEW b \in Bases, show_clones[b], ~show_clones'[b],
                    NEW i \in 1..length, list'[i].show, b \in Ancestors(list'[i].row.id)
             PROVE  FALSE
  BY Zenon DEF Hides, NothingBelow, Visible
<1>1. list'[i].row.id = list[i].row.id
  BY DEF SameRows, TreeInv, ListTyped
<1> QED BY <1>1

(* The machines of the list, and all that is above them, are in the list.  *)
LEMMA ListedInList ==
    ASSUME TreeInv, NEW i \in 1..length
    PROVE  /\ i \in 1..Len(list) /\ list[i].row.id \in Machines
           /\ list[i].row.id \in InList /\ Ancestors(list[i].row.id) \subseteq InList
<1>1. /\ i \in 1..Len(list) /\ 1..length \subseteq DOMAIN list
      /\ list[i] \in EntrySet
  BY DEF TreeInv, ListTyped
<1>2. list[i].row.id \in Machines
  BY <1>1 DEF EntrySet, RowSet
<1> QED BY <1>1, <1>2 DEF InList, TreeInv, ListTyped, ListWithBases

LEMMA ToggleShowClonesSafe ==
    ASSUME TreeInv, NEW id \in Bases, ToggleShowClones(id)
    PROVE  TreeInv' /\ Hides
<1> DEFINE value == ~show_clones[id]
<1>1. value \in BOOLEAN /\ Set({id}, value) /\ length' = length
  BY DEF ToggleShowClones
<1>2. /\ SameRows
      /\ show_clones' \in [Machines -> BOOLEAN] /\ show_machine' \in [Machines -> BOOLEAN]
      /\ \A i \in 1..Len(list) :
             list[i].row.id \in Follow(id, value) => list'[i].show = value
  <2> HIDE DEF value
  <2> QED BY <1>1, SetTyped
<1>3. TreeInv'
  <2>1. ListTyped' /\ (list' = <<>> <=> list = <<>>)
    BY <1>1, <1>2, SameIds DEF SameRows
  <2>2. show_active' \in BOOLEAN
    BY DEF ToggleShowClones
  <2>3. ServerTyped' /\ WireTyped'
    BY DEF ToggleShowClones, TreeInv, ServerTyped, WireTyped, ServerVars
  <2>4. LinkInv'
    BY <2>1, ToldListed, TellsLink DEF ToggleShowClones
  <2> QED BY <1>2, <2>1, <2>2, <2>3, <2>4 DEF TreeInv, ShowTyped
<1>4. Hides
  <2> SUFFICES ASSUME NEW b \in Bases, show_clones[b], ~show_clones'[b],
                      NEW i \in 1..length, b \in Ancestors(list[i].row.id)
               PROVE  list'[i].show = FALSE
    BY <1>1, <1>2, HidesEntries
  <2>1. b \in Machines /\ list[i].row.id \in Machines
    BY AboveAreBases, ListedInList, TreeAssumption DEF Bases
  <2>2. value = FALSE /\ (b = id \/ b \in Follow(id, FALSE))
    BY <1>1, <2>1 DEF Set
  <2>3. id \in Ancestors(list[i].row.id)
    <3>1. CASE b = id
      BY <3>1
    <3>2. CASE b \in Under(id)
      <4>1. id \in Ancestors(b)
        BY <3>2 DEF Under
      <4> QED BY <2>1, <4>1, HigherIsAbove
    <3> QED BY <2>2, <3>1, <3>2 DEF Follow
  <2>4. list[i].row.id \in Under(id)
    BY <2>3, ListedInList DEF Under
  <2> QED BY <1>2, <2>2, <2>4, ListedInList DEF Follow
<1> QED BY <1>3, <1>4

(* showClones closes a base only if it is in the list, and then so is the  *)
(* base of whatever hangs from it.                                         *)
LEMMA AllClonesHides ==
    ASSUME TreeInv, NEW l \in Seq(EntrySet), Len(l) = Len(list),
           \A i \in 1..Len(list) : l[i].row = list[i].row,
           NEW value \in BOOLEAN, AllClones(l, value), length' = length
    PROVE  Hides
<1>1. /\ SameRows
      /\ \A i \in 1..Len(list) :
             Base[list[i].row.id] # Nil /\ Base[list[i].row.id] \in InList \cap Bases
                 => list'[i].show = value
  BY AllClonesTyped
<1> SUFFICES ASSUME NEW b \in Bases, show_clones[b], ~show_clones'[b],
                    NEW i \in 1..length, b \in Ancestors(list[i].row.id)
             PROVE  list'[i].show = FALSE
  BY <1>1, HidesEntries
<1>2. b \in Machines /\ i \in 1..Len(list) /\ list[i].row.id \in Machines
  BY ListedInList, TreeAssumption DEF Bases
<1>3. value = FALSE
  BY <1>2 DEF AllClones
<1>4. Base[list[i].row.id] # Nil
  BY <1>2, AboveItsBase
<1>5. Base[list[i].row.id] \in InList \cap Bases
  BY <1>2, <1>4, BaseIsAbove, ListedInList
<1> QED BY <1>1, <1>2, <1>3, <1>4, <1>5

LEMMA ShowClonesSafe ==
    ASSUME TreeInv, NEW value \in BOOLEAN, ShowClones(value)
    PROVE  TreeInv' /\ Hides
<1>1. AllClones(list, value) /\ length' = length /\ list \in Seq(EntrySet)
  BY DEF ShowClones, TreeInv, ListTyped
<1>2. /\ SameRows
      /\ show_clones' \in [Machines -> BOOLEAN] /\ show_machine' \in [Machines -> BOOLEAN]
  BY <1>1, AllClonesTyped
<1>3. Hides
  BY <1>1, AllClonesHides
<1>4. ListTyped' /\ (list' = <<>> <=> list = <<>>)
  BY <1>1, <1>2, SameIds DEF SameRows
<1>5. show_active' \in BOOLEAN /\ ServerTyped' /\ WireTyped'
  BY DEF ShowClones, AllClones, TreeInv, ServerTyped, WireTyped, ServerVars
<1>6. LinkInv'
  BY <1>4, ToldListed, TellsLink DEF ShowClones
<1> QED BY <1>2, <1>3, <1>4, <1>5, <1>6 DEF TreeInv, ShowTyped

LEMMA ToggleShowActiveSafe ==
    ASSUME TreeInv, ToggleShowActive
    PROVE  TreeInv' /\ Hides
<1>1. ServerTyped' /\ WireTyped' /\ length' = length /\ list \in Seq(EntrySet)
  BY DEF ToggleShowActive, TreeInv, ListTyped, ServerTyped, WireTyped, ServerVars
<1>4. client'.listed \in {client.listed, Nil} /\ UNCHANGED <<wire, ws, modal>>
  BY ToldListed DEF ToggleShowActive
<1>2. CASE show_active
  <2> DEFINE New(i) == [list[i] EXCEPT !.show = IsRoot(list[i].row.id)]
             l == [i \in DOMAIN list |-> New(i)]
  <2>1. AllClones(l, FALSE)
    BY <1>2 DEF ToggleShowActive
  <2>2. ASSUME NEW i \in DOMAIN list PROVE New(i) \in EntrySet /\ New(i).row = list[i].row
    <3>1. list[i] \in EntrySet /\ IsRoot(list[i].row.id) \in BOOLEAN
      BY <1>1 DEF IsRoot
    <3> QED BY <3>1 DEF EntrySet
  <2>3. DOMAIN list = 1..Len(list) /\ Len(list) \in Nat
    BY <1>1
  <2>4. /\ l \in Seq(EntrySet) /\ Len(l) = Len(list)
        /\ \A i \in 1..Len(list) : l[i].row = list[i].row
    <3> HIDE DEF New
    <3> QED BY <2>2, <2>3
  <2>5. /\ SameRows /\ Hides
        /\ show_clones' \in [Machines -> BOOLEAN] /\ show_machine' \in [Machines -> BOOLEAN]
    <3> HIDE DEF l
    <3> QED BY <1>1, <2>1, <2>4, AllClonesTyped, AllClonesHides
  <2>6. ListTyped' /\ LinkInv'
    BY <1>1, <1>4, <2>5, SameIds, TellsLink DEF SameRows
  <2>7. show_active' \in BOOLEAN
    BY <2>1 DEF AllClones
  <2> QED BY <1>1, <2>5, <2>6, <2>7 DEF TreeInv, ShowTyped
<1>3. CASE ~show_active
  <2>1. /\ show_active' = TRUE /\ list' = ActiveIn(list) /\ show_machine' = Marked(list)
        /\ show_clones' = show_clones
    BY <1>3 DEF ToggleShowActive
  <2>2. SameRows
    BY <1>1, <2>1, ActiveInIds DEF SameRows
  <2>3. ListTyped' /\ LinkInv'
    BY <1>1, <1>4, <2>2, SameIds, TellsLink DEF SameRows
  <2>4. ShowTyped'
    BY <2>1, MarkedTyped DEF TreeInv, ShowTyped
  <2>5. Hides
    BY <2>1 DEF Hides
  <2> QED BY <1>1, <2>3, <2>4, <2>5 DEF TreeInv
<1> QED BY <1>2, <1>3

LEMMA ServerChangesTreeInv == TreeInv /\ ServerChanges => TreeInv'
<1> SUFFICES ASSUME TreeInv, ServerChanges PROVE TreeInv'
  OBVIOUS
<1>1. WireTyped' /\ ShowTyped' /\ ListTyped' /\ LinkInv'
  BY DEF ServerChanges, TreeInv, WireTyped, ShowTyped, ListTyped, ListWithBases, LinkInv,
         SocketVars, ShowVars
<1>2. changes' \in Nat /\ changes' = changes + 1
  BY DEF ServerChanges, TreeInv, ServerTyped
<1>3. PICK m \in Machines :
         \/ /\ m \in Exists
            /\ rows' = [rows EXCEPT ![m].active = m \in Runnable /\ ~@, ![m].date = changes + 1]
         \/ /\ m \notin Bases
            /\ rows' = [rows EXCEPT ![m] = [exists |-> m \notin Exists, active |-> FALSE,
                                            date |-> changes + 1]]
  BY Zenon DEF ServerChanges
<1>4. CASE rows' = [rows EXCEPT ![m].active = m \in Runnable /\ ~@, ![m].date = changes + 1]
  <2> DEFINE a == m \in Runnable /\ ~rows[m].active
  <2>1. a \in BOOLEAN
    OBVIOUS
  <2>2. rows' = [[rows EXCEPT ![m].active = a] EXCEPT ![m].date = changes + 1]
    BY <1>4
  <2>3. rows \in [Machines -> [exists : BOOLEAN, active : BOOLEAN, date : Nat]]
    BY DEF TreeInv, ServerTyped
  <2> HIDE DEF a
  <2>4. rows' \in [Machines -> [exists : BOOLEAN, active : BOOLEAN, date : Nat]]
    BY <1>2, <2>1, <2>2, <2>3
  <2>5. \A x \in Machines : rows'[x].exists = rows[x].exists
    BY <2>2, <2>3
  <2>6. ServerTyped'
    BY <1>2, <2>4, <2>5, AboveAreBases, TreeAssumption DEF TreeInv, ServerTyped, Bases
  <2> QED BY <1>1, <2>6 DEF TreeInv
<1>5. CASE /\ m \notin Bases
           /\ rows' = [rows EXCEPT ![m] = [exists |-> m \notin Exists, active |-> FALSE,
                                           date |-> changes + 1]]
  <2>1. (m \notin Exists) \in BOOLEAN
    OBVIOUS
  <2>2. ServerTyped'
    BY <1>2, <1>5, <2>1 DEF TreeInv, ServerTyped
  <2> QED BY <1>1, <2>2 DEF TreeInv
<1> QED BY <1>3, <1>4, <1>5

LEMMA SocketTreeInv ==
    ASSUME TreeInv, SocketCloses \/ LostTimer \/ ConnectAgain \/ SocketOpens
    PROVE  TreeInv' /\ show_clones' = show_clones
<1>1. /\ ServerTyped' /\ WireTyped' /\ ShowTyped' /\ show_clones' = show_clones
  BY DEF SocketCloses, LostTimer, ConnectAgain, SocketOpens, TreeInv, ServerTyped, WireTyped,
         ShowTyped, ServerVars, ShowVars
<1>2. ListTyped'
  <2>1. CASE ConnectAgain
    BY <2>1 DEF ConnectAgain, ListTyped, ListWithBases
  <2>2. CASE SocketCloses \/ LostTimer \/ SocketOpens
    BY <2>2 DEF SocketCloses, LostTimer, SocketOpens, TreeInv, ListTyped, ListWithBases
  <2> QED BY <2>1, <2>2
<1>3. LinkInv'
  BY DEF SocketCloses, LostTimer, ConnectAgain, SocketOpens, Unknown, TreeInv, LinkInv, HasList
<1> QED BY <1>1, <1>2, <1>3 DEF TreeInv

LEMMA ModalTreeInv ==
    ASSUME TreeInv, CancelModal \/ \E i \in 1..length : OpenModal(i)
    PROVE  TreeInv' /\ show_clones' = show_clones
<1>1. /\ ServerTyped' /\ WireTyped' /\ ShowTyped'
      /\ show_clones' = show_clones /\ length' = length
  BY DEF CancelModal, OpenModal, TreeInv, ServerTyped, WireTyped, ShowTyped, ServerVars,
         SocketVars, ShowVars
<1>2. list \in Seq(EntrySet) /\ DOMAIN list = 1..Len(list) /\ Len(list) \in Nat
  BY DEF TreeInv, ListTyped
<1> DEFINE Off(i) == [list[i] EXCEPT !.row.touched = FALSE]
           On(i) == [list[i] EXCEPT !.row.touched = TRUE]
<1>3. ASSUME NEW i \in 1..Len(list)
      PROVE  /\ Off(i) \in EntrySet /\ Off(i).row.id = list[i].row.id
             /\ On(i) \in EntrySet /\ On(i).row.id = list[i].row.id
  <2>1. list[i] \in EntrySet
    BY <1>2
  <2> QED BY <2>1 DEF EntrySet, RowSet
<1>4. /\ list' \in Seq(EntrySet) /\ Len(list') = Len(list)
      /\ \A i \in 1..Len(list) : list'[i].row.id = list[i].row.id
  <2>1. CASE CancelModal
    <3>1. list' = list \/ list' = [i \in 1..Len(list) |-> Off(i)]
      BY <1>2, <2>1 DEF CancelModal
    <3> HIDE DEF Off, On
    <3> QED BY <1>2, <1>3, <3>1
  <2>2. ASSUME NEW i \in 1..length, OpenModal(i)
        PROVE  /\ list' \in Seq(EntrySet) /\ Len(list') = Len(list)
               /\ \A k \in 1..Len(list) : list'[k].row.id = list[k].row.id
    <3>1. i \in 1..Len(list)
      BY ListedInList
    <3>2. list' = [list EXCEPT ![i] = On(i)]
      BY <2>2 DEF OpenModal
    <3> HIDE DEF Off, On
    <3> QED BY <1>2, <1>3, <3>1, <3>2
  <2> QED BY <2>1, <2>2
<1>5. list # <<>>
  <2>1. CASE CancelModal
    BY <2>1 DEF CancelModal, TreeInv, LinkInv
  <2>2. ASSUME NEW i \in 1..length PROVE list # <<>>
    BY <1>2, ListedInList
  <2> QED BY <2>1, <2>2
<1>6. UNCHANGED <<wire, ws, client>> /\ ListTyped' /\ list' # <<>>
  BY <1>1, <1>4, <1>5, SameIds DEF CancelModal, OpenModal, SocketVars
<1>7. LinkInv'
  BY <1>5, <1>6 DEF TreeInv, LinkInv, HasList
<1> QED BY <1>1, <1>6, <1>7 DEF TreeInv

LEMMA StillTree ==
    ASSUME TreeInv, UNCHANGED TreeVars
    PROVE  TreeInv' /\ Hides
BY DEF TreeVars, TreeInv, ServerTyped, WireTyped, ShowTyped, ListTyped, ListWithBases, LinkInv,
       Hides

LEMMA NextTree ==
    ASSUME TreeInv, Next
    PROVE  TreeInv' /\ Hides
<1>1. CASE ServerChanges
  <2>1. show_clones' = show_clones
    BY <1>1 DEF ServerChanges, ShowVars
  <2> QED BY <1>1, <2>1, ServerChangesTreeInv DEF Hides
<1>2. CASE SendsList \/ SendsChanges
  <2>1. show_clones' = show_clones
    BY <1>2 DEF SendsList, SendsChanges, ShowVars
  <2> QED BY <1>2, <2>1, SendsListTreeInv, SendsChangesTreeInv DEF Hides
<1>3. CASE Receive
  BY <1>3, ReceiveTreeInv DEF Hides
<1>4. CASE SocketCloses \/ LostTimer \/ ConnectAgain \/ SocketOpens
  BY <1>4, SocketTreeInv DEF Hides
<1>5. CASE \E id \in Bases : ToggleShowClones(id)
  BY <1>5, ToggleShowClonesSafe
<1>6. CASE ShowClones(TRUE) \/ ShowClones(FALSE) \/ ToggleShowActive
  BY <1>6, ShowClonesSafe, ToggleShowActiveSafe
<1>7. CASE CancelModal \/ \E i \in 1..length : OpenModal(i)
  BY <1>7, ModalTreeInv DEF Hides
<1> QED BY <1>1, <1>2, <1>3, <1>4, <1>5, <1>6, <1>7 DEF Next

(* Closing a base leaves nothing shown below it, whatever the tree, however*)
(* many clicks, changes and losses there are, and whichever lists arrive   *)
(* between them.                                                           *)
THEOREM ClosedOnceHidden == Spec => ClosingHides
<1>1. TreeInv /\ [Next]_vars => TreeInv' /\ [Hides]_vars
  <2> SUFFICES ASSUME TreeInv, [Next]_vars PROVE TreeInv' /\ [Hides]_vars
    OBVIOUS
  <2>1. CASE Next
    BY <2>1, NextTree
  <2>2. CASE UNCHANGED vars
    BY <2>2, StillTree DEF vars, TreeVars
  <2> QED BY <2>1, <2>2
<1> QED BY <1>1, InitTreeInv, PTL DEF Spec, ClosingHides

(***************************************************************************)
(* The pages together.                                                     *)
(***************************************************************************)

(* A page that is loaded shows nothing yet.                                *)
LEMMA GoesTree ==
    ASSUME TreeInv, NEW to \in Pages, Goes(to)
    PROVE  TreeInv' /\ Hides
<1>1. rows' \in StartRows /\ changes' = 0
  BY DEF Goes, StartRows
<1>2. ServerTyped'
  BY <1>1, TreeStarts DEF ServerTyped
<1>3. WireTyped' /\ ShowTyped'
  BY DEF Goes, Load, WireTyped, ShowTyped, None
<1>4. list' = <<>> /\ length' = 0
  BY DEF Goes, Load
<1>5. ListTyped'
  BY <1>4 DEF ListTyped, ListWithBases
<1>6. Hides
  BY <1>4 DEF Hides, NothingBelow, Visible
<1>7. LinkInv'
  BY DEF Goes, Load, Unknown, LinkInv
<1> QED BY <1>2, <1>3, <1>5, <1>6, <1>7 DEF TreeInv

(* The same with all the pages: going to another one and coming back does  *)
(* not bring back what was hidden.                                         *)
THEOREM PagesClosedHidden == PagesSpec => ClosingHides
<1>1. PagesInit => TreeInv
  BY InitTreeInv DEF PagesInit
<1>2. TreeInv /\ [PagesNext]_pages => TreeInv' /\ [Hides]_vars
  <2> SUFFICES ASSUME TreeInv, [PagesNext]_pages PROVE TreeInv' /\ [Hides]_vars
    OBVIOUS
  <2>1. CASE Next
    BY <2>1, NextTree
  <2>2. CASE UNCHANGED TreeVars
    BY <2>2, StillTree
  <2>3. ASSUME NEW to \in Pages, Goes(to) PROVE TreeInv' /\ [Hides]_vars
    BY <2>3, GoesTree
  <2> QED BY <2>1, <2>2, <2>3 DEF PagesNext, pages
<1> QED BY <1>1, <1>2, PTL DEF PagesSpec, ClosingHides

(***************************************************************************)
(* The lists beside the other pages.                                       *)
(***************************************************************************)
LP == INSTANCE PageLists_proofs
      WITH shown <- lists, posts <- asked, loads <- reading, clicks <- posted

(* The lists of this specification are those of the instance.              *)
LEMMA SameLists == /\ L!Unloaded => LP!Unloaded
                   /\ L!Load => LP!Load
                   /\ L!Next => LP!Next
                   /\ LP!SettledIsCurrent => L!SettledIsCurrent
BY DEF L!Unloaded, LP!Unloaded, L!Load, LP!Load, L!Zero, LP!Zero, L!Lists, LP!Lists,
       L!Tables, LP!Tables, L!SettledIsCurrent, LP!SettledIsCurrent, L!Quiet, LP!Quiet,
       L!TableOf, LP!TableOf, L!Next, LP!Next, L!Handlers, LP!Handlers,
       L!AddAccess, LP!AddAccess, L!MoveAccess, LP!MoveAccess, L!SetAccess, LP!SetAccess,
       L!DeleteAccess, LP!DeleteAccess, L!AddLdapAccess, LP!AddLdapAccess,
       L!DeleteLdapAccess, LP!DeleteLdapAccess, L!MoveLdapAccess, LP!MoveLdapAccess,
       L!SetLdapAccess, LP!SetLdapAccess, L!Groups, LP!Groups,
       L!AddGroupAccess, LP!AddGroupAccess, L!RemoveGroupAccess, LP!RemoveGroupAccess,
       L!ShareMachine, LP!ShareMachine, L!RemoveShareMachine, LP!RemoveShareMachine,
       L!AddGroupMember, LP!AddGroupMember, L!RemoveGroupMember, LP!RemoveGroupMember,
       L!ChangeUser, LP!ChangeUser, L!AddMember, LP!AddMember, L!RemoveMember, LP!RemoveMember,
       L!DomainAccess, LP!DomainAccess, L!LdapAccess, LP!LdapAccess, L!Post, LP!Post,
       L!ServerChanges, LP!ServerChanges, L!Answered, LP!Answered, L!PostFails, LP!PostFails,
       L!ServerLists, LP!ServerLists, L!Shows, LP!Shows, L!LoadFails, LP!LoadFails,
       L!Opened, LP!Opened

(* Once nothing is on its way, a list shows its table as it is at the      *)
(* server, also when the administrator left the page and came back: what   *)
(* was on its way then is gone with the page.                              *)
THEOREM PagesSettle == PagesSpec => []SettledIsCurrent
<1>1. PagesInit => LP!IInv
  BY SameLists, LP!UnloadedIInv DEF PagesInit
<1>2. LP!IInv /\ [PagesNext]_pages => LP!IInv'
  <2> SUFFICES ASSUME LP!IInv, [PagesNext]_pages PROVE LP!IInv'
    OBVIOUS
  <2>1. CASE L!Next
    BY <2>1, SameLists, LP!NextIInv
  <2>2. CASE UNCHANGED ListsVars
    BY <2>2 DEF ListsVars, LP!IInv, LP!TypeOK, LP!ReloadsAll, LP!Numbered, LP!UpToDate,
                LP!Owed, LP!OnItsWay, LP!Shown
  <2>3. ASSUME NEW to \in Pages, Goes(to) PROVE LP!IInv'
    BY <2>3, SameLists, LP!LoadIInv DEF Goes
  <2> QED BY <2>1, <2>2, <2>3 DEF PagesNext, pages
<1>3. LP!IInv => SettledIsCurrent
  BY SameLists, LP!SettledFromIInv DEF SettledIsCurrent
<1> QED BY <1>1, <1>2, <1>3, PTL DEF PagesSpec
=============================================================================
