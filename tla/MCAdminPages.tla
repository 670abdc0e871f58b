---------------------------- MODULE MCAdminPages ----------------------------
EXTENDS AdminPages, TLC

CONSTANTS root, c, g, d1, d2, d3

(* A base, its clone that is a base itself, and a clone of that.           *)
MCOrder == <<root, c, g>>
MCBase == (root :> Nil) @@ (c :> root) @@ (g :> c)

(* A machine with one disk, or with two; somebody removes the first.       *)
MCHardware == {<<d1>>}
MCTwoDisks == {<<d1, d2>>}
MCOthers == {[what |-> "remove", dev |-> d1]}

MachineIsShown == M!MachineIsShown
RequestsEnd == M!RequestsEnd
RemovesTheNamed == M!RemovesTheNamed
NodesAreShown == N!NodesAreShown
ChecksEnd == N!ChecksEnd
=============================================================================
