------------------------------ MODULE UserPages ------------------------------
(***************************************************************************)
(* The browser of a user: the page of the machines, the page that waits for*)
(* a machine to start, where its buttons lead, and the calendar of         *)
(* bookings.  One page is open at a time; what the script of another one   *)
(* knew, and the answers it waited for, are gone.                          *)
(***************************************************************************)
EXTENDS UserMachines

CONSTANTS
    NewClone, WithPorts, AutoView, MaxSockets, MaxTroubles,  \* see RunMachine
    Days, Week, Hours, Existing, Selections, Elsewhere, MaxForms, MaxEdits  \* see Booking

VARIABLES req, machine, sockets, timers, lost, posts, scope, bounds,
          entries, version, fetch, events, modal, form, checks, conflicts, post, mine,
          booked, forms, edits

ListVars == <<rows, wire, ws, machines, limits, confirming, changes, clicks>>
RunVars == <<req, machine, sockets, timers, lost, posts, scope, bounds>>
BookingVars == <<entries, version, fetch, events, modal, form, checks, conflicts, post,
                 mine, booked, forms, edits>>
pages == <<page, ListVars, RunVars, BookingVars>>

R == INSTANCE RunMachine
B == INSTANCE Booking WITH changes <- booked

ASSUME BookingAssumption ==
    /\ Days \in Nat /\ Hours \in Nat /\ Week \in Nat \ {0}
    /\ \A table \in Existing : table \subseteq B!Entries
    /\ Selections \subseteq [start : Int, end : Int]
    /\ Elsewhere \subseteq [date : Int, start : Int, end : Int]
    /\ Nil \notin Int /\ Nil \notin B!EntryIds /\ Nil \notin B!Questions

(* The links of a card to the settings of the chosen clone, or of a machine*)
(* that is no base.  That page is one of AdminPages.                       *)
Settings(i) ==
    /\ Click /\ ~Confirms(i)
    /\ LET m == machines[i]
       IN  \/ /\ m.clone # Nil /\ ~Asks(m)
              /\ page' = [at |-> "manage", machine |-> m.clone]
           \/ /\ ~m.is_base /\ m.action = "no" /\ m.list_clones = <<>>
              /\ page' = [at |-> "manage", machine |-> m.id]
    /\ UNCHANGED <<ServerVars, SocketVars, machines, DialogVars>>

(* The page of the machines begins, or is gone: the server is taken to have*)
(* one of its lists then.                                                  *)
Begins ==
    /\ rows' = CHOOSE a \in Answers : TRUE
    /\ wire' = <<>> /\ machines' = <<>> /\ limits' = {} /\ confirming' = Nil
    /\ ws' = Connecting
    /\ changes' = 0 /\ clicks' = 0

(* The browser loads the page that waits for the machine.                  *)
LoadRun ==
    /\ page.at \in {"run", "clone"} /\ req = Nil
    /\ R!Load(page.machine) /\ Begins
    /\ UNCHANGED <<page, BookingVars>>

(* The navigation bar leads to the calendar and back.                      *)
GoesBooking ==
    /\ page.at \in {"bases", "run", "clone"}
    /\ page' = [at |-> "bookings", machine |-> Nil]
    /\ B!Load /\ R!Unload /\ Begins

GoesHome ==
    /\ page.at \in {"run", "clone", "bookings"}
    /\ page' = [at |-> "bases", machine |-> Nil]
    /\ Begins /\ R!Unload /\ B!Unload

-----------------------------------------------------------------------------
PagesInit == Init /\ R!Unloaded /\ B!Unloaded

PagesNext ==
    \/ Next /\ UNCHANGED <<RunVars, BookingVars>>
    \/ (\E i \in DOMAIN machines : Settings(i)) /\ UNCHANGED <<RunVars, BookingVars>>
    \/ R!Next /\ UNCHANGED <<ListVars, BookingVars>>
    \/ B!Next /\ UNCHANGED <<ListVars, RunVars>>
    \/ LoadRun \/ GoesBooking \/ GoesHome

(* What each page owes while it is open, and the browser loads pages.      *)
PagesSpec == /\ PagesInit /\ [][PagesNext]_pages
             /\ Fairness /\ R!Fairness /\ B!Fairness /\ WF_pages(LoadRun)
-----------------------------------------------------------------------------
(* What is saved while the form knows of no conflict overlaps nothing.     *)
NewIsFree == B!NewIsFree
=============================================================================
