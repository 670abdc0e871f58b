--------------------------- MODULE UserPages_proofs ---------------------------
(***************************************************************************)
(* The browser of a user: what the page of the machines keeps when it is   *)
(* left and loaded again beside the others, and what a booking that was    *)
(* checked for conflicts is worth when it is saved.                        *)
(***************************************************************************)
EXTENDS UserPages, UserMachines_proofs

(***************************************************************************)
(* The page of the machines beside the others.                             *)
(***************************************************************************)

(* A step of another page, or of the browser, shows nothing or what was    *)
(* shown, and takes no answer.                                             *)
LEMMA OtherPages ==
    ASSUME IInv, [PagesNext]_pages, ~[Next]_vars
    PROVE  IInv' /\ ~Receives /\ (machines' = machines \/ machines' = <<>>)
<1>1. rows \in Answers /\ wire \in Seq(Answers)
  BY DEF IInv, TypeOK
<1>2. CASE UNCHANGED <<rows, wire, machines, ws>>
  <2>1. wire # <<>> => wire' # Tail(wire)
    <3> SUFFICES ASSUME wire # <<>> PROVE Len(Tail(wire)) # Len(wire)
      BY <1>2
    <3> QED BY <1>1
  <2> QED BY <1>2, <2>1 DEF IInv, TypeOK, Receives
<1>3. CASE Begins
  <2>1. rows' \in Answers
    BY <1>1, <1>3 DEF Begins
  <2> QED BY <1>3, <2>1 DEF Begins, Connecting, Sockets, IInv, TypeOK, Receives
<1>4. UNCHANGED <<rows, wire, machines, ws>> \/ Begins
  BY DEF PagesNext, pages, ListVars, Settings, ServerVars, SocketVars,
         LoadRun, GoesBooking, GoesHome, vars
<1> QED BY <1>2, <1>3, <1>4

(* So the chosen clone is listed,                                          *)
THEOREM PagesChosen == PagesSpec => []ChosenIsListed
<1>1. PagesInit => IInv
  BY InitIInv DEF PagesInit
<1>2. IInv /\ [PagesNext]_pages => IInv'
  BY OtherPages, NextIInv
<1>3. IInv => ChosenIsListed
  BY DEF IInv, Listed, ChosenIsListed
<1> QED BY <1>1, <1>2, <1>3, PTL DEF PagesSpec

(* the page shows every answer it takes,                                   *)
THEOREM PagesShow == PagesSpec => ShowsTheAnswer
<1>1. PagesInit => IInv
  BY InitIInv DEF PagesInit
<1>2. IInv /\ [PagesNext]_pages => IInv' /\ ShowsAnswer
  BY OtherPages, NextIInv, NextShows DEF ShowsAnswer
<1> QED BY <1>1, <1>2, PTL DEF PagesSpec, ShowsTheAnswer

(* and an answer with the same machines and clones leaves the choice alone,*)
(* on each visit to the page.                                              *)
THEOREM PagesKeep == PagesSpec => KeepsTheChoice
<1>1. PagesInit => IInv
  BY InitIInv DEF PagesInit
<1>2. IInv /\ [PagesNext]_pages => IInv' /\ KeepsChoice
  BY OtherPages, NextIInv, NextKeeps DEF KeepsChoice
<1> QED BY <1>1, <1>2, PTL DEF PagesSpec, KeepsTheChoice

(***************************************************************************)
(* Bookings: what the form of an entry, the questions about conflicts and  *)
(* what is being saved hold.                                               *)
(***************************************************************************)
Forms == [id : B!EntryIds \cup {Nil}, booking : Int \cup {Nil}, was : Int, date : Int,
          until : Int, single : BOOLEAN, start : Int, end : Int, repeat : BOOLEAN,
          dow : SUBSET Int, days : BOOLEAN, groups : BOOLEAN, pristine : BOOLEAN]

(* The last day is no earlier than the first.                              *)
FormTyped(f) == f \in Forms /\ f.date <= f.until

(* An answer about conflicts is true while the table does not change.      *)
Told(answer) ==
    /\ answer.version \in Nat /\ answer.version <= version
    /\ answer.version = version => answer.found = B!Range(answer.fields)

Record(c) == c = [fields |-> c.fields, answer |-> c.answer]

TableTyped == entries \subseteq B!Entries /\ version \in Nat
CalendarTyped ==
    /\ fetch.found \subseteq B!Entries /\ events.found \subseteq B!Entries
    /\ events = [found |-> events.found, version |-> events.version, failed |-> events.failed]
FormKnown == modal \in {"form", "confirm"} => FormTyped(form)
ChecksTold == /\ \A c \in checks : Record(c) /\ (c.answer # Nil => Told(c.answer))
              /\ conflicts = B!Unknown \/ Told(conflicts)
PostKnown ==
    post # Nil =>
      /\ page.at = "bookings"
      /\ post = [what |-> post.what, entry |-> post.entry, mode |-> post.mode,
                 answer |-> post.answer, watched |-> post.watched]
      /\ post.what \in {"new", "change", "delete"} /\ FormTyped(post.entry)
      /\ post.what = "new" => post.entry.id = Nil
BookingInv == TableTyped /\ CalendarTyped /\ FormKnown /\ ChecksTold /\ PostKnown

-----------------------------------------------------------------------------
(* The dates that follow a change of the form.                             *)
LEMMA UpdateDatesTyped ==
    ASSUME NEW f \in Forms
    PROVE  FormTyped(B!UpdateDates(f)) /\ B!UpdateDates(f).id = f.id
<1>1. f.date % Week \in Int
  BY BookingAssumption DEF Forms
<1> DEFINE until == IF ~f.repeat \/ f.date > f.until THEN f.date ELSE f.until
           dow == IF f.repeat THEN f.dow ELSE {f.date % Week}
           days == f.days \/ ~f.repeat
<1>2. until \in Int /\ f.date <= until
  BY DEF Forms
<1>3. dow \in SUBSET Int /\ days \in BOOLEAN
  BY <1>1 DEF Forms
<1>4. B!UpdateDates(f) = [f EXCEPT !.until = until, !.single = FALSE, !.days = days, !.dow = dow]
  BY DEF B!UpdateDates, B!Weekday
<1> HIDE DEF until, dow, days
<1> QED BY <1>2, <1>3, <1>4 DEF Forms, FormTyped

(* Questions that are new have no answer yet.                              *)
LEMMA ChecksKept ==
    ASSUME ChecksTold, UNCHANGED <<entries, version, conflicts>>,
           \A c \in checks' : c \in checks \/ (Record(c) /\ c.answer = Nil)
    PROVE  ChecksTold'
BY DEF ChecksTold, Record, Told, B!Range, B!InRange, B!Meets, B!Weekday, B!Unknown

(* Another version makes every answer an old one.                          *)
LEMMA ChecksOld ==
    ASSUME TableTyped, ChecksTold, version' = version + 1, UNCHANGED <<checks, conflicts>>
    PROVE  ChecksTold'
BY DEF TableTyped, ChecksTold, Record, Told, B!Unknown

(* A change of the form asks one question at most.                         *)
LEMMA BecomesKnown ==
    ASSUME NEW f, FormTyped(f), B!Becomes(f), ChecksTold,
           UNCHANGED <<entries, version, conflicts>>
    PROVE  ChecksTold' /\ FormKnown'
<1>1. form' = f /\ \A c \in checks' : c \in checks \/ (Record(c) /\ c.answer = Nil)
  BY DEF B!Becomes, Record
<1> QED BY <1>1, ChecksKept DEF FormKnown, FormTyped

(* A field of the form that changes.                                       *)
LEMMA DirtyBooking ==
    ASSUME BookingInv, NEW f, FormTyped(f), B!Typed, B!Dirty(f)
    PROVE  BookingInv'
<1>1. FormTyped([f EXCEPT !.pristine = FALSE])
  BY DEF FormTyped, Forms
<1>2. B!Becomes([f EXCEPT !.pristine = FALSE])
  BY DEF B!Dirty
<1>3. UNCHANGED <<entries, version, conflicts, fetch, events, post, page>>
  BY DEF B!Typed, B!TableVars, B!CalendarVars
<1>4. ChecksTold' /\ FormKnown'
  BY <1>1, <1>2, <1>3, BecomesKnown DEF BookingInv
<1> QED BY <1>3, <1>4 DEF BookingInv, TableTyped, CalendarTyped, PostKnown, FormTyped

LEMMA TypingBooking == ASSUME BookingInv, B!Typing PROVE BookingInv'
<1>1. B!Typed
  BY DEF B!Typing, B!Type, B!SetDate, B!SetUntil, B!SetTime, B!SetRepeat, B!ToggleDay, B!SetGroups
<1>2. form \in Forms /\ form.date <= form.until
  BY <1>1 DEF B!Typed, BookingInv, FormKnown, FormTyped
<1>3. CASE B!SetDate
  <2>1. PICK d \in 0 .. Days - 1 : B!Dirty(B!UpdateDates([form EXCEPT !.date = d]))
    BY <1>3 DEF B!SetDate
  <2>2. [form EXCEPT !.date = d] \in Forms
    BY <1>2, BookingAssumption DEF Forms
  <2> QED BY <1>1, <2>1, <2>2, UpdateDatesTyped, DirtyBooking
<1>4. CASE B!SetUntil
  <2>1. PICK d \in 0 .. Days - 1 : B!Dirty(B!UpdateDates([form EXCEPT !.until = d]))
    BY <1>4 DEF B!SetUntil
  <2>2. [form EXCEPT !.until = d] \in Forms
    BY <1>2, BookingAssumption DEF Forms
  <2> QED BY <1>1, <2>1, <2>2, UpdateDatesTyped, DirtyBooking
<1>5. CASE B!SetTime
  <2>1. PICK t \in 0 .. Hours : \/ B!Dirty([form EXCEPT !.start = t])
                                 \/ B!Dirty([form EXCEPT !.end = t])
    BY <1>5 DEF B!SetTime
  <2>2. FormTyped([form EXCEPT !.start = t]) /\ FormTyped([form EXCEPT !.end = t])
    BY <1>2, BookingAssumption DEF Forms, FormTyped
  <2> QED BY <1>1, <2>1, <2>2, DirtyBooking
<1>6. CASE B!SetRepeat
  <2>1. FormTyped([form EXCEPT !.repeat = ~@])
    BY <1>2 DEF Forms, FormTyped
  <2> QED BY <1>1, <1>6, <2>1, DirtyBooking DEF B!SetRepeat
<1>7. CASE B!ToggleDay
  <2>1. PICK d \in 0 .. Week - 1 :
          B!Dirty([form EXCEPT !.dow = IF d \in @ THEN @ \ {d} ELSE @ \cup {d}])
    BY <1>7 DEF B!ToggleDay
  <2>2. (IF d \in form.dow THEN form.dow \ {d} ELSE form.dow \cup {d}) \in SUBSET Int
    BY <1>2, BookingAssumption DEF Forms
  <2>3. FormTyped([form EXCEPT !.dow = IF d \in @ THEN @ \ {d} ELSE @ \cup {d}])
    BY <1>2, <2>2 DEF Forms, FormTyped
  <2> QED BY <1>1, <2>1, <2>3, DirtyBooking
<1>8. CASE B!SetGroups
  <2>1. FormTyped([form EXCEPT !.groups = ~@])
    BY <1>2 DEF Forms, FormTyped
  <2> QED BY <1>1, <1>8, <2>1, DirtyBooking DEF B!SetGroups
<1> QED BY <1>3, <1>4, <1>5, <1>6, <1>7, <1>8 DEF B!Typing

(* What the server makes of what is saved is entries.                      *)
LEMMA SavedTyped ==
    ASSUME BookingInv, post # Nil
    PROVE  B!Saved(post) \subseteq B!Entries
<1>1. entries \subseteq B!Entries /\ version \in Nat /\ post.entry \in Forms
  BY DEF BookingInv, TableTyped, PostKnown, FormTyped
<1>2. CASE post.what = "new"
  <2>1. B!Dates(post.entry) \subseteq Int
    BY BookingAssumption DEF B!Dates
  <2>2. B!NewEntries(post.entry) \subseteq B!Entries
    BY <1>1, <2>1 DEF B!NewEntries, B!Entries, B!EntryIds, Forms
  <2> QED BY <1>1, <1>2, <2>2 DEF B!Saved
<1>3. CASE post.what = "change"
  <2>1. \A e \in entries : B!Change(e, post.entry) \in B!Entries
    BY <1>1 DEF B!Change, B!Entries, Forms
  <2>2. B!Meant(post.entry, post.mode) \subseteq entries
    BY DEF B!Meant
  <2> QED BY <1>1, <1>3, <2>1, <2>2 DEF B!Saved
<1>4. CASE post.what = "delete"
  BY <1>1, <1>4 DEF B!Saved
<1> QED BY <1>2, <1>3, <1>4 DEF BookingInv, PostKnown

LEMMA ServerBooking == ASSUME BookingInv, B!Server PROVE BookingInv'
<1>1. entries \subseteq B!Entries /\ version \in Nat
  BY DEF BookingInv, TableTyped
<1>2. CASE B!OthersBook
  <2>1. version' = version + 1 /\ UNCHANGED <<checks, conflicts, modal, form, post, page, fetch, events>>
    BY <1>2 DEF B!OthersBook, B!FormVars, B!CalendarVars
  <2>2. entries' \subseteq B!Entries
    <3>1. \A b \in Elsewhere : [id |-> <<version + 1, b.date>>, booking |-> version + 1,
                                date |-> b.date, start |-> b.start, end |-> b.end] \in B!Entries
      BY <1>1, BookingAssumption DEF B!Entries, B!EntryIds
    <3> QED BY <1>1, <1>2, <3>1 DEF B!OthersBook
  <2>3. ChecksTold'
    BY <2>1, ChecksOld DEF BookingInv
  <2> QED BY <1>1, <2>1, <2>2, <2>3 DEF BookingInv, TableTyped, CalendarTyped, FormKnown, FormTyped, PostKnown
<1>3. CASE B!FetchReads
  <2>1. fetch'.found = entries /\ UNCHANGED <<entries, version, checks, conflicts, modal, form, post, page, events>>
    BY <1>3 DEF B!FetchReads, B!FormVars, B!TableVars
  <2>2. ChecksTold'
    BY <2>1, ChecksKept DEF BookingInv
  <2> QED BY <1>1, <2>1, <2>2 DEF BookingInv, TableTyped, CalendarTyped, FormKnown, FormTyped, PostKnown
<1>4. CASE B!ServerSaves
  <2>1. post # Nil /\ UNCHANGED <<checks, conflicts, modal, form, page, fetch, events>>
    BY <1>4 DEF B!ServerSaves, B!FormVars, B!CalendarVars
  <2>2. \E answer : post' = [post EXCEPT !.answer = answer]
    BY <1>4 DEF B!ServerSaves
  <2>3. PostKnown'
    BY <2>1, <2>2 DEF BookingInv, PostKnown, FormTyped
  <2>4. TableTyped' /\ ChecksTold'
    <3>1. CASE B!Refused(post)
      BY <1>4, <2>1, <3>1, ChecksKept DEF B!ServerSaves, B!TableVars, BookingInv, TableTyped
    <3>2. CASE ~B!Refused(post)
      BY <1>1, <1>4, <2>1, <3>2, ChecksOld, SavedTyped DEF B!ServerSaves, BookingInv, TableTyped
    <3> QED BY <3>1, <3>2
  <2> QED BY <2>1, <2>3, <2>4 DEF BookingInv, CalendarTyped, FormKnown, FormTyped
<1> QED BY <1>2, <1>3, <1>4 DEF B!Server

(* The calendar, and entries that are opened and closed.                   *)
LEMMA ShownBooking ==
    ASSUME BookingInv, B!FetchShows \/ B!FetchFails
    PROVE  BookingInv'
<1>1. UNCHANGED <<entries, version, checks, conflicts, modal, form, post, page>>
  BY DEF B!FetchShows, B!FetchFails, B!TableVars, B!FormVars
<1>2. CalendarTyped'
  BY DEF B!FetchShows, B!FetchFails, B!NoFetch, BookingInv, CalendarTyped
<1>3. ChecksTold'
  BY <1>1, ChecksKept DEF BookingInv
<1> QED BY <1>1, <1>2, <1>3 DEF BookingInv, TableTyped, FormKnown, FormTyped, PostKnown

LEMMA NewEntryBooking == ASSUME BookingInv, B!NewEntry PROVE BookingInv'
<1>1. /\ UNCHANGED <<entries, version, post, page, fetch, events>>
      /\ modal' = "form" /\ checks' = {} /\ conflicts' = B!Unknown
  BY DEF B!NewEntry, B!Opens, B!TableVars, B!CalendarVars
<1>2. PICK d \in 0 .. Days - 1, s \in Selections :
        form' = [id |-> Nil, booking |-> Nil, was |-> d, date |-> d, until |-> d,
                 single |-> FALSE, start |-> s.start, end |-> s.end, repeat |-> FALSE,
                 dow |-> {B!Weekday(d)}, days |-> TRUE, groups |-> FALSE, pristine |-> TRUE]
  BY DEF B!NewEntry
<1>3. d \in Int /\ d % Week \in Int /\ s.start \in Int /\ s.end \in Int
  BY BookingAssumption
<1>4. FormTyped(form')
  BY <1>2, <1>3 DEF FormTyped, Forms, B!Weekday
<1> QED BY <1>1, <1>4 DEF BookingInv, TableTyped, CalendarTyped, FormKnown, FormTyped,
                          ChecksTold, B!Unknown, PostKnown

LEMMA EditEntryBooking ==
    ASSUME BookingInv, B!EditEntry \/ B!OpenConfirm
    PROVE  BookingInv'
<1>1. UNCHANGED <<entries, version, checks, conflicts, post, page, fetch, events>>
  BY DEF B!EditEntry, B!OpenConfirm, B!Opens, B!TableVars, B!CalendarVars
<1>2. FormKnown'
  BY DEF B!EditEntry, B!OpenConfirm, BookingInv, FormKnown, FormTyped
<1>3. ChecksTold'
  BY <1>1, ChecksKept DEF BookingInv
<1> QED BY <1>1, <1>2, <1>3 DEF BookingInv, TableTyped, CalendarTyped, PostKnown, FormTyped

LEMMA OpensEntryBooking == ASSUME BookingInv, B!OpensEntry PROVE BookingInv'
<1>1. /\ UNCHANGED <<entries, version, post, page, fetch, events>>
      /\ checks' = {} /\ conflicts' = B!Unknown
  BY DEF B!OpensEntry, B!TableVars, B!CalendarVars
<1>2. CASE modal' = "none"
  BY <1>1, <1>2 DEF BookingInv, TableTyped, CalendarTyped, FormKnown, ChecksTold, B!Unknown,
                    PostKnown, FormTyped
<1>3. CASE modal' # "none"
  <2>1. PICK e \in entries :
          form' = [id |-> e.id, booking |-> e.booking, was |-> e.date, date |-> e.date,
                   until |-> e.date, single |-> FALSE, start |-> e.start, end |-> e.end,
                   repeat |-> FALSE, dow |-> {B!Weekday(e.date)}, days |-> TRUE,
                   groups |-> TRUE, pristine |-> TRUE]
    BY <1>3 DEF B!OpensEntry
  <2>2. e \in B!Entries
    BY DEF BookingInv, TableTyped
  <2>3. e.date % Week \in Int
    BY <2>2, BookingAssumption DEF B!Entries
  <2>4. FormTyped(form')
    BY <2>1, <2>2, <2>3 DEF FormTyped, Forms, B!Weekday, B!Entries
  <2> QED BY <1>1, <2>4 DEF BookingInv, TableTyped, CalendarTyped, FormKnown, FormTyped,
                            ChecksTold, B!Unknown, PostKnown
<1> QED BY <1>2, <1>3

LEMMA CloseFormBooking == ASSUME BookingInv, B!CloseForm PROVE BookingInv'
<1>1. UNCHANGED <<entries, version, page, fetch, events>>
  BY DEF B!CloseForm, B!TableVars, B!CalendarVars
<1>2. PostKnown'
  <2>1. post' = post \/ (post # Nil /\ post' = [post EXCEPT !.watched = FALSE])
    BY DEF B!CloseForm
  <2> QED BY <1>1, <2>1 DEF BookingInv, PostKnown, FormTyped
<1>3. CASE modal = "form"
  BY <1>1, <1>2, <1>3 DEF B!CloseForm, BookingInv, TableTyped, CalendarTyped, FormKnown,
                          ChecksTold, B!Unknown
<1>4. CASE modal # "form"
  <2>1. modal = "confirm" /\ form' = form /\ UNCHANGED <<checks, conflicts>>
    BY <1>4 DEF B!CloseForm
  <2>2. ChecksTold'
    BY <1>1, <2>1, ChecksKept DEF BookingInv
  <2> QED BY <1>1, <1>2, <2>1, <2>2 DEF BookingInv, TableTyped, CalendarTyped, FormKnown, FormTyped
<1> QED BY <1>3, <1>4

(* An answer is of the version it was read from.                           *)
LEMMA CheckBooking ==
    ASSUME BookingInv, NEW c \in checks, B!CheckReads(c) \/ B!CheckShows(c)
    PROVE  BookingInv'
<1>1. UNCHANGED <<entries, version, modal, form, post, page, fetch, events>>
  BY DEF B!CheckReads, B!CheckShows, B!TableVars, B!CalendarVars
<1>2. \A x \in checks : Record(x) /\ (x.answer # Nil => Told(x.answer))
  BY DEF BookingInv, ChecksTold
<1>3. ASSUME NEW answer, Told(answer) PROVE Told(answer)'
  BY <1>1, <1>3 DEF Told, B!Range, B!InRange, B!Meets, B!Weekday
<1>4. CASE B!CheckReads(c)
  <2> DEFINE answer == [fields |-> c.fields, found |-> B!Range(c.fields), version |-> version]
             d == [c EXCEPT !.answer = answer]
  <2>1. Told(answer)
    BY DEF Told, BookingInv, TableTyped
  <2>2. Record(d) /\ d.answer = answer
    BY <1>2 DEF Record
  <2>3. conflicts' = conflicts /\ checks' = (checks \ {c}) \cup {d}
    BY <1>4 DEF B!CheckReads
  <2> HIDE DEF answer, d
  <2>4. \A x \in checks' : Record(x) /\ (x.answer # Nil => Told(x.answer))
    BY <1>2, <2>1, <2>2, <2>3
  <2>5. ChecksTold'
    BY <1>3, <2>3, <2>4 DEF BookingInv, ChecksTold, B!Unknown, Record
  <2> QED BY <1>1, <2>5 DEF BookingInv, TableTyped, CalendarTyped, FormKnown, FormTyped, PostKnown
<1>5. CASE B!CheckShows(c)
  <2>1. conflicts' = c.answer /\ Told(c.answer) /\ checks' \subseteq checks
    BY <1>2, <1>5 DEF B!CheckShows
  <2>2. ChecksTold'
    BY <1>2, <1>3, <2>1 DEF ChecksTold, Record
  <2> QED BY <1>1, <2>2 DEF BookingInv, TableTyped, CalendarTyped, FormKnown, FormTyped, PostKnown
<1> QED BY <1>4, <1>5

(* What is posted is what the form holds.                                  *)
LEMMA SaveBooking ==
    ASSUME BookingInv, B!SaveNew \/ B!Confirm
    PROVE  BookingInv'
<1>1. page.at = "bookings" /\ FormTyped(form) /\ UNCHANGED <<entries, version, conflicts, page, fetch, events>>
  BY DEF B!SaveNew, B!Confirm, B!Opens, B!Opened, B!TableVars, B!CalendarVars, BookingInv, FormKnown
<1>2. CASE B!SaveNew
  <2> DEFINE f == IF form.repeat THEN form ELSE [form EXCEPT !.single = TRUE, !.days = FALSE]
  <2>1. FormTyped(f) /\ f.id = form.id
    BY <1>1 DEF FormTyped, Forms
  <2>2. B!Becomes(f) /\ B!Posts("new", f, "all") /\ form.id = Nil
    BY <1>2 DEF B!SaveNew
  <2> HIDE DEF f
  <2>3. ChecksTold' /\ FormKnown'
    BY <1>1, <2>1, <2>2, BecomesKnown DEF BookingInv
  <2>4. PostKnown'
    BY <1>1, <2>1, <2>2 DEF PostKnown, B!Posts, FormTyped
  <2> QED BY <1>1, <2>3, <2>4 DEF BookingInv, TableTyped, CalendarTyped
<1>3. CASE B!Confirm
  <2>1. PICK mode \in B!Modes : B!Posts("change", form, mode) \/ B!Posts("delete", form, mode)
    BY <1>3 DEF B!Confirm
  <2>2. PostKnown'
    BY <1>1, <2>1 DEF PostKnown, B!Posts, FormTyped
  <2>3. form' = form /\ checks' = checks
    BY <1>3 DEF B!Confirm
  <2>4. ChecksTold'
    BY <1>1, <2>3, ChecksKept DEF BookingInv
  <2> QED BY <1>1, <2>2, <2>3, <2>4 DEF BookingInv, TableTyped, CalendarTyped, FormKnown, FormTyped
<1> QED BY <1>2, <1>3

LEMMA AnsweredBooking == ASSUME BookingInv, B!Answered PROVE BookingInv'
<1>1. post' = Nil /\ UNCHANGED <<entries, version, page, events>>
  BY DEF B!Answered, B!TableVars
<1>2. fetch'.found \subseteq B!Entries
  BY DEF B!Answered, B!Asked, B!NoFetch, BookingInv, CalendarTyped
<1>3. CASE modal' = "none" /\ checks' = {} /\ conflicts' = B!Unknown
  BY <1>1, <1>2, <1>3 DEF BookingInv, TableTyped, CalendarTyped, FormKnown, ChecksTold,
                          B!Unknown, PostKnown
<1>4. CASE UNCHANGED <<modal, form, checks, conflicts>>
  <2>1. ChecksTold'
    BY <1>1, <1>4, ChecksKept DEF BookingInv
  <2> QED BY <1>1, <1>2, <1>4, <2>1
          DEF BookingInv, TableTyped, CalendarTyped, FormKnown, FormTyped, PostKnown
<1> QED BY <1>3, <1>4 DEF B!Answered, B!FormVars

LEMMA NextBooking == ASSUME BookingInv, B!Next PROVE BookingInv'
BY ServerBooking, ShownBooking, TypingBooking, NewEntryBooking, EditEntryBooking, OpensEntryBooking,
   CloseFormBooking, CheckBooking, SaveBooking, AnsweredBooking
DEF B!Next

(* A page that is left or loaded has no form and saves nothing.            *)
LEMMA LoadBooking == ASSUME B!Load \/ B!Unload PROVE BookingInv'
<1>1. PICK table, asked : /\ B!Begins(table, asked)
                          /\ table \in Existing \cup {{}}
                          /\ asked.found = {}
  BY DEF B!Load, B!Unload, B!Asked, B!NoFetch
<1>2. table \subseteq B!Entries
  BY <1>1, BookingAssumption
<1> QED BY <1>1, <1>2 DEF B!Begins, BookingInv, TableTyped, CalendarTyped, FormKnown, ChecksTold,
                          B!Unknown, PostKnown

(* While something is being saved the calendar is the page that is open,   *)
(* and no other page does anything.                                        *)
LEMMA StillBooking ==
    ASSUME BookingInv, UNCHANGED BookingVars, post # Nil => UNCHANGED page
    PROVE  BookingInv'
<1>1. UNCHANGED <<entries, version, fetch, events, modal, form, checks, conflicts, post>>
  BY DEF BookingVars
<1>2. ChecksTold'
  BY <1>1, ChecksKept DEF BookingInv
<1> QED BY <1>1, <1>2 DEF BookingInv, TableTyped, CalendarTyped, FormKnown, FormTyped, PostKnown

LEMMA ListClosed == ASSUME Next, page.at = "bookings" PROVE UNCHANGED page
BY DEF Next, Opened, ServerChanges, SocketOpens, SocketCloses, FailTimer, ServerSends, Receive, Card, Limit,
       Click, Choose, ClickStart, StopYes, StopNo, ClickShutdown, AnswerShutdown, AskRestore,
       AnswerRestore, AskPrepare, AnswerPrepare, LimitAllows, LimitReached, LimitFails

LEMMA RunClosed == ASSUME R!Next, page.at = "bookings" PROVE UNCHANGED page
BY DEF R!Next, R!Opened, R!Server, R!RequestWorks, R!RequestMakesClone, R!RequestDone,
       R!MachineUp, R!MachineDown, R!MachineGetsIp, R!MachineIdle, R!ServerSends,
       R!Message, R!RequestMessage, R!BaseMessage, R!MachineMessage, R!SocketCloses,
       R!CloseTimer, R!ConnectAgain, R!ServerTakes, R!Answered, R!PostFails,
       R!ReloadPorts, R!Logout

LEMMA PagesBooking == BookingInv /\ [PagesNext]_pages => BookingInv'
<1> SUFFICES ASSUME BookingInv, [PagesNext]_pages PROVE BookingInv'
  OBVIOUS
<1>1. post # Nil => page.at = "bookings"
  BY DEF BookingInv, PostKnown
<1>2. CASE Next /\ UNCHANGED BookingVars
  BY <1>1, <1>2, ListClosed, StillBooking
<1>3. CASE (\E i \in DOMAIN machines : Settings(i)) /\ UNCHANGED BookingVars
  <2>1. page.at # "bookings"
    BY <1>3 DEF Settings, Click, Opened
  <2> QED BY <1>1, <1>3, <2>1, StillBooking
<1>4. CASE R!Next /\ UNCHANGED BookingVars
  BY <1>1, <1>4, RunClosed, StillBooking
<1>5. CASE B!Next
  BY <1>5, NextBooking
<1>6. CASE LoadRun
  BY <1>6, StillBooking DEF LoadRun
<1>7. CASE GoesBooking \/ GoesHome
  BY <1>7, LoadBooking DEF GoesBooking, GoesHome
<1>8. CASE UNCHANGED pages
  BY <1>8, StillBooking DEF pages
<1> QED BY <1>2, <1>3, <1>4, <1>5, <1>6, <1>7, <1>8 DEF PagesNext

-----------------------------------------------------------------------------
(* The only step that saves something and adds an entry is the server's.   *)
LEMMA OnlyServerSaves ==
    ASSUME BookingInv, [PagesNext]_pages, entries' \ entries # {}, post # Nil, post' # post
    PROVE  B!ServerSaves
<1>1. page.at = "bookings"
  BY DEF BookingInv, PostKnown
<1>2. entries' # entries /\ entries' # {}
  OBVIOUS
<1>3. CASE B!Next
  <2>1. B!ServerSaves \/ UNCHANGED entries \/ UNCHANGED post
    BY <1>3 DEF B!Next, B!Server, B!Typing, B!TableVars, B!OthersBook, B!FetchReads, B!FetchShows,
                B!FetchFails, B!NewEntry, B!EditEntry, B!OpensEntry, B!CloseForm, B!Type, B!Typed,
                B!SetDate, B!SetUntil, B!SetTime, B!SetRepeat, B!ToggleDay, B!SetGroups,
                B!CheckReads, B!CheckShows, B!SaveNew, B!OpenConfirm, B!Confirm, B!Answered
  <2> QED BY <1>2, <2>1
<1>4. CASE GoesBooking
  BY <1>1, <1>4 DEF GoesBooking
<1>5. CASE GoesHome
  BY <1>2, <1>5 DEF GoesHome, B!Unload, B!Begins
<1>6. CASE UNCHANGED BookingVars
  BY <1>2, <1>6 DEF BookingVars
<1> QED BY <1>3, <1>4, <1>5, <1>6 DEF PagesNext, pages, LoadRun

(* Hours that overlap are hours that bookings_range finds.                 *)
LEMMA OverlapMeets ==
    ASSUME NEW e \in B!Entries, NEW start \in Int, NEW end \in Int, e.start < end, start < e.end
    PROVE  B!Meets(e, start, end)
BY DEF B!Meets, B!Entries

(* A day of the form is a day its question asks about.                     *)
LEMMA DatesAsked ==
    ASSUME NEW f, FormTyped(f), f.id = Nil,
           NEW e \in B!Entries, e.date \in B!Dates(f)
    PROVE  B!InRange(e, B!Fields(f))
<1>1. f \in Forms /\ f.date <= f.until /\ f.until # Nil
  BY BookingAssumption DEF FormTyped, Forms
<1>2. e.date \in Int /\ e.id # f.id
  BY BookingAssumption DEF B!Entries
<1> DEFINE q == B!Fields(f)
<1>3. /\ q.from = f.date /\ q.to = (IF f.single THEN Nil ELSE f.until)
      /\ q.dow = f.dow /\ q.id = f.id
  BY DEF B!Fields
<1>4. e.date \in q.from .. (IF q.to = Nil THEN q.from ELSE q.to)
  BY <1>1, <1>2, <1>3 DEF B!Dates, Forms
<1>5. q.dow # {} => B!Weekday(e.date) \in q.dow
  BY <1>3 DEF B!Dates
<1> QED BY <1>2, <1>3, <1>4, <1>5 DEF B!InRange

(* What was checked and is saved while the table is as it was overlaps     *)
(* nothing: the entries made are those the question was about.             *)
LEMMA SavedFree == BookingInv /\ [PagesNext]_pages => B!SavesFree
<1> SUFFICES ASSUME BookingInv, [PagesNext]_pages,
                    entries' \ entries # {}, post # Nil, post.what = "new", post' # post,
                    conflicts.fields = B!Fields(post.entry), conflicts.version = version,
                    conflicts.found = {},
                    NEW a \in entries' \ entries, NEW b \in entries,
                    b.start < b.end, a.start < a.end, B!Overlap(a, b)
             PROVE  FALSE
  BY DEF B!SavesFree
<1> DEFINE f == post.entry
           q == B!Fields(f)
<1>1. FormTyped(f) /\ f.id = Nil /\ b \in B!Entries
  BY DEF BookingInv, PostKnown, TableTyped
<1>2. a \in B!NewEntries(f)
  BY OnlyServerSaves DEF B!ServerSaves, B!TableVars, B!Saved
<1>3. a.date \in B!Dates(f) /\ a.start = f.start /\ a.end = f.end
  BY <1>2 DEF B!NewEntries
<1>4. a.date = b.date /\ a.start < b.end /\ b.start < a.end
  BY DEF B!Overlap
<1>5. B!InRange(b, q)
  BY <1>1, <1>3, <1>4, DatesAsked
<1>6. B!Meets(b, f.start, f.end)
  BY <1>1, <1>3, <1>4, OverlapMeets DEF FormTyped, Forms
<1>7. q.start = f.start /\ q.end = f.end
  BY DEF B!Fields
<1>8. b \in B!Range(q)
  BY <1>5, <1>6, <1>7 DEF B!Range
<1>9. q \in B!Questions
  BY <1>1 DEF B!Fields, B!Questions, FormTyped, Forms
<1>10. conflicts # B!Unknown
  BY <1>9, BookingAssumption DEF B!Unknown
<1>11. B!Range(q) = {}
  BY <1>10 DEF BookingInv, ChecksTold, Told
<1> QED BY <1>8, <1>11

(* A booking that was told to have no conflict and is saved overlaps no    *)
(* other, whoever books meanwhile and however answers cross, if nobody     *)
(* changed the table after the answer was read.                            *)
THEOREM PagesFree == PagesSpec => NewIsFree
<1>1. PagesInit => BookingInv
  BY DEF PagesInit, B!Unloaded, B!NoFetch, B!Unknown, BookingInv, TableTyped, CalendarTyped,
         FormKnown, ChecksTold, PostKnown
<1> QED BY <1>1, PagesBooking, SavedFree, PTL DEF PagesSpec, NewIsFree, B!NewIsFree
=============================================================================
