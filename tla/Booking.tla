------------------------------- MODULE Booking -------------------------------
(***************************************************************************)
(* The calendar of bookings: the component rvdCalendar, the form of an     *)
(* entry, the dialog that asks for the mode, and the fields for groups,    *)
(* in public/js/booking, with lib/Ravada/Booking.pm and Booking/Entry.pm   *)
(* behind them.                                                            *)
(*                                                                         *)
(* A booking is a set of entries, one a day.  The form asks the server for *)
(* conflicts each time the day or the hours change and goes on being       *)
(* edited; the server does not look for conflicts when it saves.  The      *)
(* calendar asks for the events again when the form is closed by saving.   *)
(***************************************************************************)
EXTENDS Integers, FiniteSets

CONSTANTS
    Days,        \* bound: the calendar shows the days 0 .. Days - 1
    Week,        \* the days a week has
    Hours,       \* bound: the hours are 0 .. Hours
    Existing,    \* the sets of entries there are at first
    Selections,  \* the hours the user may select: [start, end]
    Elsewhere,   \* what somebody else may book: [date, start, end]
    Nil,         \* JavaScript's undefined
    MaxChanges,  \* bound: how many times somebody else books
    MaxForms,    \* bound: how many times the user opens the form or saves
    MaxEdits     \* bound: how many times the user changes a day or an hour

Modes == {"current", "next", "next_dow", "all"}
Weekday(day) == day % Week

VARIABLES
    page,       \* the page the browser shows: [at]
    entries,    \* the table booking_entries: [id, booking, date, start, end]
    version,    \* how many times it changed
    fetch,      \* what the calendar asked for: [at, found, version]
    events,     \* what it shows: [found, version, failed]
    modal,      \* "none", "loading", "form", "confirm": the dialog on top
    form,       \* the entry in the form, or the id of the one that loads
    checks,     \* questions about conflicts: [fields, answer]
    conflicts,  \* the last answer: [fields, found, version]
    post,       \* what is being saved: [what, entry, mode, answer, watched],
                \* watched by the form until the user closes it, answered
                \* with Error or with the version it made; or Nil
    mine,       \* the version made by the last change the form saw saved
    changes, forms, edits

vars == <<page, entries, version, fetch, events, modal, form, checks, conflicts,
          post, mine, changes, forms, edits>>
CalendarVars == <<fetch, events>>
TableVars == <<entries, version>>
FormVars == <<modal, form, checks, conflicts>>
Used == <<forms, edits>>

Opened == page.at = "bookings"

(* A row of booking_entries, and the fields of a question about conflicts. *)
EntryIds == Int \X Int
Entries == [id : EntryIds, booking : Int, date : Int, start : Int, end : Int]
Questions == [from : Int, to : Int \cup {Nil}, start : Int, end : Int,
              dow : SUBSET Int, id : EntryIds \cup {Nil}]
Error == 0
Unknown == [fields |-> Nil, found |-> {}, version |-> 0]
NoFetch == [at |-> "none", found |-> {}, version |-> 0]
Asked == [NoFetch EXCEPT !.at = "asked"]

(***************************************************************************)
(* The server.                                                             *)
(***************************************************************************)

(* bookings_range: the entries of the days and the days of the week asked  *)
(* for, whose hours meet the hours asked for.                              *)
Meets(e, start, end) ==
    \/ e.start <= start /\ e.end > start
    \/ e.end >= end /\ e.start < end
    \/ e.start >= start /\ e.start < end

\* Mutant: the days of the week are taken from the first day only.
InRange_FirstDow(e, f) ==
    /\ e.date \in f.from .. (IF f.to = Nil THEN f.from ELSE f.to)
    /\ f.dow # {} => Weekday(e.date) = Weekday(f.from)
    /\ e.id # f.id

InRange(e, f) ==
    /\ e.date \in f.from .. (IF f.to = Nil THEN f.from ELSE f.to)
    /\ f.dow # {} => Weekday(e.date) \in f.dow
    /\ e.id # f.id
Range(f) == {e \in entries : InRange(e, f) /\ Meets(e, f.start, f.end)}

(* Booking::BUILD: one entry for each of the days of the week from one day *)
(* to another; there must be one.                                          *)
Dates(f) ==
    LET dow == IF f.dow = {} THEN {Weekday(f.date)} ELSE f.dow
        last == IF f.single THEN f.date ELSE f.until
    IN  {d \in 0 .. Days - 1 : d >= f.date /\ (d = f.date \/ d <= last) /\ Weekday(d) \in dow}
NewEntries(f) ==
    LET n == version + 1
    IN  {[id |-> <<n, d>>, booking |-> n, date |-> d, start |-> f.start, end |-> f.end] : d \in Dates(f)}

(* Which entries of the booking a mode means.                              *)
Meant(f, mode) ==
    {e \in entries :
        CASE mode = "current" -> e.id = f.id
          [] mode = "all" -> e.booking = f.booking
          [] mode = "next" -> e.booking = f.booking /\ e.date >= f.was
          [] OTHER -> e.booking = f.booking /\ e.date >= f.was /\ Weekday(e.date) = Weekday(f.was)}

(* Entry::change: the hours of all of them, the day only of the entry that *)
(* was edited.                                                             *)
Change(e, f) == [e EXCEPT !.start = f.start, !.end = f.end,
                          !.date = IF e.id = f.id THEN f.date ELSE @]

Saved(p) ==
    LET ids == Meant(p.entry, p.mode)
    IN  CASE p.what = "new" -> entries \cup NewEntries(p.entry)
          [] p.what = "change" -> (entries \ ids) \cup {Change(e, p.entry) : e \in ids}
          [] p.what = "delete" -> entries \ ids
Refused(p) == IF p.what = "new" THEN Dates(p.entry) = {}
              ELSE \A e \in entries : e.id # p.entry.id

(* Somebody else books an hour, or removes an entry.                       *)
OthersBook ==
    /\ Opened /\ changes < MaxChanges
    /\ changes' = changes + 1 /\ version' = version + 1
    /\ \/ \E b \in Elsewhere :
             entries' = entries \cup {[id |-> <<version + 1, b.date>>, booking |-> version + 1,
                                       date |-> b.date, start |-> b.start, end |-> b.end]}
       \/ \E e \in entries : entries' = entries \ {e}
    /\ UNCHANGED <<page, CalendarVars, FormVars, post, mine, Used>>

(***************************************************************************)
(* The calendar.                                                           *)
(***************************************************************************)

(* getEvents, asked for by the calendar when it is shown and by            *)
(* refetchEvents; of two of them the calendar forgets the older one.       *)
FetchReads ==
    /\ Opened /\ fetch.at = "asked"
    /\ fetch' = [at |-> "read", found |-> entries, version |-> version]
    /\ UNCHANGED <<page, TableVars, events, FormVars, post, mine, changes, Used>>

FetchShows ==
    /\ Opened /\ fetch.at = "read"
    /\ events' = [found |-> fetch.found, version |-> fetch.version, failed |-> FALSE]
    /\ fetch' = NoFetch
    /\ UNCHANGED <<page, TableVars, FormVars, post, mine, changes, Used>>

FetchFails ==
    /\ Opened /\ fetch.at # "none"
    /\ events' = [events EXCEPT !.failed = TRUE]
    /\ fetch' = NoFetch
    /\ UNCHANGED <<page, TableVars, FormVars, post, mine, changes, Used>>

(* Users wait for the calendar to have its events, and for an answer when  *)
(* they save; nothing in the page makes them.                              *)
Opens == /\ Opened /\ fetch.at = "none" /\ post = Nil
         /\ forms < MaxForms /\ forms' = forms + 1
         /\ UNCHANGED edits

(* newEntry: a range of hours of one day where nothing is shown            *)
(* (selectOverlap), with updateDates and resetDow of the form.             *)
NewEntry ==
    /\ Opens /\ modal = "none"
    /\ \E d \in 0 .. Days - 1, s \in Selections :
          /\ \A e \in events.found : e.date = d => e.end <= s.start \/ s.end <= e.start
          /\ form' = [id |-> Nil, booking |-> Nil, was |-> d, date |-> d, until |-> d,
                      single |-> FALSE, start |-> s.start, end |-> s.end, repeat |-> FALSE,
                      dow |-> {Weekday(d)}, days |-> TRUE,
                      groups |-> FALSE, pristine |-> TRUE]
    /\ modal' = "form" /\ checks' = {} /\ conflicts' = Unknown
    /\ UNCHANGED <<page, TableVars, CalendarVars, post, mine, changes>>

(* editEntry: the entry is asked for again; it may be gone.                *)
EditEntry ==
    /\ Opens /\ modal = "none"
    /\ \E e \in events.found : form' = e.id
    /\ modal' = "loading"
    /\ UNCHANGED <<page, TableVars, CalendarVars, checks, conflicts, post, mine, changes>>

OpensEntry ==
    /\ Opened /\ modal = "loading"
    /\ \/ \E e \in entries :
             /\ e.id = form /\ modal' = "form"
             /\ form' = [id |-> e.id, booking |-> e.booking, was |-> e.date, date |-> e.date,
                         until |-> e.date, single |-> FALSE, start |-> e.start, end |-> e.end,
                         repeat |-> FALSE, dow |-> {Weekday(e.date)}, days |-> TRUE,
                         groups |-> TRUE, pristine |-> TRUE]
       \/ /\ \A e \in entries : e.id # form
          /\ modal' = "none" /\ form' = Nil
    /\ checks' = {} /\ conflicts' = Unknown
    /\ UNCHANGED <<page, TableVars, CalendarVars, post, mine, changes, Used>>

(***************************************************************************)
(* The form.                                                               *)
(***************************************************************************)
Fields(f) == [from |-> f.date, to |-> IF f.single THEN Nil ELSE f.until, start |-> f.start, end |-> f.end,
              dow |-> f.dow, id |-> f.id]

(* $doCheck: what the question is about is what the form holds when it is  *)
(* asked.                                                                  *)
Becomes(f) ==
    /\ form' = f
    /\ checks' = IF Fields(f) = Fields(form) THEN checks
                 ELSE checks \cup {[fields |-> Fields(f), answer |-> Nil]}

(* updateDates and resetDow.                                               *)
UpdateDates(f) ==
    LET until == IF ~f.repeat \/ f.date > f.until THEN f.date ELSE f.until
    IN  [f EXCEPT !.until = until, !.single = FALSE, !.days = @ \/ ~f.repeat,
                  !.dow = IF f.repeat THEN @ ELSE {Weekday(f.date)}]

Typed == /\ Opened /\ modal = "form" /\ post = Nil
         /\ UNCHANGED <<forms, page, TableVars, CalendarVars, modal, conflicts, post, mine, changes>>
Type == Typed /\ edits < MaxEdits /\ edits' = edits + 1
Dirty(f) == Becomes([f EXCEPT !.pristine = FALSE])

SetDate == Type /\ \E d \in 0 .. Days - 1 : Dirty(UpdateDates([form EXCEPT !.date = d]))
SetUntil == /\ Type /\ form.repeat
            /\ \E d \in 0 .. Days - 1 : Dirty(UpdateDates([form EXCEPT !.until = d]))
SetTime == Type /\ \E t \in 0 .. Hours : \/ Dirty([form EXCEPT !.start = t])
                                         \/ Dirty([form EXCEPT !.end = t])

(* The select Repeat of a new booking: nothing else of the form follows it.*)
SetRepeat == Typed /\ UNCHANGED edits /\ form.id = Nil /\ Dirty([form EXCEPT !.repeat = ~@])

(* update_booking_dow, which fails while a save left no days in the form.  *)
ToggleDay == /\ Type /\ form.repeat /\ form.days
             /\ \E d \in 0 .. Week - 1 :
                   Dirty([form EXCEPT !.dow = IF d \in @ THEN @ \ {d} ELSE @ \cup {d}])

(* ldapGroups and localGroups: add a group, or remove the last one.        *)
SetGroups == Typed /\ UNCHANGED edits /\ Dirty([form EXCEPT !.groups = ~@])

CheckReads(c) ==
    /\ Opened /\ c.answer = Nil
    /\ checks' = (checks \ {c}) \cup
                 {[c EXCEPT !.answer = [fields |-> c.fields, found |-> Range(c.fields),
                                        version |-> version]]}
    /\ UNCHANGED <<page, TableVars, CalendarVars, modal, form, conflicts, post, mine, changes, Used>>

(* Answers are shown in the order they arrive.                             *)
CheckShows(c) ==
    /\ Opened /\ c.answer # Nil
    /\ conflicts' = c.answer
    /\ checks' = checks \ {c}
    /\ UNCHANGED <<page, TableVars, CalendarVars, modal, form, post, mine, changes, Used>>

CloseForm ==
    /\ Opened /\ modal \in {"form", "confirm"}
    /\ modal' = IF modal = "form" THEN "none" ELSE "form"
    /\ form' = IF modal = "form" THEN Nil ELSE form
    /\ checks' = IF modal = "form" THEN {} ELSE checks
    /\ conflicts' = IF modal = "form" THEN Unknown ELSE conflicts
    /\ post' = IF post = Nil \/ modal # "form" THEN post ELSE [post EXCEPT !.watched = FALSE]
    /\ UNCHANGED <<page, TableVars, CalendarVars, mine, changes, Used>>

(***************************************************************************)
(* Saving.                                                                 *)
(***************************************************************************)
CanSave == ~form.pristine /\ form.groups /\ conflicts.found = {}
Posts(what, f, mode) == post' = [what |-> what, entry |-> f, mode |-> mode, answer |-> Nil,
                                 watched |-> TRUE]

(* save of a new booking: without repeat there is no last day any more and *)
(* the check boxes of the days are gone, though not day_of_week.           *)
(* The button is not disabled while it saves.                              *)
SaveNew ==
    /\ Opens /\ modal = "form" /\ form.id = Nil /\ CanSave
    /\ LET f == IF form.repeat THEN form
                ELSE [form EXCEPT !.single = TRUE, !.days = FALSE]
       IN  Becomes(f) /\ Posts("new", f, "all")
    /\ UNCHANGED <<page, TableVars, CalendarVars, modal, conflicts, mine, changes>>

(* save and remove of an entry open rvdConfirmActions first.               *)
OpenConfirm ==
    /\ Opens /\ modal = "form" /\ form.id # Nil
    /\ modal' = "confirm"
    /\ UNCHANGED <<page, TableVars, CalendarVars, form, checks, conflicts, post, mine, changes>>

(* save_entry and remove_entry.                                            *)
Confirm ==
    /\ Opened /\ modal = "confirm"
    /\ \E mode \in Modes : \/ CanSave /\ Posts("change", form, mode)
                           \/ Posts("delete", form, mode)
    /\ modal' = "form"
    /\ UNCHANGED <<page, TableVars, CalendarVars, form, checks, conflicts, mine, changes, Used>>

ServerSaves ==
    /\ Opened /\ post # Nil /\ post.answer = Nil
    /\ IF Refused(post)
       THEN post' = [post EXCEPT !.answer = Error] /\ UNCHANGED TableVars
       ELSE /\ entries' = Saved(post) /\ version' = version + 1
            /\ post' = [post EXCEPT !.answer = version + 1]
    /\ UNCHANGED <<page, CalendarVars, FormVars, mine, changes, Used>>

\* Mutant: the calendar is not asked to get its events again.
Answered_NoRefetch ==
    /\ Opened /\ post # Nil /\ post.answer # Nil
    /\ post' = Nil
    /\ IF post.answer # Error /\ post.watched
       THEN /\ mine' = post.answer
            /\ modal' = "none" /\ form' = Nil /\ checks' = {} /\ conflicts' = Unknown
       ELSE UNCHANGED <<FormVars, mine>>
    /\ UNCHANGED <<page, TableVars, CalendarVars, changes, Used>>

(* showResponse: what was saved closes the form, and the calendar asks for *)
(* its events again; an error leaves the form as it is.                    *)
Answered ==
    /\ Opened /\ post # Nil /\ post.answer # Nil
    /\ post' = Nil
    /\ IF post.answer # Error /\ post.watched
       THEN /\ mine' = post.answer
            /\ modal' = "none" /\ form' = Nil /\ checks' = {} /\ conflicts' = Unknown
            /\ fetch' = Asked
       ELSE UNCHANGED <<FormVars, fetch, mine>>
    /\ UNCHANGED <<page, TableVars, events, changes, Used>>

-----------------------------------------------------------------------------
(* Before the browser loads the page.                                      *)
Unloaded ==
    /\ entries = {} /\ version = 0
    /\ fetch = NoFetch /\ events = [found |-> {}, version |-> 0, failed |-> FALSE]
    /\ modal = "none" /\ form = Nil /\ checks = {} /\ conflicts = Unknown
    /\ post = Nil /\ mine = 0 /\ changes = 0 /\ forms = 0 /\ edits = 0

(* The script begins, and the calendar asks for its events; or is gone.    *)
Begins(table, asked) ==
    /\ entries' = table /\ version' = 0
    /\ fetch' = asked /\ events' = [found |-> {}, version |-> 0, failed |-> FALSE]
    /\ modal' = "none" /\ form' = Nil /\ checks' = {} /\ conflicts' = Unknown
    /\ post' = Nil /\ mine' = 0 /\ changes' = 0 /\ forms' = 0 /\ edits' = 0
Load == \E table \in Existing : Begins(table, Asked)
Unload == Begins({}, NoFetch)

Server == OthersBook \/ FetchReads \/ ServerSaves
Typing == SetDate \/ SetUntil \/ SetTime \/ SetRepeat \/ ToggleDay \/ SetGroups
Next ==
    \/ Server \/ FetchShows \/ FetchFails
    \/ NewEntry \/ EditEntry \/ OpensEntry \/ CloseForm
    \/ Typing
    \/ \E c \in checks : CheckReads(c) \/ CheckShows(c)
    \/ SaveNew \/ OpenConfirm \/ Confirm \/ Answered

(* The server answers, and the browser shows the answers.                  *)
Fairness == WF_vars(FetchReads \/ FetchShows) /\ WF_vars(ServerSaves \/ Answered)

-----------------------------------------------------------------------------
Overlap(a, b) == a.date = b.date /\ a.start < b.end /\ b.start < a.end

(* "This booking overlaps already scheduled reservations": when the form   *)
(* was told that what it holds overlaps nothing and nobody changed         *)
(* anything since, what the server saves overlaps nothing: the question    *)
(* asked by range and day of the week is about the entries that are made.  *)
SavesFree ==
    entries' \ entries # {} /\ post # Nil /\ post.what = "new" /\ post' # post
    /\ conflicts.fields = Fields(post.entry) /\ conflicts.version = version
    /\ conflicts.found = {}
      => \A a \in entries' \ entries, b \in entries :
            b.start < b.end /\ a.start < a.end => ~Overlap(a, b)
NewIsFree == [][SavesFree]_vars

(* What the form saw saved comes to be shown by the calendar, whatever     *)
(* else was asked for or changed meanwhile, unless the calendar could not  *)
(* get its events.                                                         *)
ShowsWhatISaved == []<>(Opened => events.version >= mine \/ events.failed)
=============================================================================
