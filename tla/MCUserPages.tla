----------------------------- MODULE MCUserPages -----------------------------
EXTENDS UserPages, TLC

CONSTANTS b1, b2, o, c1, c2, nc

Row(i, b, a, cs) == [id |-> i, is_base |-> b, is_active |-> a, autostart |-> FALSE,
                     list_clones |-> cs]
C(i, a) == [id |-> i, is_active |-> a, autostart |-> TRUE]

(* A base without clones, with one and with two, in two orders, active and *)
(* not; a machine of the user's own; another base in the first place.      *)
MCAnswers ==
    {<<Row(b1, TRUE, FALSE, <<>>), Row(o, FALSE, FALSE, <<>>)>>,
     <<Row(b1, TRUE, FALSE, <<C(c1, FALSE)>>), Row(o, FALSE, FALSE, <<>>)>>,
     <<Row(b1, TRUE, FALSE, <<C(c1, FALSE), C(c2, FALSE)>>)>>,
     <<Row(b1, TRUE, FALSE, <<C(c1, FALSE), C(c2, TRUE)>>)>>,
     <<Row(b1, TRUE, FALSE, <<C(c2, TRUE)>>), Row(o, FALSE, TRUE, <<>>)>>,
     <<Row(b2, TRUE, FALSE, <<>>), Row(b1, TRUE, FALSE, <<C(c1, TRUE)>>)>>}

(* A booking of two days; an hour of another day somebody else may book.   *)
Entry(b, d, from, to) == [id |-> <<b, d>>, booking |-> b, date |-> d, start |-> from, end |-> to]
MCExisting == {{Entry(0, 1, 0, 1), Entry(0, 2, 0, 1)}}
MCSelections == {[start |-> 0, end |-> 1]}
MCElsewhere == {[date |-> 0, start |-> 1, end |-> 2]}

StartIsNoticed == R!StartIsNoticed
ListensOrTells == R!ListensOrTells
ShowsWhatISaved == B!ShowsWhatISaved
=============================================================================
