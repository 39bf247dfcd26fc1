------------------------------ MODULE MCScreens ------------------------------
(***************************************************************************)
(* Every page of ScreenPages, with two rows and two commands in flight:    *)
(* two rows are enough for a command on one row to meet a command, a       *)
(* filter or someone else's change on the other, and two commands for one  *)
(* button pressed twice.                                                   *)
(***************************************************************************)
EXTENDS ScreenPages

\* Every status some page starts in, lists or moves a row to.
MCStatuses ==
    UNION {s.starts \cup {p[2] : p \in UNION s.keys}
             \cup {m.to : m \in s.commands \cup s.others} : s \in AllPages}

\* Two filters of each page: the widest, and one more.
TwoFilters(s) ==
    LET wide == CHOOSE k \in s.keys : \A l \in s.keys : Cardinality(l) <= Cardinality(k)
    IN {wide} \cup (IF s.keys = {wide} THEN {} ELSE {CHOOSE k \in s.keys : k # wide})

MCPages == {[s EXCEPT !.keys = TwoFilters(s)] : s \in AllPages}

\* Two commands in flight, but one where filters overlap, so that a row is on
\* several lists, and where live updates read beside the handlers.
MCMaxTasks ==
    [s \in MCPages |->
        IF \/ s.live = "quiet"
           \/ \E k, l \in s.keys : k # l /\ k \cap l # {}
        THEN 1 ELSE 2]

=============================================================================
