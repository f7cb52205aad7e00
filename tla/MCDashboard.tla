---------------------------- MODULE MCDashboard -----------------------------
EXTENDS Dashboard

MCImpact == [i \in Ids |-> "high"]
MCFoundBy == [t \in Texts |-> IF t = "" THEN Ids ELSE {1}]

Idle == [findings |-> 0, others |-> 0, tabs |-> 0, reads |-> 0, sidebar |-> 0, session |-> 0]
MCBudgets ==
    {[Idle EXCEPT !.findings = 2], [Idle EXCEPT !.findings = 1, !.others = 1],
     [Idle EXCEPT !.tabs = 3], [Idle EXCEPT !.reads = 2], [Idle EXCEPT !.sidebar = 3, !.session = 1],
     [Idle EXCEPT !.session = 4]}
=============================================================================
