----------------------------- MODULE MCBiliWatch -----------------------------
\* One target, saved by two users: watching everything, or paused.
EXTENDS BiliWatch

CONSTANTS group, anna, bert

OneGroup == {group}
TwoSavers == {anna, bert}
SomeSeconds == <<1, 2, 2>>
Everything == [enabled |-> TRUE, dynamic |-> TRUE, live |-> TRUE]
SomeSettings == {Everything, [Everything EXCEPT !.enabled = FALSE]}

\* Posts come and go, and the row is made anew or changed twice; a restart; a session is
\* announced; two posts of the same second; a bit of everything.
Scenarios ==
    {[posts |-> 2, withdrawals |-> 1, sessions |-> 0, rows |-> 2, saves |-> 2, restarts |-> 0],
     [posts |-> 2, withdrawals |-> 0, sessions |-> 0, rows |-> 1, saves |-> 3, restarts |-> 0],
     [posts |-> 2, withdrawals |-> 0, sessions |-> 0, rows |-> 1, saves |-> 2, restarts |-> 1],
     [posts |-> 0, withdrawals |-> 0, sessions |-> 2, rows |-> 2, saves |-> 2, restarts |-> 1],
     [posts |-> 3, withdrawals |-> 0, sessions |-> 0, rows |-> 1, saves |-> 1, restarts |-> 0],
     [posts |-> 1, withdrawals |-> 0, sessions |-> 1, rows |-> 1, saves |-> 1, restarts |-> 1]}
==============================================================================
