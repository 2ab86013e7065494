--------------------------- MODULE MCConfiguration ---------------------------
(* Values of the constants of Configuration for TLC.                        *)
EXTENDS Configuration, TLC

CONSTANTS a, b, s, q

TwoTasks     == {a, b}
TwoSchedules == {s, q}

Level(l, z) == [level |-> l, size |-> z]
Default     == Level("info", 1)
SomeInputs  == {Level("info", 0), Level("info", 3), Level("loud", 1)}

T(id)        == [id |-> id, restart |-> TRUE]
S(id, t, on) ==
  [id |-> id, task |-> t, enabled |-> on, last |-> "never", detail |-> "none"]

SomeTasks     == {T(a), T(b), [T(a) EXCEPT !.restart = FALSE]}
SomeSchedules == {S(s, a, TRUE), S(s, b, FALSE), S(q, a, TRUE)}

Nothing      == {<<>>}
OldOrphan    == {<<S(q, a, TRUE), S(s, b, TRUE)>>}
LegacySome   == {<<T(b), T(a)>>, <<T(a), T(a)>>}
ImportsSome  == {<<T(a)>>, <<T(b), T(a)>>, <<T(a), T(a)>>}

\* What a page may have seen of either list, and lists with a repetition.  To
\* reorder a shorter list changes nothing.
SomeOrders == {<<a, b>>, <<b, a>>, <<a, a>>, <<s, q>>, <<q, s>>, <<s, s>>}
==============================================================================
