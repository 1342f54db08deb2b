------------------------------ MODULE Navigator ------------------------------
(***************************************************************************)
(* The animated table cursor of recorded walkthroughs                      *)
(* (kexplore/tui/navigator.py): a path of rows from the top of the table   *)
(* to a target, one row per timer tick, and a callback when it has         *)
(* arrived.                                                                *)
(***************************************************************************)
EXTENDS Integers, Sequences, SequencesExt

CONSTANTS
    LastRow,    \* bound: the last row of a table
    MaxSteps    \* compute_cursor_path: longer ways are not walked row by row

ASSUME NavigatorAssumption == LastRow \in Nat /\ MaxSteps \in Nat \ {0}

VARIABLES
    cursor,     \* DataTable.cursor_row
    nav         \* CursorNavigator: the plan's path and the step it is at

navigatorVars == <<cursor, nav>>

Rows == 0..LastRow

---------------------------------------------------------------------------
\* n / d to the nearest integer, a half to the even one (round)
RoundHalfEven(n, d) ==
    LET q == n \div d
        r == 2 * (n % d)
    IN  CASE r < d -> q [] r > d -> q + 1 [] OTHER -> IF q % 2 = 0 THEN q ELSE q + 1

\* Twice i / n squared on the first half of the way, mirrored on the second:
\* the row of step i, in exact arithmetic.
EasedRow(start, diff, i, n) ==
    start + RoundHalfEven(IF 2 * i < n THEN 2 * i * i * diff
                          ELSE (n * n - 2 * (n - i) * (n - i)) * diff, n * n)

\* The rows the cursor visits from start to target, both included; one row if
\* they are the same.
CursorPath(start, target, most) ==
    LET diff == target - start
        dist == IF diff >= 0 THEN diff ELSE -diff
        dir  == IF diff >= 0 THEN 1 ELSE -1
        row(i) == EasedRow(start, diff, i, most)
        upTo[i \in 0..(most - 1)] ==
            IF i = 0 THEN <<start>>
            ELSE IF row(i) = Last(upTo[i - 1]) THEN upTo[i - 1]
            ELSE Append(upTo[i - 1], row(i))
        eased == upTo[most - 1]
    IN  IF dist <= most THEN [i \in 1..(dist + 1) |-> start + dir * (i - 1)]
        ELSE IF Last(eased) = target THEN eased
        ELSE Append(eased, target)

---------------------------------------------------------------------------
Still == [path |-> <<>>, at |-> 0]
Travelling == nav.path # <<>>

\* cancel without a snap leaves the cursor where it is; with one it goes to
\* the target, as if it had arrived.
Cancel == nav' = Still
SnapTo == IF Travelling THEN Last(nav.path) ELSE cursor

\* navigate: the cursor is put at the start, and a timer moves it on.
Navigate(start, target) ==
    LET path == CursorPath(start, target, MaxSteps)
    IN  IF Len(path) <= 1
        THEN nav' = Still /\ cursor' = target
        ELSE nav' = [path |-> path, at |-> 1] /\ cursor' = Head(path)

\* _tick moves the cursor one row on; the last row is the arrival.
Arrives == nav.at + 1 >= Len(nav.path)

Tick ==
    /\ Travelling
    /\ cursor' = nav.path[nav.at + 1]
    /\ nav' = IF Arrives THEN Still ELSE [nav EXCEPT !.at = @ + 1]

===============================================================================
