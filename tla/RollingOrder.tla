---------------------------- MODULE RollingOrder ----------------------------
(***************************************************************************)
(* The waiver order the rules promise, a continual rolling list: the teams *)
(* stand in a line, a team that is served goes to its end, and nothing     *)
(* else ever changes the line.                                             *)
(***************************************************************************)
EXTENDS Naturals

CONSTANTS
    Teams,
    Length   \* of the line: how many teams there are

VARIABLE line   \* the teams, first in line first

Lines == {s \in [1..Length -> Teams] : {s[i] : i \in 1..Length} = Teams}

Init == line \in Lines

\* The team in place k is served, and everybody behind it moves up.
Serve(k) ==
    line' = [i \in 1..Length |-> CASE i < k               -> line[i]
                                   [] i >= k /\ i < Length -> line[i + 1]
                                   [] i >= k /\ i = Length -> line[k]]
Next == \E k \in 1..Length : Serve(k)

Spec == Init /\ [][Next]_line
=============================================================================
