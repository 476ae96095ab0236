---------------------------- MODULE DraftPromise ----------------------------
(***************************************************************************)
(* What the draft promises a spectator, whatever happens behind it: a      *)
(* board that grows by one selection of the team on the clock and an       *)
(* unselected player, that only an undo shrinks, by its newest selection,  *)
(* and a draft that is complete exactly when the board is full.            *)
(***************************************************************************)
EXTENDS SnakeOrder, Sequences

CONSTANTS
    Teams, Players,
    Teamcount,  \* how many teams there are
    Rounds

VARIABLES
    order,   \* the draft order
    board,   \* the selections made so far, in order
    phase    \* "before", "open", "held" or "complete"

promiseVars == <<order, board, phase>>

Size == Teamcount * Rounds
Orders == {f \in [1..Teamcount -> Teams] : {f[i] : i \in 1..Teamcount} = Teams}

Init == order \in Orders /\ board = <<>> /\ phase = "before"

\* Every team learns its turns before the first selection.
Reorder == phase = "before" /\ order' \in Orders /\ UNCHANGED <<board, phase>>

Open == phase \in {"before", "held"} /\ phase' = "open" /\ UNCHANGED <<order, board>>
Hold == phase = "open" /\ phase' = "held" /\ UNCHANGED <<order, board>>

Select(p) ==
    /\ phase = "open"
    /\ \A i \in 1..Len(board) : board[i].player # p
    /\ board' = Append(board, [team |-> TeamForPick(order, Len(board) + 1, Teamcount),
                               player |-> p])
    /\ phase' = IF Len(board') = Size THEN "complete" ELSE "open"
    /\ UNCHANGED order

\* Undoing the newest selection puts the draft back on, even a held or a
\* completed one.
Undo ==
    /\ Len(board) > 0
    /\ board' = SubSeq(board, 1, Len(board) - 1)
    /\ phase' = "open"
    /\ UNCHANGED order

Next == Reorder \/ Open \/ Hold \/ (\E p \in Players : Select(p)) \/ Undo

Spec == Init /\ [][Next]_promiseVars
=============================================================================
