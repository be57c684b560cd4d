----------------------------- MODULE CloudCells -----------------------------
(* What a cloud variable promises, seen from its resource: a cell per route,  *)
(* written by the cloud directly and by the application through a backlog of  *)
(* assignments.  An assignment that is accepted is written once, in the order *)
(* of the assignments to that route; nothing else changes the cell.           *)
EXTENDS Sequences

CONSTANTS Routes, Values, Texts, Format, Empty

VARIABLES exposed,   \* exposed[r]: the route has a resource
          cell,      \* cell[r]: the text of the resource
          backlog    \* backlog[r]: the accepted assignments, oldest first

cells == <<exposed, cell, backlog>>

Init ==
    /\ exposed = [r \in Routes |-> FALSE]
    /\ cell = [r \in Routes |-> Empty]
    /\ backlog = [r \in Routes |-> <<>>]

Expose(r, v) ==
    /\ ~exposed[r]
    /\ exposed' = [exposed EXCEPT ![r] = TRUE]
    /\ cell' = [cell EXCEPT ![r] = Format[v]]
    /\ UNCHANGED backlog

Accept(r, v) ==
    /\ backlog' = [backlog EXCEPT ![r] = Append(@, v)]
    /\ UNCHANGED <<exposed, cell>>

\* The oldest assignment is written, or discarded when there is no resource.
Flush(r) ==
    /\ backlog[r] # <<>>
    /\ backlog' = [backlog EXCEPT ![r] = Tail(@)]
    /\ cell' = IF exposed[r] THEN [cell EXCEPT ![r] = Format[Head(backlog[r])]] ELSE cell
    /\ UNCHANGED exposed

Put(r, t) ==
    /\ exposed[r]
    /\ cell' = [cell EXCEPT ![r] = t]
    /\ UNCHANGED <<exposed, backlog>>

Next == \E r \in Routes :
          \/ \E v \in Values : Expose(r, v) \/ Accept(r, v)
          \/ Flush(r)
          \/ \E t \in Texts : Put(r, t)

\* No accepted assignment waits for ever.
Fairness == \A r \in Routes : WF_cells(Flush(r))

Safety == Init /\ [][Next]_cells
Spec == Safety /\ Fairness
=============================================================================
