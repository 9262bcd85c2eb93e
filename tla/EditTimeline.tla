---------------------------- MODULE EditTimeline ----------------------------
(***************************************************************************)
(* What an undo history promises: the editor shows one point of a line of  *)
(* documents.  An edit cuts off what lies after that point and appends a   *)
(* document, undo and redo move along the line without changing it,        *)
(* opening a workflow starts a new line.  At most Limit edits can be taken *)
(* back.                                                                   *)
(***************************************************************************)
EXTENDS Naturals, Sequences

CONSTANT Limit   \* how many edits can be undone

VARIABLES line,  \* the documents, oldest first
          at     \* which of them is shown

Init == at = 1 /\ Len(line) = 1

Edit ==
    LET kept == SubSeq(line, 1, at)
    IN  /\ Len(line') = at'
        /\ SubSeq(line', 1, at' - 1) = IF at > Limit THEN Tail(kept) ELSE kept

Undo == at > 1 /\ at' = at - 1 /\ line' = line

Redo == at < Len(line) /\ at' = at + 1 /\ line' = line

Open == at' = 1 /\ Len(line') = 1

Next == Edit \/ Undo \/ Redo \/ Open

Spec == Init /\ [][Next]_<<line, at>>
=============================================================================
