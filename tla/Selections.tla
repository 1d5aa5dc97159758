----------------------------- MODULE Selections -----------------------------
(***************************************************************************)
(* The elements of a sequence at some of its positions, in order.  It is   *)
(* what a loop that copies the elements to keep leaves behind.             *)
(***************************************************************************)
EXTENDS Integers, Sequences

\* What has been copied after each position.
SelectedTo(s, positions) ==
    LET kept[n \in 0 .. Len(s)] ==
            IF n = 0 THEN <<>>
            ELSE IF n \in positions THEN Append(kept[n - 1], s[n]) ELSE kept[n - 1]
    IN  kept

Selected(s, positions) == SelectedTo(s, positions)[Len(s)]
=============================================================================
