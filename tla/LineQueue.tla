----------------------------- MODULE LineQueue -----------------------------
(***************************************************************************)
(* What buffer.Buffer promises: a queue of lines.  Write appends one line, *)
(* ReadAll hands over all lines in the order they were written and leaves  *)
(* none behind, and Len counts them.  A crash may cost the front of a      *)
(* queue that was being drained, never a line in its middle.               *)
(***************************************************************************)
EXTENDS Naturals, Sequences

CONSTANT Lines

VARIABLES
  queue,    \* the stored lines
  handed    \* all lines ReadAll and Replay returned, in order

vars == <<queue, handed>>

Init ==
  /\ queue = <<>>
  /\ handed = <<>>

Write(l) ==
  /\ queue' = Append(queue, l)
  /\ UNCHANGED handed

ReadAll ==
  /\ handed' = handed \o queue
  /\ queue' = <<>>

LoseFront ==
  /\ \E cut \in 1 .. Len(queue) : queue' = SubSeq(queue, cut + 1, Len(queue))
  /\ UNCHANGED handed

Next ==
  \/ \E l \in Lines : Write(l)
  \/ ReadAll
  \/ LoseFront

Spec == Init /\ [][Next]_vars

=============================================================================
