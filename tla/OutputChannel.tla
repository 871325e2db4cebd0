--------------------------- MODULE OutputChannel ---------------------------
(***************************************************************************)
(* What a terminal's output path promises the window that shows it: a      *)
(* bounded FIFO channel.  Whatever is shown was produced, in the order it  *)
(* was produced and once; the end of the terminal is shown last.  The      *)
(* channel may break, and then shows nothing more except one chunk that    *)
(* was already on its way.                                                 *)
(***************************************************************************)
EXTENDS Naturals, Sequences

CONSTANTS Chunks,  \* what a terminal produces, the end marker among it
          Closed,  \* the end marker
          Capacity \* chunks that wait while none is on its way

VARIABLES backlog, \* produced and not yet shown
          emitted, \* shown to the window
          broken   \* the channel accepts and shows nothing more

vars == <<backlog, emitted, broken>>

Init == backlog = <<>> /\ emitted = <<>> /\ broken = FALSE

Ended == \E i \in DOMAIN (emitted \o backlog) : (emitted \o backlog)[i] = Closed

Produce(chunk) ==
    /\ ~broken /\ ~Ended
    /\ Len(backlog) <= Capacity
    /\ backlog' = Append(backlog, chunk)
    /\ UNCHANGED <<emitted, broken>>

Show ==
    /\ backlog # <<>>
    /\ emitted' = Append(emitted, Head(backlog))
    /\ backlog' = Tail(backlog)
    /\ UNCHANGED broken

Break ==
    /\ broken' = TRUE
    /\ \/ backlog' = <<>>
       \/ backlog # <<>> /\ backlog' = <<Head(backlog)>>
    /\ UNCHANGED emitted

Next == Show \/ Break \/ \E chunk \in Chunks : Produce(chunk)

Spec == Init /\ [][Next]_vars
============================================================================
