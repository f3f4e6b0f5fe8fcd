------------------------------- MODULE ItemChannel -------------------------------
(***************************************************************************)
(* What the reader of a mixed stream promises: the items that were sent,   *)
(* bytes of text and packets, are got in the order they were sent, none is *)
(* lost, repeated or taken for something else, and the stream is over only *)
(* when all have been got.                                                 *)
(***************************************************************************)
EXTENDS Naturals, Sequences

VARIABLES sent,   \* the items sent so far
          got,    \* the items received so far
          over    \* the receiver has seen the end

vars == <<sent, got, over>>

Init == sent = <<>> /\ got = <<>> /\ over = FALSE

Send == 
    /\ ~over
    /\ Len(sent') > Len(sent) /\ SubSeq(sent', 1, Len(sent)) = sent
    /\ UNCHANGED <<got, over>>

\* One or more items arrive: text is passed on in pieces of any size.
Deliver ==
    /\ ~over
    /\ \E n \in Len(got) + 1 .. Len(sent) : got' = SubSeq(sent, 1, n)
    /\ UNCHANGED <<sent, over>>

End == ~over /\ got = sent /\ over' = TRUE /\ UNCHANGED <<sent, got>>

Next == Send \/ Deliver \/ End

Spec == Init /\ [][Next]_vars
===============================================================================
