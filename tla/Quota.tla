------------------------------- MODULE Quota --------------------------------
(***************************************************************************)
(* What the API allows (app/lowball/api/ratelimit.py, COFLNET_WINDOWS):    *)
(* so many requests in any span of time, for several spans at once. How a  *)
(* client that keeps to it decides when to send is no concern of this      *)
(* module.                                                                 *)
(***************************************************************************)
EXTENDS Integers, Sequences

CONSTANTS
    Windows,  \* the windows that are enforced together
    Limit,    \* the requests each allows
    Span      \* in this span of time

VARIABLES
    now,      \* the clock
    sent      \* when the requests were sent, in order

\* The request that would be one too many, if sent now, left each window behind.
HasRoom == \A w \in Windows :
    Len(sent) >= Limit[w] => sent[Len(sent) + 1 - Limit[w]] + Span[w] <= now

Init == now = 0 /\ sent = <<>>

Send == HasRoom /\ sent' = Append(sent, now) /\ UNCHANGED now
Pass == now' \in Nat /\ now' > now /\ UNCHANGED sent

Spec == Init /\ [][Send \/ Pass]_<<now, sent>>

=============================================================================
