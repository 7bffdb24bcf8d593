---------------------------- MODULE MCSearchQueue ----------------------------
(* Instances of SearchQueue.  r1 and r4 are the same search sent twice, r3  *)
(* reuses their key with another payload, r2 has a key of its own.  The     *)
(* loads say which of them take part together, and with which troubles.     *)
EXTENDS SearchQueue, TLC

CONSTANTS r1, r2, r3, r4, j1, j2, p1, p2

MCKeys   == [r \in Requests |-> IF r = r2 THEN j2 ELSE j1]
MCFps    == [r \in Requests |-> IF r = r3 THEN p2 ELSE p1]
MCClock1 == 0..1

Load(requests, faults_, crashes_, pauses_, time) ==
    [requests |-> requests, faults |-> faults_, crashes |-> crashes_, pauses |-> pauses_, time |-> time]

(* Leases that lapse while a worker stalls; one search with three of the    *)
(* four troubles; a lost reply while two requests meet under a key or at    *)
(* the ceiling; three requests.                                             *)
MCEverything ==
    {Load({r1, r4}, 0, 0, 1, 1), Load({r1, r4}, 1, 0, 0, 0),
     Load({r1}, 1, 1, 1, 0),     Load({r4}, 1, 1, 1, 0),
     Load({r1}, 1, 0, 1, 1),     Load({r4}, 1, 0, 1, 1),
     Load({r1, r2}, 1, 0, 0, 0), Load({r4, r2}, 1, 0, 0, 0),
     Load({r1, r3}, 1, 0, 0, 0), Load({r4, r3}, 1, 0, 0, 0),
     Load({r1, r2, r3}, 0, 0, 0, 0), Load({r4, r2, r3}, 0, 0, 0, 0)}
MCCrashes    == {Load({r1, r4}, 0, 2, 0, 0)}
MCStall      == {Load({r1, r4}, 0, 0, 1, 0)}
MCLapse      == {Load({r1, r4}, 0, 0, 2, 1)}

(* Nothing but its name tells r4 from r1. *)
MCSymmetry == Permutations(Workers) \cup Permutations({r1, r4})
=============================================================================
