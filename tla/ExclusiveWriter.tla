-------------------------- MODULE ExclusiveWriter ---------------------------
(***************************************************************************)
(* What a runtime lease promises its users, without clocks, rows, threads  *)
(* or failures: there is at most one client that may write, it is the      *)
(* holder, and the role changes hands only while nobody may write.         *)
(***************************************************************************)
CONSTANTS Clients, Nobody
VARIABLES holder, writers

Init == holder = Nobody /\ writers = {}

\* A client becomes the holder, confirmed or not yet.
Take(c) == writers = {} /\ holder' = c /\ writers' \in {{}, {c}}

\* The holder learns that it still holds the role.
Confirm(c) == holder = c /\ holder' = c /\ writers' = {c}

\* A confirmation runs out or is given up.
Lapse == writers' = {} /\ holder' = holder

\* The role is given up, or taken away from a holder that may not write.
Vacate == writers = {} /\ holder' = Nobody /\ writers' = {}

Next == (\E c \in Clients : Take(c) \/ Confirm(c)) \/ Lapse \/ Vacate

Spec == Init /\ [][Next]_<<holder, writers>>
=============================================================================
