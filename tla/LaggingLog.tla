----------------------------- MODULE LaggingLog -----------------------------
(***************************************************************************)
(* What the event path promises when its broadcast ring is shorter than    *)
(* its replay buffer: the bounded log, except that its reader may pass     *)
(* over events which a whole ring of later ones has followed.              *)
(***************************************************************************)
EXTENDS EventLog

CONSTANT Ring       \* later events after which an unread one may be lost

\* The gateway reads an event beyond the next one.
Skip ==
  /\ delivered' \in (delivered + 2) .. (appended - Ring + 1)
  /\ UNCHANGED <<appended, released>>

LaggingNext == Next \/ Skip

LaggingSpec == Init /\ [][LaggingNext]_vars
=============================================================================
