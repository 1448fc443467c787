------------------------------ MODULE EventLog ------------------------------
(***************************************************************************)
(* What the event path of a managed sidecar promises to its gateway: a     *)
(* bounded log read in order and released only as far as it has been read. *)
(***************************************************************************)
EXTENDS Integers

CONSTANT Capacity   \* events kept for a gateway that has not confirmed them

VARIABLES
  appended,         \* events appended so far
  delivered,        \* events the gateway has read: 1 .. delivered
  released          \* events the gateway has confirmed: 1 .. released

vars == <<appended, delivered, released>>

Init == appended = 0 /\ delivered = 0 /\ released = 0

\* A full log makes its writer wait; it never drops an event.
Append ==
  /\ appended - released < Capacity
  /\ appended' = appended + 1
  /\ UNCHANGED <<delivered, released>>

\* The gateway reads the next event, never one further on.
Deliver ==
  /\ delivered < appended
  /\ delivered' = delivered + 1
  /\ UNCHANGED <<appended, released>>

Release ==
  /\ released < delivered
  /\ released' \in (released + 1) .. delivered
  /\ UNCHANGED <<appended, delivered>>

Next == Append \/ Deliver \/ Release

Spec == Init /\ [][Next]_vars
=============================================================================
