---------------------------- MODULE ResolverTwice ----------------------------
(***************************************************************************)
(* Two Solve calls on the same Input, one after the other.  They differ    *)
(* only in the order in which decide's map iterations visit the requires   *)
(* of a version.                                                           *)
(***************************************************************************)
EXTENDS Resolver

VARIABLES ics2, assignments2, level2, cur2, queue2, seen2, conflict2, listed2, pc2

second == <<ics2, assignments2, level2, cur2, queue2, seen2, conflict2, listed2, pc2>>

Second == INSTANCE Resolver
            WITH ics <- ics2, assignments <- assignments2, level <- level2, cur <- cur2,
                 queue <- queue2, seen <- seen2, conflict <- conflict2,
                 listed <- listed2, pc <- pc2

Returned == {"solved", "conflict", "error"}

TwiceInit == Init /\ Second!Init

FirstCall == Next /\ UNCHANGED second
SecondCall == pc \in Returned /\ Second!Next /\ UNCHANGED vars

TwiceNext == FirstCall \/ SecondCall

TwiceSpec == TwiceInit /\ [][TwiceNext]_<<vars, second>>

\* The same Input resolves to the same packages at the same versions, or fails
\* both times, unless the registry failed one of the calls.
SameOutcome ==
  pc \in {"solved", "conflict"} /\ pc2 \in {"solved", "conflict"} =>
    /\ pc = pc2
    /\ pc = "solved" => Solution = Second!Solution
==============================================================================
