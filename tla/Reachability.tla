---------------------------- MODULE Reachability ----------------------------
(***************************************************************************)
(* WaitForNodeReachability (pkg/nodes/nodes.go): it pings a node until it  *)
(* is found as expected or the timeout is over, which is looked at between *)
(* pings only.  A ping may take up to PingTimeout, then it is killed and   *)
(* counts as unanswered.                                                   *)
(***************************************************************************)
EXTENDS Integers

CONSTANTS
    Timeouts,       \* the timeouts callers may give, zero and less included
    PingTimeout     \* 20 s in the code

ASSUME TimesAssumption == Timeouts \subseteq Int /\ PingTimeout \in Nat

VARIABLES
    timeout, expectedReachabilityStatus,    \* the arguments
    now,                                    \* time since the call
    isCurrentlyReachable,
    reachable,                              \* the node answers
    pings,                                  \* history: pings were sent
    waitPc                                  \* "loop", "sleep" or "returned"

arguments == <<timeout, expectedReachabilityStatus>>
waitVars == <<arguments, now, isCurrentlyReachable, reachable, pings, waitPc>>

WaitInit ==
    /\ timeout \in Timeouts
    /\ expectedReachabilityStatus \in BOOLEAN
    /\ now = 0
    /\ isCurrentlyReachable = FALSE
    /\ reachable \in BOOLEAN
    /\ pings = FALSE
    /\ waitPc = "loop"

NodeChanges ==
    /\ waitPc # "returned"
    /\ reachable' = ~ reachable
    /\ UNCHANGED <<arguments, now, isCurrentlyReachable, pings, waitPc>>

\* A ping that finds the node as expected ends the loop.
Found(answered) ==
    waitPc' = IF answered = expectedReachabilityStatus THEN "returned" ELSE "sleep"

\* A mutant: nothing stops a ping.
IsNodeReachableUntimed ==
    /\ waitPc = "loop" /\ now < timeout
    /\ \E duration \in 0 .. 2 * PingTimeout :
          /\ now' = now + duration
          /\ isCurrentlyReachable' = reachable
          /\ Found(reachable)
    /\ pings' = TRUE
    /\ UNCHANGED <<arguments, reachable>>

\* IsNodeReachable: a node that answers may fail to do so in time.
IsNodeReachable ==
    /\ waitPc = "loop" /\ now < timeout
    /\ \E duration \in 0 .. PingTimeout :
          /\ now' = now + duration
          /\ isCurrentlyReachable' \in IF duration < PingTimeout THEN {reachable} ELSE {FALSE}
          /\ Found(isCurrentlyReachable')
    /\ pings' = TRUE
    /\ UNCHANGED <<arguments, reachable>>

Sleep ==
    /\ waitPc = "sleep"
    /\ now' = now + 1
    /\ waitPc' = "loop"
    /\ UNCHANGED <<arguments, isCurrentlyReachable, reachable, pings>>

\* A mutant: the timeout ends the call only if the node was found.
TimeOutFound ==
    /\ waitPc = "loop" /\ now >= timeout
    /\ isCurrentlyReachable = expectedReachabilityStatus
    /\ waitPc' = "returned"
    /\ UNCHANGED <<arguments, now, isCurrentlyReachable, reachable, pings>>

TimeOut ==
    /\ waitPc = "loop" /\ now >= timeout
    /\ waitPc' = "returned"
    /\ UNCHANGED <<arguments, now, isCurrentlyReachable, reachable, pings>>

WaitNext == NodeChanges \/ IsNodeReachable \/ Sleep \/ TimeOut

WaitSpec == WaitInit /\ [][WaitNext]_waitVars

\* The call runs on; a node may change at any time.
FairWaitSpec ==
    /\ WaitSpec
    /\ WF_waitVars(IsNodeReachable) /\ WF_waitVars(Sleep) /\ WF_waitVars(TimeOut)

----------------------------------------------------------------------------
(***************************************************************************)
(* Properties.                                                             *)
(***************************************************************************)
Max0(t) == IF t < 0 THEN 0 ELSE t

(* The call outlasts its timeout by one ping and one second at most, and a *)
(* call that returns before its timeout has seen the node as expected.     *)
WaitBounded ==
    /\ now <= Max0(timeout) + PingTimeout + 1
    /\ waitPc = "returned" /\ now < timeout =>
          pings /\ isCurrentlyReachable = expectedReachabilityStatus

(* Every call returns, though the node comes and goes.                     *)
WaitReturns == <>(waitPc = "returned")
=============================================================================
