-------------------------------- MODULE StartUp --------------------------------
(***************************************************************************)
(* The start of a control plane: the upstream's host name is looked up, up *)
(* to MaxAttempts times with a pause after each failure, before anything   *)
(* is served.  The snapshot holds that address from then on.               *)
(***************************************************************************)
EXTENDS Naturals

CONSTANT
    MaxAttempts   \* lookups before the control plane gives up; 10 in the code

ASSUME StartUpAssumption == MaxAttempts \in Nat \ {0}

VARIABLES
    stage,     \* how far the start-up is
    attempt    \* the number of the lookup in progress, 1 when there is none

startVars == <<stage, attempt>>

StartUpTypeOK ==
    /\ stage \in {"lookup", "pause", "serving", "stopped"}
    /\ attempt \in 1 .. MaxAttempts

StartUpInit == stage = "lookup" /\ attempt = 1

\* An address was found, IPv4 or, for want of one, any other.
LookupFinds ==
    /\ stage = "lookup"
    /\ stage' = "serving"
    /\ attempt' = 1

\* The lookup fails, or finds no address.
LookupFails ==
    /\ stage = "lookup"
    /\ stage' = "pause"
    /\ UNCHANGED attempt

\* A failed lookup does not count as an attempt.
Pause_Uncounted ==
    /\ stage = "pause"
    /\ stage' = "lookup"
    /\ UNCHANGED attempt

\* After the pause: the next attempt, or the end of the process.
Pause ==
    /\ stage = "pause"
    /\ IF attempt < MaxAttempts
       THEN stage' = "lookup" /\ attempt' = attempt + 1
       ELSE stage' = "stopped" /\ attempt' = 1

Starting == LookupFinds \/ LookupFails \/ Pause

===============================================================================
