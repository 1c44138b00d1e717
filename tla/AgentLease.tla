------------------------------ MODULE AgentLease ------------------------------
(***************************************************************************)
(* What agent.lock promises the runs of the code agent: one process at a   *)
(* time holds it, for one run that nobody has delegated; while it does, a  *)
(* run may join that one of the runs inside has delegated, and the lock is *)
(* free again when the last of them has left, in whatever order, or when   *)
(* the process dies.  The promise ends (void) when a process takes the     *)
(* fresh file of a live one for a dead one's.  RunLocks implements this    *)
(* with a file that is created, written, read and unlinked.                *)
(***************************************************************************)

CONSTANTS Processes, Runs, ParentOf, NoRunId, NoProcess

VARIABLES
    holder,     \* the process that holds the lock
    inside,     \* the runs it holds it for
    void        \* the promise has ended

leaseVars == <<holder, inside, void>>

LeaseInit == holder = NoProcess /\ inside = {} /\ void = FALSE

Take(p, r) ==
    /\ holder = NoProcess /\ ParentOf[r] = NoRunId
    /\ holder' = p /\ inside' = {r}

Join(r) ==
    /\ ParentOf[r] \in inside
    /\ inside' = inside \cup {r} /\ holder' = holder

Leave(r) ==
    /\ r \in inside /\ inside' = inside \ {r}
    /\ holder' = IF inside' = {} THEN NoProcess ELSE holder

Perish == holder' = NoProcess /\ inside' = {}

LeaseNext ==
    /\ ~void
    /\ \/ Perish /\ void' \in BOOLEAN
       \/ /\ void' = FALSE
          /\ \/ \E p \in Processes, r \in Runs : Take(p, r)
             \/ \E r \in Runs : Join(r) \/ Leave(r)

LeaseSpec == LeaseInit /\ [][LeaseNext]_leaseVars

===============================================================================
