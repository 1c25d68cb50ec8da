--------------------------- MODULE ExclusiveRuns ---------------------------
(***************************************************************************)
(* What the pipeline promises about the runs of an application, whatever   *)
(* the requests, the cancellations and the restarts of the server: at most *)
(* one run at a time may touch the application's hosts, a run is recorded  *)
(* once as running and never returns to it after it has ended, and a run   *)
(* identifier is never used twice.                                         *)
(***************************************************************************)
CONSTANTS Apps, Runs

VARIABLES
    holder,   \* per application, the runs that may touch its hosts
    record    \* per run, what its row says: "none", "running" or "ended"

absVars == <<holder, record>>

AbsInit ==
    /\ holder = [a \in Apps |-> {}]
    /\ record = [r \in Runs |-> "none"]

\* A run of a starts: nobody else holds a.
Start(a, r) ==
    /\ holder[a] = {}
    /\ record[r] = "none"
    /\ holder' = [holder EXCEPT ![a] = {r}]
    /\ record' = [record EXCEPT ![r] = "running"]

\* The row of a run is closed, by the run or by a cancellation.
End(r) ==
    /\ record[r] = "running"
    /\ record' = [record EXCEPT ![r] = "ended"]
    /\ UNCHANGED holder

\* The run lets go of its application.
LetGo(a, r) ==
    /\ holder[a] = {r}
    /\ holder' = [holder EXCEPT ![a] = {}]
    /\ UNCHANGED record

\* The server stops: nobody holds anything, the rows stay as they are.
LoseAll ==
    /\ holder' = [a \in Apps |-> {}]
    /\ UNCHANGED record

AbsNext ==
    \/ \E a \in Apps, r \in Runs : Start(a, r) \/ LetGo(a, r)
    \/ \E r \in Runs : End(r)
    \/ LoseAll

AbsSpec == AbsInit /\ [][AbsNext]_absVars
============================================================================
