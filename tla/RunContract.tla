----------------------------- MODULE RunContract -----------------------------
(***************************************************************************)
(* What the engine promises about a run, whatever happens to its process:  *)
(* the status machine a client sees, and when the run's script may be      *)
(* executing.  It says nothing of entries, sandboxes, caches or restarts;  *)
(* RunLifecycle implements it (ImplementsContract, RunLifecycleProofs).    *)
(***************************************************************************)
CONSTANT Runs

VARIABLES
    phase,      \* run -> the status the store answers
    executing   \* run -> is the run's script being executed?

cvars == <<phase, executing>>

Final == {"stopped", "completed", "failed"}
Paused == {"suspended", "interrupted"}
Phases == {"none", "queued", "running"} \cup Paused \cup Final

ContractTypeOK ==
    /\ phase \in [Runs -> Phases]
    /\ executing \in [Runs -> BOOLEAN]

CInit ==
    /\ phase = [r \in Runs |-> "none"]
    /\ executing = [r \in Runs |-> FALSE]

Become(r, p, live) ==
    /\ phase' = [phase EXCEPT ![r] = p]
    /\ executing' = [executing EXCEPT ![r] = live]

Accept(r) == phase[r] = "none" /\ Become(r, "queued", FALSE)
Launch(r) == phase[r] \in {"none", "queued"} /\ Become(r, "running", TRUE)
Reject(r) == phase[r] = "queued" /\ Become(r, "failed", FALSE)

Finish(r) ==
    /\ phase[r] = "running" /\ executing[r]
    /\ \E p \in {"completed", "failed"} : Become(r, p, FALSE)

Pause(r) == phase[r] = "running" /\ Become(r, "suspended", FALSE)
Resume(r) == phase[r] \in Paused /\ Become(r, "running", TRUE)
Halt(r) == phase[r] \in {"running"} \cup Paused /\ Become(r, "stopped", FALSE)

\* The process dies: nothing executes any more, and one run may be caught half way
\* through being accepted.
PowerLoss ==
    /\ executing' = [r \in Runs |-> FALSE]
    /\ \/ UNCHANGED phase
       \/ \E r \in Runs : phase[r] = "none" /\ phase' = [phase EXCEPT ![r] = "queued"]

\* The next process finds the runs that were executing when the last one died.
Recover ==
    /\ \A r \in Runs : ~executing[r]
    /\ phase' = [r \in Runs |-> IF phase[r] = "running" THEN "interrupted" ELSE phase[r]]
    /\ UNCHANGED executing

CNext ==
    \/ \E r \in Runs : \/ Accept(r) \/ Launch(r) \/ Reject(r) \/ Finish(r)
                       \/ Pause(r) \/ Resume(r) \/ Halt(r)
    \/ PowerLoss
    \/ Recover

CSpec == CInit /\ [][CNext]_cvars
=============================================================================
