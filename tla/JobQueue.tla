------------------------------ MODULE JobQueue ------------------------------
(***************************************************************************)
(* What the request queue promises to those who insert requests, with      *)
(* everything about tables, processes and the daemon left out: a job is    *)
(* submitted once with the jobs it comes after, it starts only when those  *)
(* are over, and a job that is over stays over.                            *)
(***************************************************************************)
CONSTANT Jobs

VARIABLES
    job,  \* job[j]: where job j is in its life
    dep   \* dep[j]: the jobs that j was submitted to come after

JobState == {"new", "pending", "running", "over"}

Init ==
  /\ job = [j \in Jobs |-> "new"]
  /\ dep = [j \in Jobs |-> {}]

MayStart(j) == \A d \in dep[j] : job[d] = "over"

\* One step of the life of job j.  A running job may be put back, and told then to
\* come after other jobs.
Progress(j) ==
  \/ job'[j] = job[j] /\ (job[j] # "new" => dep'[j] = dep[j])
  \/ job[j] = "new" /\ job'[j] \in {"pending", "over"}
  \/ job[j] = "running" /\ job'[j] \in {"pending", "over"}
  \/ dep'[j] = dep[j] /\ \/ job[j] = "pending" /\ job'[j] = "running" /\ MayStart(j)
                         \/ job[j] = "pending" /\ job'[j] = "over"

\* Several jobs may move at once: a restart ends all that were running.
Next ==
  /\ job' \in [Jobs -> JobState]
  /\ dep' \in [Jobs -> SUBSET Jobs]
  /\ \A j \in Jobs : Progress(j)

Spec == Init /\ [][Next]_<<job, dep>>
=============================================================================
