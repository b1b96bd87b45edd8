---------------------------- MODULE FileReplace ----------------------------
(***************************************************************************)
(* What install_file_copy promises: a call replaces the destination by a   *)
(* copy of the source, with the wanted mode and owner, in one step and     *)
(* completely, or it changes no file at all.                               *)
(***************************************************************************)
EXTENDS InstallFS

CONSTANT Jobs   \* the arguments of the calls

VARIABLES files,   \* the destinations that have a temporary name
          job,     \* the arguments of the call
          status   \* "running", or how the last call ended

rvars == <<files, job, status>>

Replacement == File(files[job.src].data, job.mode, job.uid)

RInit == files \in [Short -> Nodes] /\ job \in Jobs /\ status = "ok"

RCall ==
  /\ status # "running" /\ status' = "running"
  /\ job' \in Jobs
  /\ UNCHANGED files

RSucceed ==
  /\ status = "running" /\ status' = "ok"
  /\ files' = IF job.dst \in Short
              THEN [files EXCEPT ![job.dst] = Replacement] ELSE files
  /\ UNCHANGED job

\* The call reports an error, or the process dies.
RFail ==
  /\ status = "running" /\ status' \in {"error", "killed"}
  /\ UNCHANGED <<files, job>>

RSpec == RInit /\ [][RCall \/ RSucceed \/ RFail]_rvars
============================================================================
