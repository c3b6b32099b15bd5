--------------------------- MODULE ProcessOutcome ---------------------------
(***************************************************************************)
(* What kdiag.runner.run_process hands back: the ProcessResult record and  *)
(* the status ProcessResult.record derives from it.  Runner shows that     *)
(* every result of the process loop is a member of Outcomes; the modules   *)
(* that call run_process take their results from there.                    *)
(***************************************************************************)
EXTENDS Naturals

\* Exit codes the callers tell apart: success, the 255 of ssh and scp, others.
ExitCodes == {"zero", "ssh_error", "other"}

\* "none": Popen raised, there is no return code and error is set.
\* "signal": the process died of SIGTERM or SIGKILL (a negative return code).
ReturnCodes == ExitCodes \cup {"none", "signal"}

Outcomes ==
  { r \in [returncode : ReturnCodes, timedOut : BOOLEAN, truncated : BOOLEAN] :
      r.returncode = "none" => ~r.timedOut /\ ~r.truncated }

\* ProcessResult.record.  error is set exactly when returncode is None, so the
\* "error" status of the second branch has no outcome.
Status(r) ==
  IF r.returncode = "none" THEN "unsupported"
  ELSE IF r.timedOut THEN "timeout"
  ELSE IF r.truncated THEN "truncated"
  ELSE IF r.returncode = "zero" THEN "collected"
  ELSE "failed"
=============================================================================
