--------------------------- MODULE MCLocalExec ---------------------------
EXTENDS LocalExec

CONSTANTS r1, r2

MCReaders == {r1, r2}

MCPolicy(b, f, r) == [onBlocker |-> b, onFailure |-> f, retry |-> r]

\* The plan alone under three policies, the plan next to a submission into its
\* run, and a submitted task whose report two callers read at once.
MCScenarios ==
    { <<MCPolicy(TRUE, TRUE, TRUE), {"RunPlan"}>>,
      <<MCPolicy(FALSE, FALSE, TRUE), {"RunPlan"}>>,
      <<MCPolicy(FALSE, TRUE, FALSE), {"RunPlan"}>>,
      <<MCPolicy(TRUE, TRUE, FALSE), {"RunPlan", "Submit", r1}>>,
      <<MCPolicy(TRUE, TRUE, FALSE), {"Submit", r1, r2}>> }

\* One success, one failure that is retried, one that is not, and a gate.
MCOutcomes == {"completed", "failed_adapter", "failed_validation", "needs_approval"}
==========================================================================
