----------------------------- MODULE MCAgentRuns -----------------------------
(***************************************************************************)
(* A finite instance of AgentRuns for TLC: one run of the scheduler and    *)
(* one "run now" of the same agent.                                        *)
(***************************************************************************)
EXTENDS AgentRuns

CONSTANTS cron, now

TwoRuns == {cron, now}
TheScheduled == {cron}

=============================================================================
