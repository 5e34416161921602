------------------------------ MODULE MCSession ------------------------------
(* Small instances for TLC: the calls of a session and the reports of it. *)
EXTENDS GenerationCalls, Reports, TLC

CONSTANTS t1, t2, none, openai, claude

\* One task twice, or two tasks of different levels once.
MCKeys == {<<t1, none, 1>>, <<t1, none, 2>>, <<t2, none, 1>>}
MCPlans ==
  {<<<<t1, none, 1>>, <<t1, none, 2>>>>, <<<<t1, none, 1>>, <<t2, none, 1>>>>}
\* Below, at and above what _retry_delay lets pass.
MCRetryAfters == {NoSeconds, -1, 5, 1000}
MCLevel == (t1 :> "level1") @@ (t2 :> "level2")
=============================================================================
