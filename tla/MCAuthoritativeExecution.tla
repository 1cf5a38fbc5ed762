---------------------- MODULE MCAuthoritativeExecution ----------------------
(* Instances of the execution of one message; threads are interchangeable  *)
(* but generations are not, so no symmetry is declared.                    *)
EXTENDS AuthoritativeExecution

\* Without a context reanalysis nothing reads the context's variables: states
\* that differ only there have the same future.
NoContext == <<decVars, attVars, venue, jobVars, accepting, pc, local, budgets>>
=============================================================================
