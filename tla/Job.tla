---------------------------------- MODULE Job ----------------------------------
(***************************************************************************)
(* One call of a function that keeps no state: its arguments are chosen,   *)
(* then it returns.  The modules of pure functions extend this one; each   *)
(* says which calls it answers and with what.                              *)
(***************************************************************************)
VARIABLES
  job,     \* the call: a record with the function's name in 'fn'
  answer   \* <<>> until it returns, then <<its result>>

jobVars == <<job, answer>>

NoJob == job = [fn |-> "none"] /\ answer = <<>>

Asked(j)     == job = j /\ answer = <<>>
Return(f, r) == job.fn = f /\ answer = <<>> /\ answer' = <<r>> /\ UNCHANGED job

\* the call of one of these functions has returned
Returned(fs) == job.fn \in fs /\ answer # <<>>
=============================================================================
