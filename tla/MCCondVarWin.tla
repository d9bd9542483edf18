---------------------------- MODULE MCCondVarWin ----------------------------
(* Small instances of CondVarWin. *)
EXTENDS CondVarWin

Config(waitable, all, max, w, s) ==
  [waitable |-> waitable, signal |-> TRUE, all |-> all, max |-> max, waits |-> w,
   signals |-> s]

\* Handles that can be waited for, and Signal alone; and the handles of the code,
\* with both calls.
BothHandles == {Config(TRUE, FALSE, 4, 3, 3), Config(FALSE, TRUE, 2, 3, 2)}
CodeHandles == {Config(FALSE, TRUE, 4, 2, 1)}
WaitableAll == {Config(TRUE, TRUE, 4, 2, 1)}
=============================================================================
