----------------------------- MODULE KernelCalls -----------------------------
(***************************************************************************)
(* What XLA's generated code relies on when it calls a kernel of the       *)
(* kernel selector: the call returns, and when it does the output is what  *)
(* the sequential kernel of the same shape leaves there, for good.         *)
(***************************************************************************)
CONSTANTS
  Calls,
  Sequential(_)  \* the output of the sequential kernel, for the arguments of a call

VARIABLES
  call,      \* the arguments of each call
  returned,  \* the calls that have returned
  output     \* the output buffer of each of these, NoOutput of the others

callVars == <<call, returned, output>>

NoOutput == <<>>

CallsInit == returned = {} /\ output = [c \in Calls |-> NoOutput]

Return(c) ==
  /\ c \notin returned
  /\ returned' = returned \cup {c}
  /\ output' = [output EXCEPT ![c] = Sequential(call[c])]
  /\ UNCHANGED call

CallsSpec ==
  /\ CallsInit
  /\ [][\E c \in Calls : Return(c)]_callVars
=============================================================================
