----------------------------- MODULE AsyncCalls -----------------------------
(***************************************************************************)
(* What a caller of Firebase Auth may rely on when it passes a completion  *)
(* block, to verifyPhoneNumber:UIDelegate:completion: of                   *)
(* FIRPhoneAuthProvider or getTokenForcingRefresh:withCallback: of FIRAuth *)
(* for instance: a call is answered through its block exactly once, unless *)
(* the process is killed first, and then it is never answered.             *)
(***************************************************************************)
CONSTANT Calls

VARIABLES waiting,    \* calls whose completion block has not run
          answered,   \* calls whose completion block has run
          abandoned   \* calls that were waiting when the process was killed

vars == <<waiting, answered, abandoned>>

Init == waiting = {} /\ answered = {} /\ abandoned = {}

Call(c) ==
  /\ c \notin waiting \cup answered \cup abandoned
  /\ waiting' = waiting \cup {c}
  /\ UNCHANGED <<answered, abandoned>>

Answer(c) ==
  /\ c \in waiting
  /\ waiting' = waiting \ {c}
  /\ answered' = answered \cup {c}
  /\ UNCHANGED abandoned

Kill ==
  /\ abandoned' = abandoned \cup waiting
  /\ waiting' = {}
  /\ UNCHANGED answered

Next == Kill \/ \E c \in Calls : Call(c) \/ Answer(c)

Spec == Init /\ [][Next]_vars
=============================================================================
