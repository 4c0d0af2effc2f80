--------------------------- MODULE RequestService ---------------------------
(***************************************************************************)
(* What the Bybit worker promises the rest of the program: a caller asks   *)
(* for an operation and gets exactly one answer; operations are carried    *)
(* out one at a time, each at most once; an answer that says what became   *)
(* of the operation is true.  Only "unknown" (a timeout or a cancellation) *)
(* leaves it open: the operation may have happened, be under way, or still *)
(* happen.                                                                 *)
(*                                                                         *)
(* A request is an identity that is used again once nothing is left of its *)
(* last use.                                                               *)
(***************************************************************************)
CONSTANT Request

VARIABLES answer,  \* what the caller of each request knows
          effect   \* what became of the operation itself

vars == <<answer, effect>>

Answer == {"none", "asked", "result", "error", "unknown", "refused"}
Effect == {"none", "running", "result", "error"}

TypeOK ==
  /\ answer \in [Request -> Answer]
  /\ effect \in [Request -> Effect]

Init ==
  /\ answer = [r \in Request |-> "none"]
  /\ effect = [r \in Request |-> "none"]

\* A new request, or a new use of an identity.
Ask(r) ==
  /\ answer[r] # "asked" /\ effect[r] # "running"
  /\ answer' = [answer EXCEPT ![r] = "asked"]
  /\ effect' = [effect EXCEPT ![r] = "none"]

\* A refused request has no effect, ever.
Refuse(r) ==
  /\ answer[r] \in {"none", "asked"}
  /\ effect[r] = "none"
  /\ answer' = [answer EXCEPT ![r] = "refused"]
  /\ UNCHANGED effect

\* One operation at a time, and none that nobody asked for.
Begin(r) ==
  /\ answer[r] \in {"asked", "unknown"}
  /\ effect[r] = "none"
  /\ \A q \in Request : effect[q] # "running"
  /\ effect' = [effect EXCEPT ![r] = "running"]
  /\ UNCHANGED answer

End(r) ==
  /\ effect[r] = "running"
  /\ \E e \in {"result", "error"} : effect' = [effect EXCEPT ![r] = e]
  /\ UNCHANGED answer

\* The answer is the operation's own outcome, or that it is not known.
Reply(r) ==
  /\ answer[r] = "asked"
  /\ \E a \in {effect[r], "unknown"} \ {"none", "running"} :
       answer' = [answer EXCEPT ![r] = a]
  /\ UNCHANGED effect

Forget(R) ==
  /\ \A r \in R : answer[r] \notin {"none", "asked"} /\ effect[r] # "running"
  /\ answer' = [r \in Request |-> IF r \in R THEN "none" ELSE answer[r]]
  /\ effect' = [r \in Request |-> IF r \in R THEN "none" ELSE effect[r]]

Next ==
  \/ \E r \in Request : Ask(r) \/ Refuse(r) \/ Begin(r) \/ End(r) \/ Reply(r)
  \/ \E R \in SUBSET Request : Forget(R)

\* Every caller is answered, whatever becomes of the operation.
Spec == Init /\ [][Next]_vars /\ \A r \in Request : WF_vars(Reply(r))

Safety == Init /\ [][Next]_vars
=============================================================================
