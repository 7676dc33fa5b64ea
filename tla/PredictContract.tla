-------------------------- MODULE PredictContract --------------------------
(***************************************************************************)
(* What POST /models/{id}/predict promises each of its clients:            *)
(*                                                                         *)
(*   - a request is answered at most once, by one of the answers that what *)
(*     it asked allows;                                                    *)
(*   - what that is depends on nothing else: not on other requests, not on *)
(*     what was asked before.                                              *)
(*                                                                         *)
(* No tasks, no stages, no exceptions: PredictApi implements this.         *)
(***************************************************************************)
EXTENDS Sequences

CONSTANTS Request,        \* requests clients send
          Question,       \* what one may ask
          Answers(_)      \* Answers(q): what it may be told

VARIABLE exchange         \* of each request: nothing, its question, or both

CInit == exchange = [r \in Request |-> << >>]

Ask(r) == /\ exchange[r] = << >>
          /\ \E q \in Question : exchange' = [exchange EXCEPT ![r] = <<q>>]

Tell(r) == \E q \in Question :
              /\ exchange[r] = <<q>>
              /\ \E a \in Answers(q) : exchange' = [exchange EXCEPT ![r] = <<q, a>>]

CNext == \E r \in Request : Ask(r) \/ Tell(r)

CSpec == CInit /\ [][CNext]_exchange
=============================================================================
