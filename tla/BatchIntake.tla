---------------------------- MODULE BatchIntake ----------------------------
(***************************************************************************)
(* What the receiver promises about one sync batch, without its files,     *)
(* registries, threads or requests: genuine chunks become durable one by   *)
(* one and are never lost again; the database sees nothing of a batch      *)
(* before all of its chunks are durable; and the stages of persistence     *)
(* (funds, market snapshot, history, processed mark) are reached one at a  *)
(* time, in order, and never undone.                                       *)
(***************************************************************************)
EXTENDS Naturals

CONSTANTS Batches,   \* batch identifiers
          Chunks     \* chunk indices of a batch

VARIABLES got,       \* got[b]: the genuine chunks of b that are durable
          stage      \* stage[b]: how far b has got into the database

vars == <<got, stage>>

(* 0 nothing, 1 funds, 2 market_snapshot, 3 history, 4 received_batches.   *)
Stages == 0 .. 4

Init == /\ got = [b \in Batches |-> {}]
        /\ stage = [b \in Batches |-> 0]

Store(b, i) == /\ i \notin got[b]
               /\ got' = [got EXCEPT ![b] = @ \cup {i}]
               /\ UNCHANGED stage

Persist(b) == /\ got[b] = Chunks
              /\ stage[b] + 1 \in Stages
              /\ stage' = [stage EXCEPT ![b] = @ + 1]
              /\ UNCHANGED got

Next == \E b \in Batches : Persist(b) \/ \E i \in Chunks : Store(b, i)

Spec == Init /\ [][Next]_vars
=============================================================================
