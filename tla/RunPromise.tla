----------------------------- MODULE RunPromise -----------------------------
(***************************************************************************)
(* What a run of the collection runner promises its user, whatever the     *)
(* requests, their scripts and the stop buttons do.                        *)
(*                                                                         *)
(* A run has a flow, then its cleanup, then it is closed; only a run whose *)
(* flow never began may be refused.  Its verdict can turn red while the    *)
(* flow runs and is settled when cleanup begins.  Cleanup settles the      *)
(* teardown requests in order, each once; it may give up those left only   *)
(* after a hard stop, and then remembers that it did.                      *)
(***************************************************************************)
EXTENDS Integers

CONSTANT N  \* the number of teardown requests

VARIABLES
    stage,    \* idle, flow, cleanup or closed
    red,      \* the verdict
    hard,     \* the user asked for cleanup to be abandoned
    settled,  \* the teardown requests that have a row
    skipped   \* some of the cleanup was given up

pvars == <<stage, red, hard, settled, skipped>>

PInit == /\ stage = "idle" /\ red = FALSE /\ hard = FALSE
         /\ settled = {} /\ skipped = FALSE

Refuse == /\ stage = "idle" /\ stage' = "closed"
          /\ UNCHANGED <<red, hard, settled, skipped>>

BeginFlow == /\ stage = "idle" /\ stage' = "flow"
             /\ UNCHANGED <<red, hard, settled, skipped>>

(* A verdict only ever turns from green to red.                            *)
FlowStep == /\ stage = "flow"
            /\ red' \in {red, TRUE}
            /\ stage' \in {"flow", "cleanup"}
            /\ UNCHANGED <<hard, settled, skipped>>

Settle == /\ stage = "cleanup"
          /\ \E i \in 1..N : settled = 1..(i - 1) /\ settled' = 1..i
          /\ UNCHANGED <<stage, red, hard, skipped>>

Abandon == /\ stage = "cleanup" /\ hard
           /\ settled' = 1..N /\ skipped' = TRUE
           /\ UNCHANGED <<stage, red, hard>>

PClose == /\ stage = "cleanup" /\ settled = 1..N
          /\ stage' = "closed"
          /\ UNCHANGED <<red, hard, settled, skipped>>

HardStop == /\ stage # "closed" /\ hard' = TRUE
            /\ UNCHANGED <<stage, red, settled, skipped>>

PNext == Refuse \/ BeginFlow \/ FlowStep \/ Settle \/ Abandon \/ PClose
         \/ HardStop

PSpec == PInit /\ [][PNext]_pvars

=============================================================================
