----------------------------- MODULE ByteStream -----------------------------
(***************************************************************************)
(* What the ADB proxy promises of each stream: the client receives what    *)
(* the device wrote, in order and at most once, and a stream that ends     *)
(* well ends when the client has all of it.                                *)
(***************************************************************************)
EXTENDS Naturals

CONSTANT Flows      \* the streams

VARIABLES sent,     \* pieces the device wrote, per stream
          received, \* pieces the client has
          outcome   \* "open", "complete" or "aborted", as the client sees it

flowVars == <<sent, received, outcome>>

FlowInit ==
    /\ sent = [f \in Flows |-> 0]
    /\ received = [f \in Flows |-> 0]
    /\ outcome = [f \in Flows |-> "open"]

Send(f) ==
    /\ sent' = [sent EXCEPT ![f] = @ + 1]
    /\ UNCHANGED <<received, outcome>>

Receive(f) ==
    /\ outcome[f] = "open" /\ received[f] < sent[f]
    /\ received' = [received EXCEPT ![f] = @ + 1]
    /\ UNCHANGED <<sent, outcome>>

Complete(f) ==
    /\ outcome[f] = "open" /\ received[f] = sent[f]
    /\ outcome' = [outcome EXCEPT ![f] = "complete"]
    /\ UNCHANGED <<sent, received>>

\* The connection is gone, and with it every stream that was still open.
Abort ==
    /\ \E A \in SUBSET {f \in Flows : outcome[f] = "open"} :
          outcome' = [f \in Flows |-> IF f \in A THEN "aborted" ELSE outcome[f]]
    /\ UNCHANGED <<sent, received>>

FlowNext == Abort \/ \E f \in Flows : Send(f) \/ Receive(f) \/ Complete(f)

FlowSpec == FlowInit /\ [][FlowNext]_flowVars

=============================================================================
