--------------------------- MODULE SharedDocument ----------------------------
(***************************************************************************)
(* What the control-plane store promises the fleet: one document that      *)
(* every edit extends, in one order for all nodes, and copies of it that   *)
(* nodes serve from.  ControlPlane.tla implements it with a conditional    *)
(* write, retries and a cache.                                             *)
(***************************************************************************)
EXTENDS Sequences, Naturals

CONSTANTS Nodes, Edits

VARIABLES
  log,   \* the edits the document is made of, in order
  view,  \* how many of them the copy of each node reflects
  acked  \* the edits whose operator was told they were made

dvars == <<log, view, acked>>

DocumentInit ==
  /\ log = << >>
  /\ view = [n \in Nodes |-> 0]
  /\ acked = {}

\* An edit is made on the document as it is, or not at all.
Extend ==
  /\ \E e \in Edits : log' = Append(log, e)
  /\ UNCHANGED <<view, acked>>

\* A node takes up a document that was current at some time.
Look(n) ==
  /\ \E v \in 0 .. Len(log) : view' = [view EXCEPT ![n] = v]
  /\ UNCHANGED log

\* Only an edit that is in the document is acknowledged, and by the node
\* whose copy then holds it.
Acknowledge(n) ==
  \E i \in 1 .. Len(log) :
    /\ acked' = acked \cup {log[i]}
    /\ view' = [view EXCEPT ![n] = i]
    /\ UNCHANGED log

DocumentNext ==
  \/ Extend
  \/ \E n \in Nodes : (Look(n) /\ UNCHANGED acked) \/ Acknowledge(n)

DocumentSpec == DocumentInit /\ [][DocumentNext]_dvars
=============================================================================
