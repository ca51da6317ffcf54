---------------------------- MODULE RevisionLog ----------------------------
(***************************************************************************)
(* What the proposal store promises about edit history, with nothing said  *)
(* about transactions, retries or requests in flight: each proposal has an *)
(* append-only log of the states it went through, and the head a reader    *)
(* sees is the last entry of that log.                                     *)
(***************************************************************************)
EXTENDS Naturals, Sequences

CONSTANTS Pids,     \* proposal identifiers
          States    \* the payloads a proposal may carry

VARIABLES log,      \* log[p]: the revisions of p, oldest first; <<>> if p does not exist
          head      \* head[p]: the sequence holding p's current state, <<>> if none

vars == <<log, head>>

Init == /\ log  = [p \in Pids |-> <<>>]
        /\ head = [p \in Pids |-> <<>>]

\* A proposal is opened with its first revision, or an open one is edited: in
\* both cases one state joins the end of the log and becomes the head.
Record(p, s) ==
    /\ log'  = [log EXCEPT ![p] = Append(@, s)]
    /\ head' = [head EXCEPT ![p] = <<s>>]

Next == \E p \in Pids, s \in States : Record(p, s)

Spec == Init /\ [][Next]_vars
=============================================================================
