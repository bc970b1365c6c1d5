------------------------------ MODULE MCConnect ------------------------------
(* Clients for the runs. *)
EXTENDS Connect

Does(kind, blocks) == [kind |-> kind, blocks |-> blocks]

(* One thread that waits for what it asks for, another that aborts. *)
BlockingAndAbort == [c1 |-> {Does("procedure", TRUE)},
                     c2 |-> {Does("abort", TRUE), Does("abort", FALSE)}]
=============================================================================
