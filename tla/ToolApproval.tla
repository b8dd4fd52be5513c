------------------------------ MODULE ToolApproval ------------------------------
(***************************************************************************)
(* What the tool-call confirmation promises, without pauses, carriers or   *)
(* checkpoints: an agent proposes calls, a policy holds some of them back, *)
(* a user is asked about held calls and allows some of those, and a held   *)
(* call is executed only when it was allowed.                              *)
(***************************************************************************)
CONSTANT Calls

VARIABLES
    proposed,  \* calls some AI message asked for
    held,      \* calls the policy holds back
    asked,     \* calls a user was shown with Allow and Deny
    granted,   \* calls a user allowed
    done       \* calls that were executed

vars == <<proposed, held, asked, granted, done>>

Init ==
    /\ proposed = {} /\ held = {} /\ asked = {} /\ granted = {} /\ done = {}

Propose(new, risky) ==
    /\ new \cap proposed = {}
    /\ risky \subseteq new
    /\ proposed' = proposed \cup new
    /\ held' = held \cup risky
    /\ UNCHANGED <<asked, granted, done>>

Ask(shown) ==
    /\ shown \subseteq held
    /\ asked' = asked \cup shown
    /\ UNCHANGED <<proposed, held, granted, done>>

Grant(allowed) ==
    /\ allowed \subseteq asked
    /\ granted' = granted \cup allowed
    /\ UNCHANGED <<proposed, held, asked, done>>

Execute(c) ==
    /\ c \in proposed
    /\ c \in held => c \in granted
    /\ done' = done \cup {c}
    /\ UNCHANGED <<proposed, held, asked, granted>>

Next ==
    \/ \E new, risky \in SUBSET Calls : Propose(new, risky)
    \/ \E shown \in SUBSET Calls : Ask(shown)
    \/ \E allowed \in SUBSET Calls : Grant(allowed)
    \/ \E c \in Calls : Execute(c)

Spec == Init /\ [][Next]_vars

-----------------------------------------------------------------------------
\* The promise: every executed call was proposed, and a held one was asked about
\* and granted.  It is inductive, because a proposed call is new and therefore not
\* yet executed.
Approved ==
    /\ done \subseteq proposed
    /\ done \cap held \subseteq granted
    /\ granted \subseteq asked
    /\ asked \subseteq held
    /\ held \subseteq proposed
=================================================================================
