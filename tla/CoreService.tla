---------------------------- MODULE CoreService ----------------------------
(***************************************************************************)
(* What the engine core promises its front end: a request that was added   *)
(* gets tokens, one at a time, until it ends or is aborted, and it does    *)
(* not stay for ever.  EngineCore is shown to implement it, and AsyncLLM   *)
(* relies on nothing else of the core.                                     *)
(***************************************************************************)
EXTENDS Naturals, FiniteSets

CONSTANT Ids           \* the ids of the requests

VARIABLE core          \* [id of a live request -> number of tokens it was given]

\* EngineCore.add_request, abort_requests and step.
Accept(c) ==
    /\ c \notin DOMAIN core
    /\ core' = [d \in DOMAIN core \cup {c} |-> IF d = c THEN 0 ELSE core[d]]
Drop(C) == core' = [c \in DOMAIN core \ C |-> core[c]]
Produce(C, ended) ==
    /\ C \subseteq DOMAIN core /\ ended \subseteq C
    /\ core' = [c \in DOMAIN core \ ended |-> IF c \in C THEN core[c] + 1 ELSE core[c]]

InitCore == core = <<>>

NextCore ==
    \/ \E c \in Ids : Accept(c)
    \/ \E C \in SUBSET DOMAIN core : Drop(C) \/ \E ended \in SUBSET C : Produce(C, ended)

\* No request stays for ever.
Ends == \A c \in Ids : []<>(c \notin DOMAIN core)

SafeCore == InitCore /\ [][NextCore]_core
SpecCore == SafeCore /\ Ends
=============================================================================
