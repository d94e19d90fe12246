--------------------------- MODULE AtomicPromotion ---------------------------
(***************************************************************************)
(* What process_product promises of the registry, generated and quality    *)
(* directories: a run replaces all of them at once, or none, as long as no *)
(* process dies in the middle of one.                                      *)
(***************************************************************************)
EXTENDS Naturals

CONSTANTS
  N,         \* number of directories; the first is the registry
  Others,    \* registry records of other products
  Inputs,    \* source manifests a run may process
  NoInput

VARIABLES
  published,   \* the content of each directory
  died         \* a process died while it worked on them

\* A directory holds the other products' records (the registry only) and what
\* was made from one input.
Content == [others : SUBSET Others, made : Inputs \cup {NoInput}]

Initially == [s \in 1..N |-> [others |-> IF s = 1 THEN Others ELSE {}, made |-> NoInput]]

\* The candidate registry is the old one with this product's records replaced;
\* the candidates of the other directories are made from nothing but the input.
Updated(old, i) ==
  [s \in 1..N |-> [others |-> IF s = 1 THEN old.others ELSE {}, made |-> i]]

Init == published = Initially /\ died = FALSE

Promote(i) == ~died /\ published' = Updated(published[1], i) /\ UNCHANGED died

\* From here on nothing is promised.
Die == died' = TRUE

Next == (\E i \in Inputs : Promote(i)) \/ Die

Spec == Init /\ [][Next]_<<published, died>>
==============================================================================
