----------------------------- MODULE MCPipeline -----------------------------
(***************************************************************************)
(* A small instance of process_product.  What it decides: two products and *)
(* a third that wants the key of the first, two locators, dictionaries     *)
(* that add and drop columns.  How it leaves that on disk: the promotion   *)
(* of a product that passed and the reports of one that failed.  Decisions *)
(* are over the registries of main and of branches, the other two over the *)
(* directories of one clone: they share no state, so a behaviour is about  *)
(* one of the three and the others stay where they began.                  *)
(***************************************************************************)
EXTENDS Registry, Promotion, QualityWriter, TLC

CONSTANTS
  p1, p2, p3, k1, k2, l1, l2, t1, t2, c1, c2, cs, n1, n2,
  root, product1, product2, quality, made      \* the directories of the path to the reports

Col(cols) == [cols |-> cols, id |-> AutoId, version |-> NoVersion, base |-> NoVersion]

One  == [l \in {l1} |-> Col({c1})]
Wide == [l \in {l1} |-> Col({c1, c2})]
Both == [l \in {l1, l2} |-> Col({c1})]
\* l2 under the id of whatever table is first.
Moved == [l \in {l2} |-> [Col({c2}) EXCEPT !.id = t1]]
Pinned == [l \in {l1} |-> [Col({c1}) EXCEPT !.id = t2, !.version = 1]]

\* One table id for two locators.
Twice == [l \in {l1, l2} |-> [Col({c1}) EXCEPT !.id = t1]]

Ask(p, key, op, v, ts, c) ==
  [product |-> p, key |-> key, op |-> op, version |-> v, tables |-> ts, changeset |-> c]

MCRequests ==
  {Ask(p1, k1, "create", 1, ts, NoChangeset) : ts \in {Wide, Both}}
  \cup {Ask(p2, k2, "create", 1, ts, NoChangeset) : ts \in {One, Moved, Pinned, Twice}}
  \cup {Ask(p3, k1, "create", 1, One, NoChangeset)}
  \cup {Ask(p1, k1, "update", 2, One, c) : c \in {NoChangeset, cs}}
  \cup {Ask(p2, k2, "update", 2, Wide, cs)}

MCDefinitions == {[tables |-> {t1}, products |-> {p1, p2}], [tables |-> {t1, t2}, products |-> {p1}]}

AnyPR == Permutations(PRs)

MCLevel == root :> 0 @@ product1 :> 1 @@ product2 :> 1 @@ quality :> 2 @@ made :> 2

VARIABLE about
pipelineVars == <<about, vars, promotionVars, writerVars>>

PipelineInit ==
  /\ Init /\ PromotionInit /\ WriterInit
  /\ about \in {"registry", "promotion", "reports"}
  /\ about # "promotion" => input = CHOOSE i \in Inputs : TRUE
  \* product1 and product2 are alike, and an empty quality/ is like one just made.
  /\ child[root] = product1 /\ files[quality] = [n \in Names |-> "old"]
  \* A report of its own, with the diagnostics or with the repair record, over all of them.
  /\ writer.extras \in {{}, Diagnostics, {Repair}}
  /\ about # "reports" => ~writer.capable /\ writer.extras = {} /\ child[product1] = quality

PipelineNext ==
  /\ UNCHANGED about
  /\ \/ about = "registry" /\ Next /\ UNCHANGED <<promotionVars, writerVars>>
     \/ about = "promotion" /\ PromotionNext /\ UNCHANGED <<vars, writerVars>>
     \/ about = "reports" /\ WriterNext /\ UNCHANGED <<vars, promotionVars>>

PipelineSpec == PipelineInit /\ [][PipelineNext]_pipelineVars
=============================================================================
