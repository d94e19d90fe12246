------------------------------ MODULE Registry ------------------------------
(***************************************************************************)
(* Identity and versions of products and tables: the registry on the       *)
(* default branch, pull requests that process their own copy of it         *)
(* (process_product with Registry, identity, impact and versioning), base  *)
(* sync, and merges under strict branch protection.                        *)
(***************************************************************************)
EXTENDS Versioning, FiniteSets

CONSTANTS
  Products, Keys, Tables, Locators, Columns, Changesets,
  PRs,        \* pull requests open at a time
  Requests,   \* what a product.yaml and its dictionary may ask for
  Definitions,   \* tables and products a changeset may be created with
  AutoId,       \* no table_id in product.yaml
  NoChangeset, Absent

\* One table of a request: its columns, and its entry in product.yaml.
TableRequest ==
  [cols : SUBSET Columns, id : Tables \cup {AutoId}, version : MaybeVersion, base : MaybeVersion]

ASSUME RequestsAssumption ==
  \A r \in Requests :
    /\ r.product \in Products /\ r.key \in Keys
    /\ r.op \in {"create", "update"}
    /\ r.version \in Versions
    /\ r.changeset \in Changesets \cup {NoChangeset}
    /\ DOMAIN r.tables \subseteq Locators
    /\ \A l \in DOMAIN r.tables : r.tables[l] \in TableRequest

ASSUME DefinitionsAssumption ==
  Definitions \subseteq [tables : SUBSET Tables, products : SUBSET Products]

TableRecords ==
  [locator : Locators, version : Versions, cols : SUBSET Columns, retired : SUBSET Columns]

Mappings == SUBSET (Tables \X Versions)

\* The sources of a product: the columns of every table of its dictionary.
Sources == UNION {[D -> SUBSET Columns] : D \in SUBSET Locators}

ProductRecords ==
  [key : Keys, version : Versions, content : [source : Sources, uses : Mappings]]

Registries ==
  [product   : [Products -> ProductRecords \cup {Absent}],
   table     : [Tables -> TableRecords \cup {Absent}],
   uses      : [Products -> Mappings],
   changeset : [Changesets -> Definitions \cup {Absent}]]

PullRequests ==
  [req : Requests, from : MaybeVersion, base : Registries, reg : Registries,
   state : {"open", "ready", "blocked"}]

ASSUME RegistryConstantsAssumption ==
  /\ AutoId \notin Tables /\ NoChangeset \notin Changesets
  /\ Absent \notin TableRecords \cup ProductRecords \cup Definitions \cup PullRequests

VARIABLES
  main,   \* the registry of the default branch
  pr      \* pull requests: the request, the base and the registry of the branch

vars == <<main, pr>>

Open == {n \in PRs : pr[n] # Absent}

(***************************************************************************)
(* The registry                                                            *)
(***************************************************************************)
Empty ==
  [product   |-> [p \in Products |-> Absent],
   table     |-> [t \in Tables |-> Absent],
   uses      |-> [p \in Products |-> {}],
   changeset |-> [c \in Changesets |-> Absent]]

VersionOf(record) == IF record = Absent THEN NoVersion ELSE record.version

At(reg, l) == {t \in Tables : reg.table[t] # Absent /\ reg.table[t].locator = l}

Users(reg, t) == {p \in Products : \E v \in Versions : <<t, v>> \in reg.uses[p]}

\* new_id: a table id nobody has used.
Fresh == {t \in Tables : main.table[t] = Absent /\ \A n \in Open : pr[n].reg.table[t] = Absent}

(***************************************************************************)
(* process_product                                                         *)
(***************************************************************************)

\* TABLE_LOCATOR_CONFLICT
ConfigConflict(reg, tables) ==
  \E l \in DOMAIN tables : tables[l].id # AutoId /\ At(reg, l) \ {tables[l].id} # {}

\* Mutant: a retired column may come back.
RetiredReuse_Allowed(reg, tables) == FALSE

\* RETIRED_COLUMN_REUSE
RetiredReuse(reg, tables) ==
  \E l \in DOMAIN tables : \E t \in At(reg, l) : tables[l].cols \cap reg.table[t].retired # {}

\* _resolve_tables: the id of every table, by locator, by configuration or new.
Resolutions(reg, tables) ==
  {f \in [DOMAIN tables -> Tables] :
     /\ \A l \in DOMAIN tables :
          CASE tables[l].id # AutoId -> f[l] = tables[l].id
            [] tables[l].id = AutoId /\ At(reg, l) # {} -> f[l] \in At(reg, l)
            [] tables[l].id = AutoId /\ At(reg, l) = {} -> f[l] \in Fresh
     /\ \A l, m \in DOMAIN tables :
          l # m /\ f[l] = f[m] => tables[l].id # AutoId /\ tables[m].id # AutoId}

Changed(reg, l, entry, t) ==
  \/ reg.table[t] = Absent
  \/ <<reg.table[t].locator, reg.table[t].cols>> # <<l, entry.cols>>

\* The version of a table: as configured, or the next one if it changed.
Proposed(reg, l, entry, t) ==
  IF entry.version # NoVersion THEN entry.version
  ELSE IF reg.table[t] # Absent /\ ~Changed(reg, l, entry, t) THEN reg.table[t].version
  ELSE VersionOf(reg.table[t]) + 1

BaseOf(configured, record) == IF configured # NoVersion THEN configured ELSE VersionOf(record)

\* classify_table and plan_version do not block.
TableAccepted(reg, l, entry, t) ==
  /\ reg.table[t] # Absent => reg.table[t].locator = l
  /\ Allows(VersionOf(reg.table[t]), Changed(reg, l, entry, t),
            BaseOf(entry.base, reg.table[t]), Proposed(reg, l, entry, t))

\* The record of a table: columns that are gone from the dictionary are retired.
TableRecord(reg, l, entry, t) ==
  [locator |-> l,
   version |-> Proposed(reg, l, entry, t),
   cols    |-> entry.cols,
   retired |-> UNION {(reg.table[o].cols \cup reg.table[o].retired) \ entry.cols : o \in At(reg, l)}]

Uses(reg, tables, f) == {<<f[l], Proposed(reg, l, tables[l], f[l])>> : l \in DOMAIN tables}

\* What the canonical hash of a product covers.
ProductRecord(reg, r, f) ==
  [key     |-> r.key,
   version |-> r.version,
   content |-> [source |-> [l \in DOMAIN r.tables |-> r.tables[l].cols],
                uses   |-> Uses(reg, r.tables, f)]]

SameContent(record, other) ==
  /\ record # Absent /\ other # Absent
  /\ record.key = other.key /\ record.content = other.content

KeyFree(reg, r) ==
  \A p \in Products \ {r.product} : reg.product[p] # Absent => reg.product[p].key # r.key

\* classify_product, for a request that changes something or nothing.
ProductAccepted(reg, r, record) ==
  LET existing == reg.product[r.product] IN
  CASE r.op = "update" -> existing # Absent /\ existing.key = r.key
    [] r.op = "create" -> SameContent(existing, record) \/ (existing = Absent /\ KeyFree(reg, r))

VersionAccepted(reg, r, base, record) ==
  LET existing == reg.product[r.product] IN
  Allows(VersionOf(existing), ~SameContent(existing, record), BaseOf(base, existing), r.version)

\* _shared_table_findings looks at the products that already use the table.
SharedChanges(reg, tables, f) ==
  {t \in Tables : \E l \in DOMAIN tables :
     /\ f[l] = t /\ reg.table[t] # Absent
     /\ Changed(reg, l, tables[l], t)
     /\ Cardinality(Users(reg, t)) > 1}

\* Mutant: a changeset for some of the shared tables is enough.
ChangesetCovers_AnyTable(reg, r, f) ==
  SharedChanges(reg, r.tables, f) # {} =>
    /\ r.changeset # NoChangeset
    /\ reg.changeset[r.changeset] # Absent
    /\ r.product \in reg.changeset[r.changeset].products

ChangesetCovers(reg, r, f) ==
  SharedChanges(reg, r.tables, f) # {} =>
    /\ r.changeset # NoChangeset
    /\ reg.changeset[r.changeset] # Absent
    /\ r.product \in reg.changeset[r.changeset].products
    /\ SharedChanges(reg, r.tables, f) \subseteq reg.changeset[r.changeset].tables

\* write_product, write_table and write_mappings find no other owner of the key or of
\* a locator, and one version for a table that two locators name.
WritesAllowed(reg, r, f) ==
  /\ KeyFree(reg, r)
  /\ \A l \in DOMAIN r.tables : At(reg, l) \subseteq {f[l]}
  /\ \A l, m \in DOMAIN r.tables :
       f[l] = f[m] => Proposed(reg, l, r.tables[l], f[l]) = Proposed(reg, m, r.tables[m], f[m])

Accepted(reg, r, base, f) ==
  /\ ~ConfigConflict(reg, r.tables) /\ ~RetiredReuse(reg, r.tables)
  /\ \A l \in DOMAIN r.tables : TableAccepted(reg, l, r.tables[l], f[l])
  /\ ProductAccepted(reg, r, ProductRecord(reg, r, f))
  /\ VersionAccepted(reg, r, base, ProductRecord(reg, r, f))
  /\ ChangesetCovers(reg, r, f)
  /\ WritesAllowed(reg, r, f)

\* write_product, write_table for every table, write_mappings.
Written(reg, r, f) ==
  [product   |-> [reg.product EXCEPT ![r.product] = ProductRecord(reg, r, f)],
   table     |-> [t \in Tables |->
                    IF \E l \in DOMAIN r.tables : f[l] = t
                      THEN LET l == CHOOSE m \in DOMAIN r.tables : f[m] = t
                           IN TableRecord(reg, l, r.tables[l], t)
                      ELSE reg.table[t]],
   uses      |-> [reg.uses EXCEPT ![r.product] = Uses(reg, r.tables, f)],
   changeset |-> reg.changeset]

(***************************************************************************)
(* Pull requests                                                           *)
(***************************************************************************)

\* prepare_issue_event writes product.yaml in a branch of the default branch; an
\* update records the version it starts from.
Intake(n, r) ==
  /\ pr[n] = Absent
  /\ r.op = "update" => main.product[r.product] # Absent /\ main.product[r.product].key = r.key
  /\ pr' = [pr EXCEPT ![n] =
              [req   |-> r,
               from  |-> IF r.op = "update" THEN VersionOf(main.product[r.product]) ELSE NoVersion,
               base  |-> main,
               reg   |-> main,
               state |-> "open"]]
  /\ UNCHANGED main

\* Everything of the request is promoted on the branch, or nothing is.
Process(n) ==
  /\ n \in Open /\ pr[n].state = "open"
  /\ \E f \in Resolutions(pr[n].reg, pr[n].req.tables) :
       IF Accepted(pr[n].reg, pr[n].req, pr[n].from, f)
         THEN pr' = [pr EXCEPT ![n].reg = Written(pr[n].reg, pr[n].req, f), ![n].state = "ready"]
         ELSE pr' = [pr EXCEPT ![n].state = "blocked"]
  /\ UNCHANGED main

\* IssueBaseSyncService: merge the base, keep the approved intake (product.yaml with
\* the version it started from), reset every generated output to the base.  When git
\* reports a conflict a person does the same, for direct changes may not touch the
\* registry.
BaseSync(n) ==
  /\ n \in Open
  /\ pr' = [pr EXCEPT ![n].base = main, ![n].reg = main, ![n].state = "open"]
  /\ UNCHANGED main

\* Required statuses on the head, and strict: the branch contains the base.
MergeAllowed(n) == pr[n].state = "ready" /\ pr[n].base = main

\* Mutant: the branch need not be up to date, and git merges record by record.
MergePR_Lax(n) ==
  LET Merged(old, new, field) ==
        [x \in DOMAIN new |-> IF new[x] # old[x] THEN new[x] ELSE main[field][x]]
  IN
  /\ n \in Open /\ pr[n].state = "ready"
  /\ main' = [main EXCEPT
                !.product = Merged(pr[n].base.product, pr[n].reg.product, "product"),
                !.table   = Merged(pr[n].base.table, pr[n].reg.table, "table"),
                !.uses    = Merged(pr[n].base.uses, pr[n].reg.uses, "uses")]
  /\ pr' = [pr EXCEPT ![n] = Absent]

MergePR(n) ==
  /\ n \in Open /\ MergeAllowed(n)
  /\ main' = pr[n].reg
  /\ pr' = [pr EXCEPT ![n] = Absent]

Close(n) == n \in Open /\ pr' = [pr EXCEPT ![n] = Absent] /\ UNCHANGED main

\* ChangesetService._create, and the merge of its coordination pull request.
CreateChangeset(c) ==
  /\ main.changeset[c] = Absent
  /\ \E d \in Definitions :
       /\ \A t \in d.tables : main.table[t] # Absent
       /\ \A p \in d.products : main.product[p] # Absent
       /\ main' = [main EXCEPT !.changeset[c] = d]
  /\ UNCHANGED pr

Init == main = Empty /\ pr = [n \in PRs |-> Absent]

Next ==
  \/ \E n \in PRs : \/ \E r \in Requests : Intake(n, r)
                    \/ Process(n) \/ BaseSync(n) \/ MergePR(n) \/ Close(n)
  \/ \E c \in Changesets : CreateChangeset(c)

Spec == Init /\ [][Next]_vars

(***************************************************************************)
(* Properties                                                              *)
(***************************************************************************)
\* Every registry, on the default branch and on a branch, is well formed: every
\* version is between 1 and MaxVersion.
TypeOK ==
  /\ main \in Registries
  /\ pr \in [PRs -> PullRequests \cup {Absent}]

KeysUnique(reg) ==
  \A p, q \in Products :
    reg.product[p] # Absent /\ reg.product[q] # Absent /\ p # q
      => reg.product[p].key # reg.product[q].key

LocatorsUnique(reg) == \A l \in Locators : \A t, u \in At(reg, l) : t = u

\* Two pull requests that register the same product key or the same locator under ids
\* of their own never both reach the default branch.
UniqueIdentities == KeysUnique(main) /\ LocatorsUnique(main)

UsesResolve(reg) ==
  \A p \in Products :
    /\ \A u \in reg.uses[p] : reg.table[u[1]] # Absent /\ u[2] <= reg.table[u[1]].version
    /\ reg.product[p] # Absent => reg.uses[p] = reg.product[p].content.uses

\* A mapping names a table of the registry, at its version or at one it had before,
\* and a product record pins exactly the versions its mapping has.
MappingsResolve == UsesResolve(main)

\* The next version exactly when the content changed.
TableCounts(old, new) ==
  LET same == old = new \/ (old # Absent /\ new # Absent /\ old.cols = new.cols)
  IN  VersionOf(new) = VersionOf(old) + IF same THEN 0 ELSE 1

ProductCounts(old, new) ==
  VersionOf(new) = VersionOf(old) + IF old = new \/ SameContent(old, new) THEN 0 ELSE 1

Counts(old, new) ==
  /\ \A t \in Tables : TableCounts(old.table[t], new.table[t])
  /\ \A p \in Products : ProductCounts(old.product[p], new.product[p])

\* On the default branch a version names one content: a record that changes gets the
\* next number and one that does not keeps it, whatever pull requests were open.
VersionsCountChanges == [][Counts(main, main')]_vars

Keeps(old, new) ==
  /\ \A p \in Products : old.product[p] # Absent =>
       new.product[p] # Absent /\ new.product[p].key = old.product[p].key
  /\ \A t \in Tables : old.table[t] # Absent =>
       /\ new.table[t] # Absent /\ new.table[t].locator = old.table[t].locator
       /\ old.table[t].retired \subseteq new.table[t].retired
       /\ new.table[t].cols \cap new.table[t].retired = {}

\* A product keeps its key and a table its locator, and a column that was retired is
\* retired for ever.
IdentitiesAreStable == [][Keeps(main, main')]_vars

MergedBy(n) == pr[n] # Absent /\ pr'[n] = Absent /\ main' # main

ChangedOnMain(t) == main.table[t] # Absent /\ main'.table[t] # main.table[t]

\* A table that several products use on the default branch changes only in the pull
\* request of a product and for a table that one changeset of that branch includes.
SharedChangesAreCoordinated ==
  [][\A n \in PRs, t \in Tables :
       MergedBy(n) /\ ChangedOnMain(t) /\ Cardinality(Users(main, t)) > 1 =>
         \E c \in Changesets :
           /\ main.changeset[c] # Absent
           /\ pr[n].req.product \in main.changeset[c].products
           /\ t \in main.changeset[c].tables]_vars

(***************************************************************************)
(* The inductive invariant behind them                                     *)
(***************************************************************************)
Sound(reg) ==
  /\ KeysUnique(reg) /\ LocatorsUnique(reg) /\ UsesResolve(reg)
  /\ \A t \in Tables : reg.table[t] # Absent => reg.table[t].cols \cap reg.table[t].retired = {}

\* Every registry is sound, and that of a branch is its base, or one step from it.
RegistryInv ==
  /\ Sound(main)
  /\ \A n \in Open :
       /\ Sound(pr[n].base) /\ Sound(pr[n].reg)
       /\ pr[n].state # "ready" => pr[n].reg = pr[n].base
       /\ pr[n].state = "ready" => Counts(pr[n].base, pr[n].reg) /\ Keeps(pr[n].base, pr[n].reg)
=============================================================================
