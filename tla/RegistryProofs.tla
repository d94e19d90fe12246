--------------------------- MODULE RegistryProofs ---------------------------
(***************************************************************************)
(* Proofs about Versioning and Registry.  A run of process_product writes  *)
(* a registry that is sound when the one it started from is, counts        *)
(* versions and keeps identities (WrittenIsSound, WrittenCounts,           *)
(* WrittenKeeps), and changes shared tables only with a changeset          *)
(* (WrittenIsCoordinated); strict merges make that a step of the default   *)
(* branch.                                                                 *)
(***************************************************************************)
EXTENDS Registry, TLAPS

(***************************************************************************)
(* plan_version, for every limit of the version range                      *)
(***************************************************************************)
\* plan_version allows exactly the next version of a changed entity and the same one of
\* an unchanged entity, from the current version and never beyond the limit.
THEOREM AllowsExactly ==
  ASSUME NEW current \in MaybeVersion, NEW changed \in BOOLEAN, NEW base,
         NEW proposed \in Nat
  PROVE  Allows(current, changed, base, proposed) <=>
           /\ base = current
           /\ Expected(current, changed) \in Versions
           /\ proposed \in {NoVersion, Expected(current, changed)}
<1> USE MaxVersionAssumption DEF MaybeVersion, Versions, NoVersion, Expected
<1>1. CASE base # current
  BY <1>1 DEF Allows, Code
<1>2. CASE base = current /\ current = NoVersion
  BY <1>2 DEF Allows, Code
<1>3. CASE base = current /\ current # NoVersion /\ ~changed
  BY <1>3 DEF Allows, Code
<1>4. CASE base = current /\ current # NoVersion /\ changed
  <2>1. CASE current = MaxVersion
    BY <1>4, <2>1 DEF Allows, Code
  <2>2. CASE current # MaxVersion /\ proposed \in {NoVersion, current + 1}
    BY <1>4, <2>2 DEF Allows, Code
  <2>3. CASE current # MaxVersion /\ proposed \notin {NoVersion, current + 1}
    <3>1. Code(current, changed, base, proposed) \in {"VERSION_COLLISION", "VERSION_GAP"}
      BY <1>4, <2>3 DEF Code
    <3> QED BY <1>4, <2>3, <3>1 DEF Allows
  <2> QED BY <2>1, <2>2, <2>3
<1> QED BY <1>1, <1>2, <1>3, <1>4

\* An entity that was allowed a version never goes back to an earlier one.
LEMMA AllowedNeverGoesBack ==
  ASSUME NEW current \in MaybeVersion, NEW changed \in BOOLEAN, NEW base,
         NEW proposed \in Nat \ {NoVersion},
         Allows(current, changed, base, proposed)
  PROVE  /\ proposed = Expected(current, changed)
         /\ proposed \in Versions
         /\ current <= proposed
<1>1. Expected(current, changed) \in Versions /\ proposed = Expected(current, changed)
  BY AllowsExactly
<1> QED BY <1>1, MaxVersionAssumption DEF Expected, MaybeVersion, Versions, NoVersion

\* The facts about one accepted run that the lemmas share.
AcceptedRun(reg, r, base, f) ==
  /\ reg \in Registries /\ r \in Requests
  /\ base \in MaybeVersion
  /\ f \in Resolutions(reg, r.tables)
  /\ Accepted(reg, r, base, f)

(***************************************************************************)
(* Types                                                                   *)
(***************************************************************************)
LEMMA RequestType ==
  ASSUME NEW r \in Requests
  PROVE  /\ r.product \in Products /\ r.key \in Keys
         /\ r.version \in Versions
         /\ DOMAIN r.tables \subseteq Locators
         /\ \A l \in DOMAIN r.tables :
              /\ r.tables[l].cols \subseteq Columns
              /\ r.tables[l].version \in MaybeVersion
              /\ r.tables[l].base \in MaybeVersion
BY RequestsAssumption DEF TableRequest

LEMMA RegistryType ==
  ASSUME NEW reg \in Registries
  PROVE  /\ reg = [product |-> reg.product, table |-> reg.table,
                   uses |-> reg.uses, changeset |-> reg.changeset]
         /\ reg.product \in [Products -> ProductRecords \cup {Absent}]
         /\ reg.table \in [Tables -> TableRecords \cup {Absent}]
         /\ reg.uses \in [Products -> Mappings]
         /\ reg.changeset \in [Changesets -> Definitions \cup {Absent}]
BY DEF Registries

LEMMA TableRecordType ==
  ASSUME NEW reg \in Registries, NEW t \in Tables, reg.table[t] # Absent
  PROVE  /\ reg.table[t].locator \in Locators
         /\ reg.table[t].version \in Versions
         /\ reg.table[t].cols \subseteq Columns
         /\ reg.table[t].retired \subseteq Columns
<1>1. reg.table[t] \in TableRecords
  BY RegistryType
<1> QED BY <1>1 DEF TableRecords

LEMMA VersionOfType ==
  ASSUME NEW reg \in Registries
  PROVE  /\ \A t \in Tables : VersionOf(reg.table[t]) \in MaybeVersion
         /\ \A p \in Products : VersionOf(reg.product[p]) \in MaybeVersion
<1>1. ASSUME NEW t \in Tables PROVE VersionOf(reg.table[t]) \in MaybeVersion
  BY TableRecordType DEF VersionOf, MaybeVersion, NoVersion
<1>2. ASSUME NEW p \in Products PROVE VersionOf(reg.product[p]) \in MaybeVersion
  <2>1. reg.product[p] \in ProductRecords \cup {Absent}
    BY RegistryType
  <2> QED BY <2>1 DEF VersionOf, MaybeVersion, NoVersion, ProductRecords
<1> QED BY <1>1, <1>2

LEMMA VersionsAreNaturals ==
  /\ MaybeVersion \subseteq Nat
  /\ \A v \in MaybeVersion : v + 1 \in Nat \ {NoVersion}
BY MaxVersionAssumption DEF MaybeVersion, Versions, NoVersion

(***************************************************************************)
(* One accepted table                                                      *)
(***************************************************************************)
LEMMA ResolvedTable ==
  ASSUME NEW reg, NEW tables, NEW f \in Resolutions(reg, tables), NEW l \in DOMAIN tables
  PROVE  f[l] \in Tables
BY DEF Resolutions

\* The version written for a table is the one plan_version expects.
LEMMA ProposedIsExpected ==
  ASSUME NEW reg, NEW r, NEW base, NEW f, AcceptedRun(reg, r, base, f),
         NEW l \in DOMAIN r.tables
  PROVE  /\ Proposed(reg, l, r.tables[l], f[l]) \in Versions
         /\ Proposed(reg, l, r.tables[l], f[l])
              = Expected(VersionOf(reg.table[f[l]]), Changed(reg, l, r.tables[l], f[l]))
         /\ VersionOf(reg.table[f[l]]) <= Proposed(reg, l, r.tables[l], f[l])
         /\ reg.table[f[l]] # Absent => reg.table[f[l]].locator = l
<1> DEFINE cur == VersionOf(reg.table[f[l]])
           chg == Changed(reg, l, r.tables[l], f[l])
           prop == Proposed(reg, l, r.tables[l], f[l])
           bs == BaseOf(r.tables[l].base, reg.table[f[l]])
<1>1. reg \in Registries /\ r \in Requests /\ f[l] \in Tables
  BY ResolvedTable DEF AcceptedRun
<1>2. Allows(cur, chg, bs, prop) /\ (reg.table[f[l]] # Absent => reg.table[f[l]].locator = l)
  BY DEF AcceptedRun, Accepted, TableAccepted
<1>3. cur \in MaybeVersion
  BY <1>1, VersionOfType
<1>4. chg \in BOOLEAN
  BY DEF Changed
<1>5. prop \in Nat \ {NoVersion}
  <2>1. r.tables[l].version \in MaybeVersion
    BY <1>1, RequestType
  <2>2. cur + 1 \in Nat \ {NoVersion}
    BY <1>3, VersionsAreNaturals
  <2>3. reg.table[f[l]] # Absent => reg.table[f[l]].version \in Nat \ {NoVersion}
    BY <1>1, TableRecordType, MaxVersionAssumption DEF Versions, NoVersion
  <2> QED BY <2>1, <2>2, <2>3, VersionsAreNaturals DEF Proposed
<1> HIDE DEF cur, chg, prop, bs
<1>6. prop = Expected(cur, chg) /\ prop \in Versions /\ cur <= prop
  BY <1>2, <1>3, <1>4, <1>5, AllowedNeverGoesBack
<1> QED BY <1>2, <1>6 DEF cur, chg, prop

(***************************************************************************)
(* What an accepted run writes                                             *)
(***************************************************************************)
TouchedBy(r, f, t) == \E l \in DOMAIN r.tables : f[l] = t

\* Every table of the dictionary is written under one of its locators; no other is.
LEMMA WrittenTable ==
  ASSUME NEW reg, NEW r, NEW base, NEW f, AcceptedRun(reg, r, base, f), NEW t \in Tables
  PROVE  /\ ~TouchedBy(r, f, t) => Written(reg, r, f).table[t] = reg.table[t]
         /\ TouchedBy(r, f, t) =>
              \E l \in DOMAIN r.tables :
                f[l] = t /\ Written(reg, r, f).table[t] = TableRecord(reg, l, r.tables[l], t)
<1>1. reg = [product |-> reg.product, table |-> reg.table,
             uses |-> reg.uses, changeset |-> reg.changeset]
  BY RegistryType DEF AcceptedRun
<1>2. Written(reg, r, f).table =
        [u \in Tables |->
           IF \E l \in DOMAIN r.tables : f[l] = u
             THEN LET l == CHOOSE m \in DOMAIN r.tables : f[m] = u
                  IN TableRecord(reg, l, r.tables[l], u)
             ELSE reg.table[u]]
  BY <1>1 DEF Written
<1>3. CASE ~TouchedBy(r, f, t)
  BY <1>2, <1>3 DEF TouchedBy
<1>4. CASE TouchedBy(r, f, t)
  <2> DEFINE l == CHOOSE m \in DOMAIN r.tables : f[m] = t
  <2>1. l \in DOMAIN r.tables /\ f[l] = t
    BY <1>4 DEF TouchedBy
  <2>2. Written(reg, r, f).table[t] = TableRecord(reg, l, r.tables[l], t)
    BY <1>2, <1>4 DEF TouchedBy
  <2> QED BY <1>4, <2>1, <2>2
<1> QED BY <1>3, <1>4

LEMMA WrittenProduct ==
  ASSUME NEW reg, NEW r, NEW base, NEW f, AcceptedRun(reg, r, base, f), NEW p \in Products
  PROVE  /\ p = r.product =>
              /\ Written(reg, r, f).product[p] = ProductRecord(reg, r, f)
              /\ Written(reg, r, f).uses[p] = Uses(reg, r.tables, f)
         /\ p # r.product =>
              /\ Written(reg, r, f).product[p] = reg.product[p]
              /\ Written(reg, r, f).uses[p] = reg.uses[p]
<1>1. /\ reg = [product |-> reg.product, table |-> reg.table,
                uses |-> reg.uses, changeset |-> reg.changeset]
      /\ DOMAIN reg.product = Products /\ DOMAIN reg.uses = Products
  BY RegistryType DEF AcceptedRun
<1>2. /\ Written(reg, r, f).product = [reg.product EXCEPT ![r.product] = ProductRecord(reg, r, f)]
      /\ Written(reg, r, f).uses = [reg.uses EXCEPT ![r.product] = Uses(reg, r.tables, f)]
  BY <1>1 DEF Written
<1>3. r.product \in Products
  BY RequestType DEF AcceptedRun
<1> QED BY <1>1, <1>2, <1>3

LEMMA WrittenRecords ==
  ASSUME NEW reg, NEW r, NEW base, NEW f, AcceptedRun(reg, r, base, f)
  PROVE  /\ \A l \in DOMAIN r.tables :
              TableRecord(reg, l, r.tables[l], f[l]) \in TableRecords
         /\ Uses(reg, r.tables, f) \in Mappings
         /\ ProductRecord(reg, r, f) \in ProductRecords
<1>1. reg \in Registries /\ r \in Requests
  BY DEF AcceptedRun
<1>2. ASSUME NEW l \in DOMAIN r.tables
      PROVE  TableRecord(reg, l, r.tables[l], f[l]) \in TableRecords
  <2>1. l \in Locators /\ r.tables[l].cols \subseteq Columns
    BY <1>1, RequestType
  <2>2. Proposed(reg, l, r.tables[l], f[l]) \in Versions
    BY ProposedIsExpected
  <2>3. \A o \in At(reg, l) : reg.table[o].cols \subseteq Columns /\ reg.table[o].retired \subseteq Columns
    BY <1>1, TableRecordType DEF At
  <2>4. UNION {(reg.table[o].cols \cup reg.table[o].retired) \ r.tables[l].cols : o \in At(reg, l)}
          \subseteq Columns
    BY <2>3
  <2> QED BY <2>1, <2>2, <2>4 DEF TableRecord, TableRecords
<1>3. Uses(reg, r.tables, f) \in Mappings
  <2>1. \A l \in DOMAIN r.tables :
          f[l] \in Tables /\ Proposed(reg, l, r.tables[l], f[l]) \in Versions
    BY ProposedIsExpected, ResolvedTable DEF AcceptedRun
  <2> QED BY <2>1 DEF Uses, Mappings
<1>4. [l \in DOMAIN r.tables |-> r.tables[l].cols] \in Sources
  <2>1. [l \in DOMAIN r.tables |-> r.tables[l].cols] \in [DOMAIN r.tables -> SUBSET Columns]
    BY <1>1, RequestType
  <2> QED BY <1>1, <2>1, RequestType DEF Sources
<1>5. r.key \in Keys /\ r.version \in Versions
  BY <1>1, RequestType
<1> QED BY <1>2, <1>3, <1>4, <1>5 DEF ProductRecord, ProductRecords

LEMMA WrittenType ==
  ASSUME NEW reg, NEW r, NEW base, NEW f, AcceptedRun(reg, r, base, f)
  PROVE  Written(reg, r, f) \in Registries
<1> DEFINE new == Written(reg, r, f)
<1>1. /\ reg = [product |-> reg.product, table |-> reg.table,
                uses |-> reg.uses, changeset |-> reg.changeset]
      /\ reg.product \in [Products -> ProductRecords \cup {Absent}]
      /\ reg.table \in [Tables -> TableRecords \cup {Absent}]
      /\ reg.uses \in [Products -> Mappings]
      /\ reg.changeset \in [Changesets -> Definitions \cup {Absent}]
  BY RegistryType DEF AcceptedRun
<1>2. /\ new = [product |-> new.product, table |-> new.table,
                uses |-> new.uses, changeset |-> reg.changeset]
      /\ new.product = [reg.product EXCEPT ![r.product] = ProductRecord(reg, r, f)]
      /\ new.uses = [reg.uses EXCEPT ![r.product] = Uses(reg, r.tables, f)]
      /\ new.table = [t \in Tables |-> new.table[t]]
  BY DEF Written
<1>3. \A p \in Products : new.product[p] \in ProductRecords \cup {Absent} /\ new.uses[p] \in Mappings
  BY <1>1, WrittenProduct, WrittenRecords
<1>4. \A t \in Tables : new.table[t] \in TableRecords \cup {Absent}
  BY <1>1, WrittenTable, WrittenRecords
<1>5. /\ new.product = [p \in Products |-> new.product[p]]
      /\ new.uses = [p \in Products |-> new.uses[p]]
  BY <1>1, <1>2
<1> HIDE DEF new
<1>6. /\ new.product \in [Products -> ProductRecords \cup {Absent}]
      /\ new.uses \in [Products -> Mappings]
      /\ new.table \in [Tables -> TableRecords \cup {Absent}]
  BY <1>2, <1>3, <1>4, <1>5
<1>7. new \in Registries
  BY <1>1, <1>2, <1>6 DEF Registries
<1> QED BY <1>7 DEF new

(***************************************************************************)
(* An accepted run keeps the registry sound                                *)
(***************************************************************************)
LEMMA RecordsAreNotAbsent ==
  Absent \notin TableRecords /\ Absent \notin ProductRecords
BY RegistryConstantsAssumption

LEMMA WrittenKeysUnique ==
  ASSUME NEW reg, NEW r, NEW base, NEW f, AcceptedRun(reg, r, base, f), KeysUnique(reg)
  PROVE  KeysUnique(Written(reg, r, f))
<1>1. \A p \in Products \ {r.product} : reg.product[p] # Absent => reg.product[p].key # r.key
  BY DEF AcceptedRun, Accepted, WritesAllowed, KeyFree
<1>2. ProductRecord(reg, r, f).key = r.key
  BY DEF ProductRecord
<1>3. SUFFICES ASSUME NEW p \in Products, NEW q \in Products, p # q,
                      Written(reg, r, f).product[p] # Absent, Written(reg, r, f).product[q] # Absent
               PROVE  Written(reg, r, f).product[p].key # Written(reg, r, f).product[q].key
  BY DEF KeysUnique
<1>4. CASE p = r.product
  BY <1>1, <1>2, <1>3, <1>4, WrittenProduct
<1>5. CASE q = r.product
  BY <1>1, <1>2, <1>3, <1>5, WrittenProduct
<1>6. CASE p # r.product /\ q # r.product
  BY <1>3, <1>6, WrittenProduct DEF KeysUnique
<1> QED BY <1>4, <1>5, <1>6

LEMMA WrittenLocatorsUnique ==
  ASSUME NEW reg, NEW r, NEW base, NEW f, AcceptedRun(reg, r, base, f), LocatorsUnique(reg)
  PROVE  LocatorsUnique(Written(reg, r, f))
<1> DEFINE new == Written(reg, r, f)
<1>1. \A l \in DOMAIN r.tables : At(reg, l) \subseteq {f[l]}
  BY DEF AcceptedRun, Accepted, WritesAllowed
<1>2. ASSUME NEW t \in Tables, TouchedBy(r, f, t), new.table[t] # Absent
      PROVE  new.table[t].locator \in DOMAIN r.tables /\ f[new.table[t].locator] = t
  <2>1. PICK l \in DOMAIN r.tables : f[l] = t /\ new.table[t] = TableRecord(reg, l, r.tables[l], t)
    BY <1>2, WrittenTable
  <2>2. new.table[t].locator = l
    BY <2>1 DEF TableRecord
  <2> QED BY <2>1, <2>2
<1>3. ASSUME NEW t \in Tables, ~TouchedBy(r, f, t) PROVE new.table[t] = reg.table[t]
  BY <1>3, WrittenTable
<1> HIDE DEF new
<1>4. SUFFICES ASSUME NEW l \in Locators, NEW t \in At(new, l), NEW u \in At(new, l)
               PROVE  t = u
  BY DEF LocatorsUnique, new
<1>5. /\ t \in Tables /\ new.table[t] # Absent /\ new.table[t].locator = l
      /\ u \in Tables /\ new.table[u] # Absent /\ new.table[u].locator = l
  BY <1>4 DEF At
<1>6. CASE TouchedBy(r, f, t) /\ TouchedBy(r, f, u)
  BY <1>2, <1>5, <1>6
<1>7. CASE TouchedBy(r, f, t) /\ ~TouchedBy(r, f, u)
  <2>1. u \in At(reg, l)
    BY <1>3, <1>5, <1>7 DEF At
  <2> QED BY <1>1, <1>2, <1>5, <1>7, <2>1
<1>8. CASE ~TouchedBy(r, f, t) /\ TouchedBy(r, f, u)
  <2>1. t \in At(reg, l)
    BY <1>3, <1>5, <1>8 DEF At
  <2> QED BY <1>1, <1>2, <1>5, <1>8, <2>1
<1>9. CASE ~TouchedBy(r, f, t) /\ ~TouchedBy(r, f, u)
  <2>1. t \in At(reg, l) /\ u \in At(reg, l)
    BY <1>3, <1>5, <1>9 DEF At
  <2> QED BY <2>1 DEF LocatorsUnique
<1> QED BY <1>6, <1>7, <1>8, <1>9

\* The version of every table of the registry is at least what it was.
LEMMA WrittenVersions ==
  ASSUME NEW reg, NEW r, NEW base, NEW f, AcceptedRun(reg, r, base, f)
  PROVE  /\ \A t \in Tables : reg.table[t] # Absent =>
              /\ Written(reg, r, f).table[t] # Absent
              /\ reg.table[t].version <= Written(reg, r, f).table[t].version
         /\ \A l \in DOMAIN r.tables :
              /\ Written(reg, r, f).table[f[l]] # Absent
              /\ Written(reg, r, f).table[f[l]].version = Proposed(reg, l, r.tables[l], f[l])
<1> DEFINE new == Written(reg, r, f)
<1>1. ASSUME NEW l \in DOMAIN r.tables
      PROVE  new.table[f[l]] # Absent /\ new.table[f[l]].version = Proposed(reg, l, r.tables[l], f[l])
  <2>1. PICK m \in DOMAIN r.tables :
          f[m] = f[l] /\ new.table[f[l]] = TableRecord(reg, m, r.tables[m], f[l])
    BY <1>1, ResolvedTable, WrittenTable DEF AcceptedRun, TouchedBy
  <2>2. new.table[f[l]] # Absent
    BY <2>1, WrittenRecords, RecordsAreNotAbsent
  <2>3. Proposed(reg, m, r.tables[m], f[m]) = Proposed(reg, l, r.tables[l], f[l])
    BY <2>1 DEF AcceptedRun, Accepted, WritesAllowed
  <2> QED BY <2>1, <2>2, <2>3 DEF TableRecord
<1>2. ASSUME NEW t \in Tables, reg.table[t] # Absent
      PROVE  new.table[t] # Absent /\ reg.table[t].version <= new.table[t].version
  <2>1. CASE TouchedBy(r, f, t)
    <3>1. PICK l \in DOMAIN r.tables : f[l] = t
      BY <2>1 DEF TouchedBy
    <3>2. VersionOf(reg.table[t]) = reg.table[t].version
      BY <1>2 DEF VersionOf
    <3> QED BY <1>1, <3>1, <3>2, ProposedIsExpected
  <2>2. CASE ~TouchedBy(r, f, t)
    <3>1. reg.table[t].version \in Nat
      BY <1>2, TableRecordType, MaxVersionAssumption DEF AcceptedRun, Versions
    <3> QED BY <1>2, <2>2, <3>1, WrittenTable
  <2> QED BY <2>1, <2>2
<1> QED BY <1>1, <1>2

LEMMA WrittenUsesResolve ==
  ASSUME NEW reg, NEW r, NEW base, NEW f, AcceptedRun(reg, r, base, f), UsesResolve(reg)
  PROVE  UsesResolve(Written(reg, r, f))
<1> DEFINE new == Written(reg, r, f)
<1>1. SUFFICES ASSUME NEW p \in Products
               PROVE  /\ \A u \in new.uses[p] :
                           new.table[u[1]] # Absent /\ u[2] <= new.table[u[1]].version
                      /\ new.product[p] # Absent => new.uses[p] = new.product[p].content.uses
  BY DEF UsesResolve
<1>2. CASE p = r.product
  <2>1. new.uses[p] = Uses(reg, r.tables, f) /\ new.product[p] = ProductRecord(reg, r, f)
    BY <1>2, WrittenProduct
  <2>2. new.uses[p] = new.product[p].content.uses
    BY <2>1 DEF ProductRecord
  <2>3. ASSUME NEW u \in new.uses[p]
        PROVE  new.table[u[1]] # Absent /\ u[2] <= new.table[u[1]].version
    <3>1. PICK l \in DOMAIN r.tables : u = <<f[l], Proposed(reg, l, r.tables[l], f[l])>>
      BY <2>1 DEF Uses
    <3>2. Proposed(reg, l, r.tables[l], f[l]) \in Nat
      BY ProposedIsExpected, MaxVersionAssumption DEF Versions
    <3>3. u[1] = f[l] /\ u[2] = Proposed(reg, l, r.tables[l], f[l])
      BY <3>1
    <3> QED BY <3>2, <3>3, WrittenVersions
  <2> QED BY <2>2, <2>3
<1>3. CASE p # r.product
  <2>1. new.uses[p] = reg.uses[p] /\ new.product[p] = reg.product[p]
    BY <1>3, WrittenProduct
  <2>2. ASSUME NEW u \in new.uses[p]
        PROVE  new.table[u[1]] # Absent /\ u[2] <= new.table[u[1]].version
    <3>1. reg.table[u[1]] # Absent /\ u[2] <= reg.table[u[1]].version
      BY <2>1 DEF UsesResolve
    <3>2. u \in Tables \X Versions
      BY <2>1, RegistryType DEF AcceptedRun, Mappings
    <3>3. u[1] \in Tables /\ u[2] \in Nat
      BY <3>2, MaxVersionAssumption DEF Versions
    <3>4. new.table[u[1]] # Absent /\ reg.table[u[1]].version <= new.table[u[1]].version
      BY <3>1, <3>3, WrittenVersions
    <3>5. reg.table[u[1]].version \in Nat
      BY <3>1, <3>3, TableRecordType, MaxVersionAssumption DEF AcceptedRun, Versions
    <3>6. new.table[u[1]].version \in Nat
      BY <3>3, <3>4, WrittenType, TableRecordType, MaxVersionAssumption DEF Versions
    <3> QED BY <3>1, <3>3, <3>4, <3>5, <3>6
  <2> QED BY <2>1, <2>2 DEF UsesResolve
<1> QED BY <1>2, <1>3

\* After an accepted run keys and locators are still unique, mappings resolve, and no
\* column is both there and retired.
THEOREM WrittenIsSound ==
  ASSUME NEW reg, NEW r, NEW base, NEW f, AcceptedRun(reg, r, base, f), Sound(reg)
  PROVE  Sound(Written(reg, r, f))
<1>1. ASSUME NEW t \in Tables, Written(reg, r, f).table[t] # Absent
      PROVE  Written(reg, r, f).table[t].cols \cap Written(reg, r, f).table[t].retired = {}
  <2>1. CASE TouchedBy(r, f, t)
    <3>1. PICK l \in DOMAIN r.tables :
            Written(reg, r, f).table[t] = TableRecord(reg, l, r.tables[l], t)
      BY <2>1, WrittenTable
    <3> QED BY <3>1 DEF TableRecord
  <2>2. CASE ~TouchedBy(r, f, t)
    BY <1>1, <2>2, WrittenTable DEF Sound
  <2> QED BY <2>1, <2>2
<1> QED
  BY <1>1, WrittenKeysUnique, WrittenLocatorsUnique, WrittenUsesResolve DEF Sound

(***************************************************************************)
(* An accepted run counts versions and keeps identities                    *)
(***************************************************************************)
LEMMA NoTableChangeNoCount ==
  ASSUME NEW reg \in Registries
  PROVE  /\ \A t \in Tables : TableCounts(reg.table[t], reg.table[t])
         /\ \A p \in Products : ProductCounts(reg.product[p], reg.product[p])
<1>1. /\ \A t \in Tables : VersionOf(reg.table[t]) \in Nat
      /\ \A p \in Products : VersionOf(reg.product[p]) \in Nat
  BY VersionOfType, VersionsAreNaturals
<1> QED BY <1>1 DEF TableCounts, ProductCounts

\* Every record an accepted run changes gets the next version, every other keeps its own.
THEOREM WrittenCounts ==
  ASSUME NEW reg, NEW r, NEW base, NEW f, AcceptedRun(reg, r, base, f)
  PROVE  Counts(reg, Written(reg, r, f))
<1> DEFINE new == Written(reg, r, f)
<1>0. reg \in Registries /\ r \in Requests
  BY DEF AcceptedRun
<1>1. ASSUME NEW t \in Tables PROVE TableCounts(reg.table[t], new.table[t])
  <2>1. CASE ~TouchedBy(r, f, t)
    BY <1>0, <2>1, WrittenTable, NoTableChangeNoCount
  <2>2. CASE TouchedBy(r, f, t)
    <3>1. PICK l \in DOMAIN r.tables :
            f[l] = t /\ new.table[t] = TableRecord(reg, l, r.tables[l], t)
      BY <2>2, WrittenTable
    <3> DEFINE old == reg.table[t]
               rec == new.table[t]
               chg == Changed(reg, l, r.tables[l], t)
    <3>2. rec # Absent /\ rec.cols = r.tables[l].cols /\ rec.version = Proposed(reg, l, r.tables[l], t)
      BY <3>1, WrittenRecords, RecordsAreNotAbsent DEF TableRecord
    <3>3. VersionOf(rec) = Expected(VersionOf(old), chg) /\ (old # Absent => old.locator = l)
      BY <3>1, <3>2, ProposedIsExpected DEF VersionOf
    <3>4. chg <=> old = Absent \/ old.cols # rec.cols
      BY <3>2, <3>3 DEF Changed
    <3>5. VersionOf(old) \in Nat /\ (old = Absent => VersionOf(old) = NoVersion)
      BY <1>0, VersionOfType, VersionsAreNaturals DEF VersionOf
    <3>6. old # Absent => VersionOf(old) # NoVersion
      BY <1>0, TableRecordType, MaxVersionAssumption DEF VersionOf, Versions, NoVersion
    <3> HIDE DEF rec, old, chg
    <3>7. TableCounts(old, rec)
      BY <3>2, <3>3, <3>4, <3>5, <3>6 DEF TableCounts, Expected
    <3> QED BY <3>7 DEF old, rec
  <2> QED BY <2>1, <2>2
<1>2. ASSUME NEW p \in Products PROVE ProductCounts(reg.product[p], new.product[p])
  <2>1. CASE p # r.product
    BY <1>0, <2>1, WrittenProduct, NoTableChangeNoCount
  <2>2. CASE p = r.product
    <3> DEFINE old == reg.product[p]
               rec == ProductRecord(reg, r, f)
               same == SameContent(old, rec)
    <3>1. new.product[p] = rec /\ rec # Absent /\ rec.version = r.version
      BY <2>2, WrittenProduct, WrittenRecords, RecordsAreNotAbsent DEF ProductRecord
    <3>2. Allows(VersionOf(old), ~same, BaseOf(base, old), r.version)
      BY <2>2 DEF AcceptedRun, Accepted, VersionAccepted
    <3>3. VersionOf(old) \in MaybeVersion /\ VersionOf(old) \in Nat
      BY <1>0, VersionOfType, VersionsAreNaturals
    <3>4. r.version \in Nat \ {NoVersion}
      BY <1>0, RequestType, MaxVersionAssumption DEF Versions, NoVersion
    <3>5. (~same) \in BOOLEAN
      BY DEF SameContent
    <3>6. old \in ProductRecords \cup {Absent}
      BY <1>0, RegistryType
    <3>7. old # Absent => VersionOf(old) # NoVersion
      BY <3>6, MaxVersionAssumption DEF ProductRecords, VersionOf, Versions, NoVersion
    <3>8. /\ same => old # Absent
          /\ old = rec => same
      BY <3>1 DEF SameContent
    <3> HIDE DEF old, rec, same
    <3>9. r.version = Expected(VersionOf(old), ~same)
      BY <3>2, <3>3, <3>4, <3>5, AllowedNeverGoesBack
    <3>10. VersionOf(rec) = r.version
      BY <3>1 DEF VersionOf
    <3>11. ProductCounts(old, rec)
      BY <3>3, <3>7, <3>8, <3>9, <3>10 DEF ProductCounts, Expected, same
    <3> QED BY <3>1, <3>11 DEF old
  <2> QED BY <2>1, <2>2
<1> QED BY <1>1, <1>2 DEF Counts

\* An accepted run keeps the key of a product and the locator of a table, and brings no
\* retired column back.
THEOREM WrittenKeeps ==
  ASSUME NEW reg, NEW r, NEW base, NEW f, AcceptedRun(reg, r, base, f), Sound(reg)
  PROVE  Keeps(reg, Written(reg, r, f))
<1> DEFINE new == Written(reg, r, f)
<1>1. ASSUME NEW p \in Products, reg.product[p] # Absent
      PROVE  new.product[p] # Absent /\ new.product[p].key = reg.product[p].key
  <2>1. CASE p # r.product
    BY <1>1, <2>1, WrittenProduct
  <2>2. CASE p = r.product
    <3>1. new.product[p] = ProductRecord(reg, r, f) /\ new.product[p] # Absent
      BY <2>2, WrittenProduct, WrittenRecords, RecordsAreNotAbsent
    <3>2. ProductRecord(reg, r, f).key = r.key
      BY DEF ProductRecord
    <3>3. ProductAccepted(reg, r, ProductRecord(reg, r, f)) /\ r.op \in {"create", "update"}
      BY RequestsAssumption DEF AcceptedRun, Accepted
    <3>4. reg.product[p].key = r.key
      BY <1>1, <2>2, <3>2, <3>3 DEF ProductAccepted, SameContent
    <3> QED BY <3>1, <3>2, <3>4
  <2> QED BY <2>1, <2>2
<1>2. ASSUME NEW t \in Tables, reg.table[t] # Absent
      PROVE  /\ new.table[t] # Absent /\ new.table[t].locator = reg.table[t].locator
             /\ reg.table[t].retired \subseteq new.table[t].retired
             /\ new.table[t].cols \cap new.table[t].retired = {}
  <2>1. new.table[t] # Absent
    BY <1>2, WrittenVersions
  <2>2. new.table[t].cols \cap new.table[t].retired = {}
    BY <2>1, WrittenIsSound DEF Sound
  <2>3. CASE ~TouchedBy(r, f, t)
    BY <2>1, <2>2, <2>3, WrittenTable
  <2>4. CASE TouchedBy(r, f, t)
    <3>1. PICK l \in DOMAIN r.tables :
            f[l] = t /\ new.table[t] = TableRecord(reg, l, r.tables[l], t)
      BY <2>4, WrittenTable
    <3>2. reg.table[t].locator = l
      BY <1>2, <3>1, ProposedIsExpected
    <3>3. t \in At(reg, l)
      BY <1>2, <3>2 DEF At
    <3>4. r.tables[l].cols \cap reg.table[t].retired = {}
      BY <3>3 DEF AcceptedRun, Accepted, RetiredReuse
    <3> QED BY <2>1, <2>2, <3>1, <3>2, <3>3, <3>4 DEF TableRecord
  <2> QED BY <2>3, <2>4
<1> QED BY <1>1, <1>2 DEF Keeps

(***************************************************************************)
(* The default branch and the pull requests                                *)
(***************************************************************************)
LEMMA PRType ==
  ASSUME TypeOK, NEW n \in Open
  PROVE  /\ n \in PRs /\ pr[n] \in PullRequests
         /\ pr[n].req \in Requests /\ pr[n].from \in MaybeVersion
         /\ pr[n].base \in Registries /\ pr[n].reg \in Registries
         /\ pr[n].state \in {"open", "ready", "blocked"}
<1>1. n \in PRs /\ pr[n] \in PullRequests
  BY DEF TypeOK, Open
<1> QED BY <1>1 DEF PullRequests

LEMMA EmptyType == Empty \in Registries
BY DEF Empty, Registries, Mappings

LEMMA EmptyIsSound == Sound(Empty)
BY DEF Empty, Sound, KeysUnique, LocatorsUnique, At, UsesResolve

\* An accepted run of an open pull request, in the terms of the lemmas above.
LEMMA ProcessIsARun ==
  ASSUME TypeOK, NEW n \in Open, NEW f \in Resolutions(pr[n].reg, pr[n].req.tables),
         Accepted(pr[n].reg, pr[n].req, pr[n].from, f)
  PROVE  AcceptedRun(pr[n].reg, pr[n].req, pr[n].from, f)
BY PRType DEF AcceptedRun

\* What Process does, by cases.
LEMMA ProcessCases ==
  ASSUME TypeOK, NEW n \in PRs, Process(n)
  PROVE  /\ n \in Open /\ main' = main /\ pr[n].state = "open"
         /\ \/ pr' = [pr EXCEPT ![n] = [pr[n] EXCEPT !.state = "blocked"]]
            \/ \E f \in Resolutions(pr[n].reg, pr[n].req.tables) :
                 /\ AcceptedRun(pr[n].reg, pr[n].req, pr[n].from, f)
                 /\ pr' = [pr EXCEPT ![n] =
                             [pr[n] EXCEPT !.reg = Written(pr[n].reg, pr[n].req, f), !.state = "ready"]]
<1>1. n \in Open /\ pr[n].state = "open" /\ main' = main
  BY DEF Process
<1>2. PICK f \in Resolutions(pr[n].reg, pr[n].req.tables) :
        IF Accepted(pr[n].reg, pr[n].req, pr[n].from, f)
          THEN pr' = [pr EXCEPT ![n].reg = Written(pr[n].reg, pr[n].req, f), ![n].state = "ready"]
          ELSE pr' = [pr EXCEPT ![n].state = "blocked"]
  BY DEF Process
<1>3. n \in DOMAIN pr
  BY DEF TypeOK
<1>4. CASE Accepted(pr[n].reg, pr[n].req, pr[n].from, f)
  <2> DEFINE w == Written(pr[n].reg, pr[n].req, f)
  <2>1. pr' = [pr EXCEPT ![n].reg = w, ![n].state = "ready"]
    BY <1>2, <1>4
  <2>2. AcceptedRun(pr[n].reg, pr[n].req, pr[n].from, f)
    BY <1>1, <1>4, ProcessIsARun
  <2> HIDE DEF w
  <2>3. pr' = [pr EXCEPT ![n] = [pr[n] EXCEPT !.reg = w, !.state = "ready"]]
    BY <1>3, <2>1
  <2> QED BY <1>1, <2>2, <2>3 DEF w
<1>5. CASE ~Accepted(pr[n].reg, pr[n].req, pr[n].from, f)
  <2>1. pr' = [pr EXCEPT ![n].state = "blocked"]
    BY <1>2, <1>5
  <2>2. pr' = [pr EXCEPT ![n] = [pr[n] EXCEPT !.state = "blocked"]]
    BY <1>3, <2>1
  <2> QED BY <1>1, <2>2
<1> QED BY <1>4, <1>5

LEMMA TypeStep ==
  ASSUME TypeOK, [Next]_vars
  PROVE  TypeOK'
<1>1. ASSUME NEW n \in PRs, NEW r \in Requests, Intake(n, r)
      PROVE  TypeOK'
  <2> DEFINE from == IF r.op = "update" THEN VersionOf(main.product[r.product]) ELSE NoVersion
             new == [req |-> r, from |-> from, base |-> main,
                     reg |-> main, state |-> "open"]
  <2>1. main' = main /\ pr' = [pr EXCEPT ![n] = new]
    BY <1>1 DEF Intake
  <2>2. main \in Registries
    BY DEF TypeOK
  <2>3. from \in MaybeVersion
    BY <2>2, VersionOfType, RequestType DEF MaybeVersion
  <2> HIDE DEF from
  <2>4. new \in PullRequests
    BY <2>2, <2>3 DEF PullRequests
  <2> QED BY <2>1, <2>4 DEF TypeOK
<1>2. ASSUME NEW n \in PRs, Process(n)
      PROVE  TypeOK'
  <2>0. n \in Open /\ main' = main
    BY <1>2, ProcessCases
  <2>1. CASE pr' = [pr EXCEPT ![n] = [pr[n] EXCEPT !.state = "blocked"]]
    <3>1. [pr[n] EXCEPT !.state = "blocked"] \in PullRequests
      BY <2>0, PRType DEF PullRequests
    <3> QED BY <2>0, <2>1, <3>1 DEF TypeOK
  <2>2. ASSUME NEW f, AcceptedRun(pr[n].reg, pr[n].req, pr[n].from, f),
               pr' = [pr EXCEPT ![n] =
                        [pr[n] EXCEPT !.reg = Written(pr[n].reg, pr[n].req, f), !.state = "ready"]]
        PROVE  TypeOK'
    <3> DEFINE w == Written(pr[n].reg, pr[n].req, f)
    <3>1. w \in Registries
      BY <2>2, WrittenType
    <3>2. pr' = [pr EXCEPT ![n] = [pr[n] EXCEPT !.reg = w, !.state = "ready"]]
      BY <2>2
    <3> HIDE DEF w
    <3>3. [pr[n] EXCEPT !.reg = w, !.state = "ready"] \in PullRequests
      BY <2>0, <3>1, PRType DEF PullRequests
    <3> QED BY <2>0, <3>2, <3>3 DEF TypeOK
  <2> QED BY <1>2, <2>1, <2>2, ProcessCases
<1>3. ASSUME NEW n \in PRs, BaseSync(n)
      PROVE  TypeOK'
  <2>1. n \in Open /\ main \in Registries /\ main' = main
    BY <1>3 DEF BaseSync, TypeOK
  <2>2. pr' = [pr EXCEPT ![n] = [pr[n] EXCEPT !.base = main, !.reg = main, !.state = "open"]]
    BY <1>3 DEF BaseSync, TypeOK
  <2>3. [pr[n] EXCEPT !.base = main, !.reg = main, !.state = "open"] \in PullRequests
    BY <2>1, PRType DEF PullRequests
  <2> QED BY <2>1, <2>2, <2>3 DEF TypeOK
<1>4. ASSUME NEW n \in PRs, MergePR(n)
      PROVE  TypeOK'
  BY <1>4, PRType DEF MergePR, TypeOK
<1>5. ASSUME NEW n \in PRs, Close(n)
      PROVE  TypeOK'
  BY <1>5 DEF Close, TypeOK
<1>6. ASSUME NEW c \in Changesets, CreateChangeset(c)
      PROVE  TypeOK'
  <2>1. PICK d \in Definitions : main' = [main EXCEPT !.changeset[c] = d] /\ pr' = pr
    BY <1>6 DEF CreateChangeset
  <2>2. main' \in Registries
    BY <2>1 DEF TypeOK, Registries
  <2> QED BY <2>1, <2>2 DEF TypeOK
<1>7. CASE UNCHANGED vars
  BY <1>7 DEF vars, TypeOK
<1> QED BY <1>1, <1>2, <1>3, <1>4, <1>5, <1>6, <1>7 DEF Next

\* Every version of every registry stays between 1 and MaxVersion, whatever is asked for.
THEOREM TypeCorrect == Spec => []TypeOK
<1>1. Init => TypeOK
  BY EmptyType DEF Init, TypeOK
<1> QED BY <1>1, TypeStep, PTL DEF Spec

(***************************************************************************)
(* The inductive invariant, one pull request at a time                     *)
(***************************************************************************)
BranchInv(branch) ==
  /\ Sound(branch.base) /\ Sound(branch.reg)
  /\ branch.state # "ready" => branch.reg = branch.base
  /\ branch.state = "ready" => Counts(branch.base, branch.reg) /\ Keeps(branch.base, branch.reg)

LEMMA InvByBranch == RegistryInv <=> Sound(main) /\ \A n \in Open : BranchInv(pr[n])
BY DEF RegistryInv, BranchInv

\* A step that leaves main alone and at most gives one pull request another state.
LEMMA OneBranchChanges ==
  ASSUME TypeOK, RegistryInv, NEW n \in PRs, NEW new, main' = main,
         pr' = [pr EXCEPT ![n] = new], new # Absent => BranchInv(new)
  PROVE  RegistryInv'
<1>1. DOMAIN pr = PRs
  BY DEF TypeOK
<1>2. \A m \in PRs : pr'[m] = IF m = n THEN new ELSE pr[m]
  BY <1>1
<1>3. ASSUME NEW m \in PRs, pr'[m] # Absent PROVE BranchInv(pr'[m])
  <2>1. CASE m = n
    BY <1>2, <1>3, <2>1
  <2>2. CASE m # n
    BY <1>2, <1>3, <2>2, InvByBranch DEF Open
  <2> QED BY <2>1, <2>2
<1>4. Sound(main')
  BY InvByBranch
<1> QED BY <1>3, <1>4 DEF RegistryInv, BranchInv, Open

LEMMA SoundIgnoresChangesets ==
  ASSUME NEW reg, NEW new, new.product = reg.product, new.table = reg.table,
         new.uses = reg.uses, Sound(reg)
  PROVE  Sound(new)
BY DEF Sound, KeysUnique, LocatorsUnique, At, UsesResolve

LEMMA InvStep ==
  ASSUME TypeOK, RegistryInv, [Next]_vars
  PROVE  RegistryInv'
<1>0. Sound(main) /\ \A n \in Open : BranchInv(pr[n])
  BY InvByBranch
<1>1. ASSUME NEW n \in PRs, NEW r \in Requests, Intake(n, r)
      PROVE  RegistryInv'
  <2> DEFINE new == [req   |-> r,
                     from  |-> IF r.op = "update" THEN VersionOf(main.product[r.product]) ELSE NoVersion,
                     base  |-> main, reg |-> main, state |-> "open"]
  <2>1. /\ main' = main /\ pr' = [pr EXCEPT ![n] = new]
        /\ new.base = main /\ new.reg = main /\ new.state = "open"
    BY <1>1 DEF Intake
  <2> HIDE DEF new
  <2>2. BranchInv(new)
    BY <1>0, <2>1 DEF BranchInv
  <2> QED BY <2>1, <2>2, OneBranchChanges
<1>2. ASSUME NEW n \in PRs, Process(n)
      PROVE  RegistryInv'
  <2>0. n \in Open /\ main' = main /\ pr[n].state = "open"
    BY <1>2, ProcessCases
  <2>1. BranchInv(pr[n]) /\ pr[n].reg = pr[n].base /\ pr[n] \in PullRequests
    BY <1>0, <2>0, PRType DEF BranchInv
  <2>2. CASE pr' = [pr EXCEPT ![n] = [pr[n] EXCEPT !.state = "blocked"]]
    <3>1. BranchInv([pr[n] EXCEPT !.state = "blocked"])
      BY <2>1 DEF BranchInv, PullRequests
    <3> QED BY <2>0, <2>2, <3>1, OneBranchChanges
  <2>3. ASSUME NEW f, AcceptedRun(pr[n].reg, pr[n].req, pr[n].from, f),
               pr' = [pr EXCEPT ![n] =
                        [pr[n] EXCEPT !.reg = Written(pr[n].reg, pr[n].req, f), !.state = "ready"]]
        PROVE  RegistryInv'
    <3> DEFINE w == Written(pr[n].reg, pr[n].req, f)
               new == [pr[n] EXCEPT !.reg = w, !.state = "ready"]
    <3>1. Sound(w) /\ Counts(pr[n].reg, w) /\ Keeps(pr[n].reg, w)
      BY <2>1, <2>3, WrittenIsSound, WrittenCounts, WrittenKeeps DEF BranchInv
    <3>2. pr' = [pr EXCEPT ![n] = new]
      BY <2>3
    <3> HIDE DEF w
    <3>3. new.base = pr[n].base /\ new.reg = w /\ new.state = "ready"
      BY <2>1 DEF PullRequests
    <3> HIDE DEF new
    <3>4. BranchInv(new)
      BY <2>1, <3>1, <3>3 DEF BranchInv
    <3> QED BY <2>0, <3>2, <3>4, OneBranchChanges
  <2> QED BY <1>2, <2>2, <2>3, ProcessCases
<1>3. ASSUME NEW n \in PRs, BaseSync(n)
      PROVE  RegistryInv'
  <2>1. n \in Open /\ main' = main /\ pr[n] \in PullRequests
    BY <1>3, PRType DEF BaseSync
  <2>2. pr' = [pr EXCEPT ![n] = [pr[n] EXCEPT !.base = main, !.reg = main, !.state = "open"]]
    BY <1>3 DEF BaseSync, TypeOK
  <2>3. BranchInv([pr[n] EXCEPT !.base = main, !.reg = main, !.state = "open"])
    BY <1>0, <2>1 DEF BranchInv, PullRequests
  <2> QED BY <2>1, <2>2, <2>3, OneBranchChanges
<1>4. ASSUME NEW n \in PRs, MergePR(n)
      PROVE  RegistryInv'
  <2>1. n \in Open /\ main' = pr[n].reg /\ pr' = [pr EXCEPT ![n] = Absent]
    BY <1>4 DEF MergePR
  <2>2. Sound(main')
    BY <1>0, <2>1 DEF BranchInv
  <2>3. \A m \in PRs : pr'[m] # Absent => BranchInv(pr'[m])
    BY <1>0, <2>1 DEF Open, TypeOK
  <2> QED BY <2>2, <2>3 DEF RegistryInv, BranchInv, Open
<1>5. ASSUME NEW n \in PRs, Close(n)
      PROVE  RegistryInv'
  BY <1>5, OneBranchChanges DEF Close
<1>6. ASSUME NEW c \in Changesets, CreateChangeset(c)
      PROVE  RegistryInv'
  <2>1. pr' = pr /\ main \in Registries
    BY <1>6 DEF CreateChangeset, TypeOK
  <2>2. main'.product = main.product /\ main'.table = main.table /\ main'.uses = main.uses
    BY <1>6, <2>1 DEF CreateChangeset, Registries
  <2>3. Sound(main')
    BY <1>0, <2>2, SoundIgnoresChangesets
  <2> QED BY <1>0, <2>1, <2>3 DEF RegistryInv, BranchInv, Open
<1>7. CASE UNCHANGED vars
  BY <1>7 DEF vars, RegistryInv, Open
<1> QED BY <1>1, <1>2, <1>3, <1>4, <1>5, <1>6, <1>7 DEF Next

\* Every registry is sound, and a branch that may be merged is one counted step from the
\* base it was processed on.
THEOREM RegistryInvariant == Spec => []RegistryInv
<1>1. Init => RegistryInv
  BY EmptyIsSound DEF Init, RegistryInv, Open
<1> QED BY <1>1, InvStep, TypeCorrect, PTL DEF Spec

\* No two products of the default branch have one key, no two tables one locator.
THEOREM IdentitiesAreUnique == Spec => []UniqueIdentities
<1>1. RegistryInv => UniqueIdentities
  BY DEF RegistryInv, Sound, UniqueIdentities
<1> QED BY <1>1, RegistryInvariant, PTL

\* Every mapping of the default branch resolves, and products pin what their mappings say.
THEOREM MappingsAlwaysResolve == Spec => []MappingsResolve
<1>1. RegistryInv => MappingsResolve
  BY DEF RegistryInv, Sound, MappingsResolve
<1> QED BY <1>1, RegistryInvariant, PTL

\* What a step of the default branch is: a merge of a branch that is up to date and was
\* processed, a new changeset, or nothing.
LEMMA StepOfMain ==
  ASSUME TypeOK, RegistryInv, [Next]_vars
  PROVE  Counts(main, main') /\ Keeps(main, main')
<1>1. main \in Registries /\ Sound(main)
  BY DEF TypeOK, RegistryInv
<1>2. \A new : new.product = main.product /\ new.table = main.table
        => Counts(main, new) /\ Keeps(main, new)
  BY <1>1, NoTableChangeNoCount DEF Counts, Keeps, Sound
<1>3. CASE main' = main
  BY <1>2, <1>3
<1>4. ASSUME NEW n \in PRs, MergePR(n)
      PROVE  Counts(main, main') /\ Keeps(main, main')
  BY <1>4 DEF MergePR, MergeAllowed, RegistryInv
<1>5. ASSUME NEW c \in Changesets, CreateChangeset(c)
      PROVE  Counts(main, main') /\ Keeps(main, main')
  <2>1. main'.product = main.product /\ main'.table = main.table
    BY <1>1, <1>5, RegistryType DEF CreateChangeset
  <2> QED BY <1>2, <2>1
<1> QED
  BY <1>3, <1>4, <1>5 DEF Next, vars, Intake, Process, BaseSync, Close

\* On the default branch a record that changes gets the next version and one that does
\* not change keeps its version, for any number of concurrent pull requests.
THEOREM VersionsAlwaysCount == Spec => VersionsCountChanges
<1>1. TypeOK /\ RegistryInv /\ [Next]_vars => [Counts(main, main')]_vars
  BY StepOfMain
<1> QED BY <1>1, TypeCorrect, RegistryInvariant, PTL DEF Spec, VersionsCountChanges

\* Keys, locators and retired columns of the default branch are for ever.
THEOREM IdentitiesNeverChange == Spec => IdentitiesAreStable
<1>1. TypeOK /\ RegistryInv /\ [Next]_vars => [Keeps(main, main')]_vars
  BY StepOfMain
<1> QED BY <1>1, TypeCorrect, RegistryInvariant, PTL DEF Spec, IdentitiesAreStable

(***************************************************************************)
(* Shared tables: what a branch changes of them, its changeset covers      *)
(***************************************************************************)
CoversChange(reg, product, t) ==
  \E c \in Changesets :
    /\ reg.changeset[c] # Absent
    /\ product \in reg.changeset[c].products
    /\ t \in reg.changeset[c].tables

\* From old to new no shared table changes without a changeset of the product.
Coordinated(old, new, product) ==
  \A t \in Tables :
    old.table[t] # Absent /\ new.table[t] # old.table[t] /\ Cardinality(Users(old, t)) > 1
      => CoversChange(old, product, t)

\* A branch that is ready is a coordinated step from its base.
CoordinatedInv ==
  \A n \in Open :
    pr[n].state = "ready" => Coordinated(pr[n].base, pr[n].reg, pr[n].req.product)

\* A record that an accepted run writes anew is one that _shared_table_findings sees:
\* an unchanged table gets the record it had, for its retired columns stay retired.
LEMMA WrittenMeansChanged ==
  ASSUME NEW reg, NEW r, NEW base, NEW f, AcceptedRun(reg, r, base, f), Sound(reg),
         NEW t \in Tables, reg.table[t] # Absent, Written(reg, r, f).table[t] # reg.table[t]
  PROVE  \E l \in DOMAIN r.tables : f[l] = t /\ Changed(reg, l, r.tables[l], t)
<1>1. TouchedBy(r, f, t)
  BY WrittenTable
<1>2. PICK l \in DOMAIN r.tables :
        f[l] = t /\ Written(reg, r, f).table[t] = TableRecord(reg, l, r.tables[l], t)
  BY <1>1, WrittenTable
<1>3. SUFFICES ASSUME ~Changed(reg, l, r.tables[l], t) PROVE FALSE
  BY <1>2
<1>4. reg \in Registries /\ reg.table[t] \in TableRecords
  BY RegistryType DEF AcceptedRun
<1>5. reg.table[t].locator = l /\ reg.table[t].cols = r.tables[l].cols
  BY <1>3 DEF Changed
<1>6. l \in Locators
  BY RequestType DEF AcceptedRun
<1>7. At(reg, l) = {t}
  BY <1>5, <1>6 DEF At, Sound, LocatorsUnique
<1>8. Proposed(reg, l, r.tables[l], t) = reg.table[t].version
  <2>1. Proposed(reg, l, r.tables[l], t)
          = Expected(VersionOf(reg.table[t]), Changed(reg, l, r.tables[l], t))
    BY <1>2, ProposedIsExpected
  <2>2. VersionOf(reg.table[t]) = reg.table[t].version /\ reg.table[t].version # NoVersion
    BY <1>4, TableRecordType, MaxVersionAssumption DEF VersionOf, Versions, NoVersion
  <2> QED BY <1>3, <2>1, <2>2 DEF Expected
<1>9. UNION {(reg.table[o].cols \cup reg.table[o].retired) \ r.tables[l].cols : o \in At(reg, l)}
        = reg.table[t].retired
  <2>1. reg.table[t].cols \cap reg.table[t].retired = {}
    BY DEF Sound
  <2>2. (reg.table[t].cols \cup reg.table[t].retired) \ r.tables[l].cols = reg.table[t].retired
    BY <1>5, <2>1
  <2> QED BY <1>7, <2>2
<1>10. TableRecord(reg, l, r.tables[l], t) = reg.table[t]
  BY <1>4, <1>5, <1>8, <1>9 DEF TableRecord, TableRecords
<1> QED BY <1>2, <1>10

LEMMA WrittenIsCoordinated ==
  ASSUME NEW reg, NEW r, NEW base, NEW f, AcceptedRun(reg, r, base, f), Sound(reg)
  PROVE  Coordinated(reg, Written(reg, r, f), r.product)
<1>1. SUFFICES ASSUME NEW t \in Tables, reg.table[t] # Absent,
                      Written(reg, r, f).table[t] # reg.table[t], Cardinality(Users(reg, t)) > 1
               PROVE  CoversChange(reg, r.product, t)
  BY DEF Coordinated
<1>2. t \in SharedChanges(reg, r.tables, f)
  BY <1>1, WrittenMeansChanged DEF SharedChanges
<1>3. /\ r.changeset # NoChangeset /\ reg.changeset[r.changeset] # Absent
      /\ r.product \in reg.changeset[r.changeset].products
      /\ SharedChanges(reg, r.tables, f) \subseteq reg.changeset[r.changeset].tables
  BY <1>2 DEF AcceptedRun, Accepted, ChangesetCovers
<1>4. r.changeset \in Changesets
  BY <1>3, RequestsAssumption DEF AcceptedRun
<1> QED BY <1>2, <1>3, <1>4 DEF CoversChange

\* The branches whose state is "ready" after a step were so before, or were processed by it.
LEMMA CoordinatedStep ==
  ASSUME TypeOK, RegistryInv, CoordinatedInv, [Next]_vars
  PROVE  CoordinatedInv'
<1>0. DOMAIN pr = PRs
  BY DEF TypeOK
<1>1. SUFFICES ASSUME NEW n \in PRs, pr'[n] # Absent, pr'[n].state = "ready"
               PROVE  Coordinated(pr'[n].base, pr'[n].reg, pr'[n].req.product)
  BY DEF CoordinatedInv, Open
<1>2. CASE pr'[n] = pr[n]
  BY <1>1, <1>2 DEF CoordinatedInv, Open
<1>3. CASE pr'[n] # pr[n]
  <2>1. ASSUME NEW m \in PRs, NEW r \in Requests, Intake(m, r)
        PROVE  FALSE
    <3>1. m = n
      BY <1>0, <1>3, <2>1 DEF Intake
    <3>2. pr'[n].state = "open"
      BY <1>0, <2>1, <3>1 DEF Intake
    <3> QED BY <1>1, <3>2
  <2>2. ASSUME NEW m \in PRs, Process(m)
        PROVE  Coordinated(pr'[n].base, pr'[n].reg, pr'[n].req.product)
    <3>1. m \in Open /\ pr[m].state = "open"
      BY <2>2 DEF Process
    <3>2. pr[m] \in PullRequests /\ Sound(pr[m].reg) /\ pr[m].reg = pr[m].base
      BY <3>1, PRType DEF RegistryInv
    <3>3. PICK f \in Resolutions(pr[m].reg, pr[m].req.tables) :
            IF Accepted(pr[m].reg, pr[m].req, pr[m].from, f)
              THEN pr' = [pr EXCEPT ![m].reg = Written(pr[m].reg, pr[m].req, f), ![m].state = "ready"]
              ELSE pr' = [pr EXCEPT ![m].state = "blocked"]
      BY <2>2 DEF Process
    <3>4. CASE Accepted(pr[m].reg, pr[m].req, pr[m].from, f)
      <4> DEFINE w == Written(pr[m].reg, pr[m].req, f)
      <4>1. pr' = [pr EXCEPT ![m].reg = w, ![m].state = "ready"]
        BY <3>3, <3>4
      <4>2. Coordinated(pr[m].reg, w, pr[m].req.product)
        BY <3>1, <3>2, <3>4, ProcessIsARun, WrittenIsCoordinated
      <4> HIDE DEF w
      <4>3. m = n
        BY <1>0, <1>3, <4>1
      <4>4. pr'[n].base = pr[m].base /\ pr'[n].reg = w /\ pr'[n].req = pr[m].req
        BY <1>0, <3>2, <4>1, <4>3 DEF PullRequests
      <4> QED BY <3>2, <4>2, <4>4
    <3>5. CASE ~Accepted(pr[m].reg, pr[m].req, pr[m].from, f)
      <4>1. pr' = [pr EXCEPT ![m].state = "blocked"]
        BY <3>3, <3>5
      <4>2. m = n
        BY <1>0, <1>3, <4>1
      <4>3. pr'[n].state = "blocked"
        BY <1>0, <3>2, <4>1, <4>2 DEF PullRequests
      <4> QED BY <1>1, <4>3
    <3> QED BY <3>4, <3>5
  <2>3. ASSUME NEW m \in PRs, BaseSync(m)
        PROVE  FALSE
    <3>1. m = n /\ pr[m] \in PullRequests
      BY <1>0, <1>3, <2>3, PRType DEF BaseSync
    <3>2. pr'[n].state = "open"
      BY <1>0, <2>3, <3>1 DEF BaseSync, PullRequests
    <3> QED BY <1>1, <3>2
  <2>4. ASSUME NEW m \in PRs, MergePR(m) \/ Close(m)
        PROVE  FALSE
    BY <1>0, <1>1, <1>3, <2>4 DEF MergePR, Close
  <2>5. ASSUME NEW c \in Changesets, CreateChangeset(c)
        PROVE  FALSE
    BY <1>3, <2>5 DEF CreateChangeset
  <2>6. CASE UNCHANGED vars
    BY <1>3, <2>6 DEF vars
  <2> QED BY <2>1, <2>2, <2>3, <2>4, <2>5, <2>6 DEF Next
<1> QED BY <1>2, <1>3

\* Only a merge closes a pull request and moves the default branch.
LEMMA OnlyMergesMove ==
  ASSUME TypeOK, [Next]_vars, NEW n \in PRs, MergedBy(n)
  PROVE  MergePR(n)
<1>1. DOMAIN pr = PRs /\ pr[n] # Absent /\ pr'[n] = Absent /\ main' # main
  BY DEF TypeOK, MergedBy
<1>2. ASSUME NEW m \in PRs, MergePR(m) PROVE m = n
  BY <1>1, <1>2 DEF MergePR
<1>3. ASSUME NEW c \in Changesets, CreateChangeset(c) PROVE FALSE
  BY <1>1, <1>3 DEF CreateChangeset
<1>4. ASSUME NEW m \in PRs, NEW r \in Requests, Intake(m, r) PROVE FALSE
  BY <1>1, <1>4 DEF Intake
<1>5. ASSUME NEW m \in PRs, Process(m) PROVE FALSE
  BY <1>1, <1>5 DEF Process
<1>6. ASSUME NEW m \in PRs, BaseSync(m) PROVE FALSE
  BY <1>1, <1>6 DEF BaseSync
<1>7. ASSUME NEW m \in PRs, Close(m) PROVE FALSE
  BY <1>1, <1>7 DEF Close
<1>8. CASE UNCHANGED vars
  BY <1>1, <1>8 DEF vars
<1> QED BY <1>2, <1>3, <1>4, <1>5, <1>6, <1>7, <1>8 DEF Next

\* A shared table of the default branch changes only in a pull request whose changeset
\* includes its product and that table, whatever else was merged while it was open.
THEOREM SharedChangesCoordinated == Spec => SharedChangesAreCoordinated
<1>1. Init => CoordinatedInv
  BY DEF Init, CoordinatedInv, Open
<1>2. ASSUME TypeOK, CoordinatedInv, [Next]_vars,
             NEW n \in PRs, NEW t \in Tables, MergedBy(n), ChangedOnMain(t),
             Cardinality(Users(main, t)) > 1
      PROVE  CoversChange(main, pr[n].req.product, t)
  <2>1. MergePR(n)
    BY <1>2, OnlyMergesMove
  <2>2. Coordinated(main, main', pr[n].req.product)
    BY <1>2, <2>1 DEF MergePR, MergeAllowed, CoordinatedInv
  <2> QED BY <1>2, <2>2 DEF ChangedOnMain, Coordinated
<1> DEFINE OneStep ==
      \A n \in PRs, t \in Tables :
        MergedBy(n) /\ ChangedOnMain(t) /\ Cardinality(Users(main, t)) > 1 =>
          \E c \in Changesets :
            /\ main.changeset[c] # Absent
            /\ pr[n].req.product \in main.changeset[c].products
            /\ t \in main.changeset[c].tables
<1>3. TypeOK /\ CoordinatedInv /\ [Next]_vars => [OneStep]_vars
  BY <1>2 DEF CoversChange
<1>4. Spec => []CoordinatedInv
  BY <1>1, CoordinatedStep, TypeCorrect, RegistryInvariant, PTL DEF Spec
<1> QED BY <1>3, <1>4, TypeCorrect, PTL DEF Spec, SharedChangesAreCoordinated
=============================================================================
