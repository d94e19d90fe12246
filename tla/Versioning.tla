----------------------------- MODULE Versioning -----------------------------
(***************************************************************************)
(* plan_version: the one rule by which products and tables get numeric     *)
(* versions.  A version that is None in the code is NoVersion here.        *)
(***************************************************************************)
EXTENDS Naturals

CONSTANT MaxVersion   \* 999

ASSUME MaxVersionAssumption == MaxVersion \in Nat \ {0}

NoVersion == 0

Versions == 1..MaxVersion

MaybeVersion == Versions \cup {NoVersion}

\* _next_version and expected: the version an entity at `current` must get.
Expected(current, changed) ==
  IF current # NoVersion /\ ~changed THEN current ELSE current + 1

\* Mutant: an edit may keep its number.
Code_KeepsNumber(current, changed, base, proposed) ==
  IF base # current THEN "VERSION_STALE"
  ELSE IF proposed \in {NoVersion, current, current + 1} THEN "ADVANCE" ELSE "VERSION_GAP"

\* The code of the decision, in the order of its early returns.
Code(current, changed, base, proposed) ==
  IF base # current THEN "VERSION_STALE"
  ELSE IF current # NoVersion /\ ~changed
    THEN IF proposed \in {NoVersion, current} THEN "NO_CHANGE" ELSE "VERSION_NO_CHANGE"
  ELSE IF current = MaxVersion THEN "VERSION_LIMIT_REACHED"
  ELSE IF proposed \in {NoVersion, current + 1}
    THEN IF current = NoVersion THEN "NEW_V1" ELSE "ADVANCE"
  ELSE IF proposed <= current THEN "VERSION_COLLISION" ELSE "VERSION_GAP"

\* VersionOutcome.ALLOW; a proposed version out of range is a ValueError.
Allows(current, changed, base, proposed) ==
  /\ proposed \in MaybeVersion
  /\ Code(current, changed, base, proposed) \in {"NEW_V1", "NO_CHANGE", "ADVANCE"}
=============================================================================
