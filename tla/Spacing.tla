------------------------------- MODULE Spacing -------------------------------
(***************************************************************************)
(* Candidates for the spacing of a text, their defects, the candidate that *)
(* is built from a proposal of the model, and the fallback of a candidate  *)
(* set. The characters of a text are fixed: a rendering says what is in    *)
(* each gap between two of them, and that is also the candidate's id.      *)
(***************************************************************************)
EXTENDS Integers, Sequences, FiniteSets, SequencesExt

CONSTANT NoCandidate

GapStates == {"none", "space", "hard_break"}

(* A candidate set is [name, type, text, candidates]; a text is             *)
(*   [gaps, token : what a gap inside a token belongs to,                   *)
(*    closing, opening : the gaps before and after such punctuation,        *)
(*    mutable : the gaps a proposal may change, scoped : not simply all].   *)
(* A candidate is [id, rank : the order of the ids, score, sourced, proof]. *)

Ids(candidates) == {candidates[i].id : i \in DOMAIN candidates}
CandidateOf(candidates, id) == CHOOSE c \in ToSet(candidates) : c.id = id

\* Sorted by falling score and then by id.
Precedes(c, d) == c.score > d.score \/ (c.score = d.score /\ c.rank < d.rank)
ByScore(candidates) == SetToSortSeq(ToSet(candidates), Precedes)

\* max(..., key=(score, candidate_id)): among equals the last id, not the first.
Best(candidates) ==
  CHOOSE c \in candidates : \A d \in candidates \ {c} :
    c.score > d.score \/ (c.score = d.score /\ c.rank > d.rank)

-----------------------------------------------------------------------------
(* The gaps of a kind of token that a rendering splits. Defects are looked  *)
(* for line by line, so a token that a hard break divides is not one.       *)
Splits(text, rendering, kind, states) ==
  \E g \in DOMAIN text.token : text.token[g] = kind /\ rendering[g] \in states

\* The code of the first check that applies.
FirstCode(checks) ==
  Head(SelectSeq(checks, LAMBDA check : check.applies) \o <<[applies |-> TRUE, code |-> "none"]>>).code
Check(applies, code) == [applies |-> applies, code |-> code]

SplitDefect(text, rendering) ==
  LET split(kind) == Splits(text, rendering, kind, {"space"})
      code == FirstCode(<<Check(split("identifier"), "IDENTIFIER_WHITESPACE_SPLIT"),
                          Check(split("qualified"), "QUALIFIED_IDENTIFIER_WHITESPACE_SPLIT"),
                          Check(split("protected"), "PROTECTED_TOKEN_WHITESPACE_SPLIT")>>)
  IN  IF code = "none" THEN <<>> ELSE <<code>>

\* The other control characters cannot be in a rendering: _render_boundaries.
DefectCodes(text, rendering) ==
  SplitDefect(text, rendering)
  \o (IF \E g \in text.closing : rendering[g] = "space"
      THEN <<"PUNCTUATION_WHITESPACE_BEFORE">> ELSE <<>>)
  \o (IF \E g \in text.opening : rendering[g] = "space"
      THEN <<"PUNCTUATION_WHITESPACE_AFTER_OPEN">> ELSE <<>>)

Defects(set, candidate) ==
  IF set.type = "spacing" THEN DefectCodes(set.text, candidate.id) ELSE <<>>

-----------------------------------------------------------------------------
(* What the model proposes is a text: its characters may differ, and it may *)
(* hold whitespace no rendering has, as a tab, two spaces in a gap or a     *)
(* line feed at the end.                                                    *)
Proposals(text) ==
  [characters : {"kept"}, whitespace : {"plain", "extra"}, rendering : [text.gaps -> GapStates]]
  \cup [characters : {"kept", "changed"}, whitespace : {"control"},
        rendering : {[g \in text.gaps |-> "none"]}]

HardBreaks(text, rendering) == {g \in text.gaps : rendering[g] = "hard_break"}

\* What the validators of SpacingCandidate refuse. Their ValidationError is a
\* ValueError whose text is not a code.
Unrenderable(text, proposal) ==
  \/ proposal.whitespace = "extra"
  \/ text.scoped /\ HardBreaks(text, proposal.rendering) \cap text.mutable # {}

\* The order of the checks of build_generated_candidate, up to the candidate.
Rejection(text, anchor, proposal) ==
  LET r == proposal.rendering
      divided(kind) == Splits(text, r, kind, {"space", "hard_break"})
  IN  FirstCode(<<
        Check(proposal.characters = "changed", "SPACING_REPAIR_CHARACTER_MISMATCH"),
        Check(proposal.whitespace = "control", "SPACING_REPAIR_CONTROL_SEPARATOR"),
        Check(divided("identifier"), "SPACING_REPAIR_IDENTIFIER_SPLIT"),
        Check(divided("protected"), "SPACING_REPAIR_PROTECTED_TOKEN_SPLIT"),
        Check(Unrenderable(text, proposal), "invalid"),
        Check(HardBreaks(text, r) # HardBreaks(text, anchor), "SPACING_REPAIR_HARD_LINE_BOUNDARY_MISMATCH"),
        Check(\E g \in text.gaps \ text.mutable : r[g] # anchor[g],
              "SPACING_REPAIR_IMMUTABLE_BOUNDARY_MISMATCH")>>)

\* _run_spacing_repair asks for the defects of the new candidate as well.
RepairCode(text, anchor, proposal) ==
  LET code == Rejection(text, anchor, proposal)
      defects == DefectCodes(text, proposal.rendering)
  IN  IF code = "none" /\ defects # <<>> THEN Head(defects) ELSE code

-----------------------------------------------------------------------------
(* fallback_spacing_candidate, and the best candidate of any other set.     *)
FallbackIsUnsafe(set, c) == Defects(set, c) # <<>>

SafeFallbacks(set) ==
  LET all     == ToSet(set.candidates)
      safe    == {c \in all : ~FallbackIsUnsafe(set, c)}
      sourced == {c \in safe : c.sourced}
  IN  IF set.type # "spacing" THEN all ELSE IF sourced # {} THEN sourced ELSE safe

Fallback(set) == IF SafeFallbacks(set) = {} THEN NoCandidate ELSE Best(SafeFallbacks(set))
=============================================================================
