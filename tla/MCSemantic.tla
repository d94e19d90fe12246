------------------------------ MODULE MCSemantic ------------------------------
(***************************************************************************)
(* Small instances of Adjudication: a spacing whose best candidate splits  *)
(* an identifier, one of which every candidate has a defect, a block with  *)
(* three close candidates, a table the evidence proves, and the same sets  *)
(* under another policy or evidence. Beside it, small instances of         *)
(* SemanticReplay, where whole documents are decided for several products, *)
(* and of Conversion: two office documents with tables, one of them nested *)
(* or around another's text, a scan whose table is on another page than    *)
(* the text around it, a print with running edges, a footer inside the     *)
(* region of a table, and evidence without a box or a page. A behaviour is *)
(* of one of the three.                                                    *)
(***************************************************************************)
EXTENDS Adjudication, SemanticReplay, Conversion

VARIABLE part

Candidate(id, rank, score, sourced, proof) ==
  [id |-> id, rank |-> rank, score |-> score, sourced |-> sourced, proof |-> proof]
Set(type, text, cs) == [type |-> type, text |-> text, candidates |-> cs]

NoText == [gaps |-> {}, token |-> <<>>, closing |-> {}, opening |-> {}, mutable |-> {}, scoped |-> FALSE]
Gaps == {1, 2}
Text(token, closing, scoped) ==
  [gaps |-> Gaps, token |-> token, closing |-> closing, opening |-> {},
   mutable |-> IF scoped THEN {2} ELSE Gaps, scoped |-> scoped]
Rendering(g1, g2) == [g \in Gaps |-> IF g = 1 THEN g1 ELSE g2]

Identifier == Text([g \in {1} |-> "identifier"], {2}, TRUE)
SpacingSet ==
  Set("spacing", Identifier,
      <<Candidate(Rendering("none", "none"), 1, 60, TRUE, "none"),
        Candidate(Rendering("space", "none"), 2, 70, FALSE, "none")>>)
Broken == Text(<<>>, {2}, FALSE)
BrokenSet ==
  Set("spacing", Broken,
      <<Candidate(Rendering("none", "space"), 1, 60, TRUE, "none"),
        Candidate(Rendering("space", "space"), 2, 60, FALSE, "none")>>)
BlockSet ==
  Set("block", NoText,
      <<Candidate(<<"heading">>, 2, 70, FALSE, "none"), Candidate(<<"paragraph">>, 1, 70, FALSE, "none"),
        Candidate(<<"caption">>, 3, 40, FALSE, "none")>>)
TableSet ==
  Set("table", NoText,
      <<Candidate(<<"hinted">>, 1, 50, FALSE, "grid"), Candidate(<<"drawn">>, 2, 90, FALSE, "none")>>)
SureSet ==
  Set("recognition", NoText,
      <<Candidate(<<"embedded">>, 1, 95, FALSE, "none"), Candidate(<<"ocr">>, 2, 60, FALSE, "none")>>)

Policy(confidence, recovery) ==
  [auto_accept_score |-> 82, auto_accept_margin |-> 12, minimum_confidence |-> confidence,
   max_candidates |-> 5, max_schema_attempts |-> 2, recovery_attempts |-> recovery]
Default == Policy(2, 2)

Asked(set, evidence, policy, provider) ==
  [set |-> set, evidence |-> evidence, policy |-> policy, provider |-> provider]

MCRequests ==
  {Asked(set, "e1", Default, "p") : set \in {SpacingSet, BrokenSet, BlockSet, TableSet, SureSet}}
  \cup {Asked(SpacingSet, "e1", Policy(1, 2), "p"), Asked(BlockSet, "e1", Policy(2, 1), "p"),
        Asked(BlockSet, "e2", Default, "p"), Asked(SpacingSet, "e1", Default, "none")}

Codes4 == <<"WORD_JOINED", "WORD_SPLIT", "PARTICLE_SPLIT", "PUNCTUATION">>
MCVerifierCodes == {<<>>, <<"WORD_SPLIT">>, Codes4}
MCCounts == {[retries |-> 0, repairs |-> 0], [retries |-> 1, repairs |-> 1]}

MCRender(doc, answers) == <<doc, answers>>

Native(mode, pageOf, pages, tables, groups, edges) ==
  [mode |-> mode, page |-> pageOf, pages |-> pages, boxed |-> DOMAIN pageOf, tables |-> tables,
   groups |-> groups, edges |-> edges, threshold |-> 2]
Nested == Native("docx_xml", <<0, 0, 0>>, 0, <<<<1, 3>>, <<2>>>>, <<>>, {})
Office == Native("docx_xml", <<0, 0, 0>>, 0, <<<<2, 3>>>>, <<<<1>>>>, {})
Scanned == Native("ocr", <<1, 2, 1>>, 2, <<<<2>>>>, <<<<1>>, <<3>>>>, {})
Printed == Native("pdf_embedded", <<1, 1, 2>>, 2, <<>>, <<<<1, 2>>, <<3>>>>, {1, 3})
Unboxed == [Native("pdf_embedded", <<1, 1>>, 1, <<>>, <<<<1, 2>>>>, {}) EXCEPT !.boxed = {1}]
Pageless == Native("ocr", <<1, 0>>, 1, <<>>, <<<<1>>, <<2>>>>, {})
Footed == [Native("ocr", <<1, 1, 1, 2>>, 2, <<<<1, 3>>>>, <<<<2>>, <<4>>>>, {2, 4}) EXCEPT !.boxed = 2..4]
MCNatives ==
  {[doc |-> Nested, hints |-> {<<>>, <<Block("table", <<2>>)>>, <<Block("table", <<1, 3>>), Block("table", <<2>>)>>}],
   [doc |-> Office, hints |-> {<<>>, <<Block("text", <<1>>), Block("regrid", <<2, 3>>)>>, <<Block("text", <<1>>), Block("text", <<1>>), Block("table", <<2, 3>>)>>}],
   [doc |-> Scanned, hints |-> {<<>>, <<Block("text", <<1>>)>>, <<Block("table", <<2>>), Block("text", <<3>>)>>}],
   [doc |-> Printed, hints |-> {<<>>, <<Block("text", <<1>>), Block("text", <<2>>), Block("text", <<3>>)>>}],
   [doc |-> Unboxed, hints |-> {<<>>, <<Block("text", <<1>>), Block("text", <<1, 2>>)>>}],
   [doc |-> Footed, hints |-> {<<Block("table", <<1, 3>>), Block("text", <<2>>), Block("text", <<4>>)>>}],
   [doc |-> Pageless, hints |-> {<<>>}]}
Setting(mode, provider, propagate, drifted) ==
  [mode |-> mode, provider |-> provider, propagate |-> propagate, drifted |-> drifted]
MCSettings == {Setting("legacy", TRUE, FALSE, FALSE), Setting("legacy", TRUE, TRUE, FALSE), Setting("legacy", FALSE, FALSE, FALSE),
   Setting("legacy", TRUE, FALSE, TRUE), Setting("shadow", FALSE, FALSE, FALSE), Setting("candidate", TRUE, FALSE, FALSE)}

OneDecision ==
  /\ request = Asked(SureSet, "e1", Default, "p")
  /\ stage = "idle" /\ attempts = <<>> /\ record = NoRecord /\ trusted = <<>> /\ runs = 1

OneDocument ==
  /\ job = Job(Office, <<>>, Setting("candidate", TRUE, FALSE, FALSE))
  /\ phase = "published" /\ page = 1 /\ texts = <<0, 0, 0>> /\ audits = <<>> /\ warnings = {}
  /\ placed = NoDocument /\ plans = <<>> /\ repair = NoRepair /\ final = NoDocument
  /\ verdict = "none" /\ saved = NotSaved /\ conversions = MaxConversions

SemanticInit ==
  /\ ReplayInit
  /\ \/ part = "decision" /\ Init /\ OneDocument
     \/ part = "documents" /\ OneDecision /\ OneDocument
     \/ part = "conversion" /\ OneDecision /\ ConvertInit

SemanticNext ==
  /\ UNCHANGED part
  /\ \/ part = "decision" /\ Next /\ UNCHANGED <<replayVars, convertVars>>
     \/ part = "documents" /\ ReplayNext /\ UNCHANGED <<vars, convertVars>>
     \/ part = "conversion" /\ ConvertNext /\ UNCHANGED <<vars, replayVars>>

SemanticSpec == SemanticInit /\ [][SemanticNext]_<<part, vars, replayVars, convertVars>>
===============================================================================
