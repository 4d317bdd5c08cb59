----------------------- MODULE MCKnowledgeVersioning -----------------------
(* Instances of KnowledgeVersioning: one vocabulary and one template.      *)
EXTENDS KnowledgeVersioning, TLC

CONSTANTS vocabulary, template, a, b, w1, w2

MCRecords  == {vocabulary, template}
MCVocab    == {vocabulary}
MCSeedPack == <<[rec |-> vocabulary, payload |-> {a}],
                [rec |-> template,   payload |-> {a}]>>
MCNoSeed   == <<>>
Symmetry   == Permutations(ApiWriters)
=============================================================================
