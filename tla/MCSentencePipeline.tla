------------------------- MODULE MCSentencePipeline -------------------------
(* SentencePipeline for TLC: a text of a few sentences.                    *)
EXTENDS SentencePipeline
=============================================================================
