-------------------------- MODULE MCTranslationRun --------------------------
(* Instances of TranslationRun for TLC.                                    *)
EXTENDS TranslationRun
=============================================================================
