--------------------------- MODULE MCLanguageModel ---------------------------
(* Model checking LanguageModel: a remote and a local endpoint, with every   *)
(* pair of modes that differ in what they allow.                             *)
EXTENDS LanguageModel

Choice(provider, endpoint, grounding, retry, fewShot) ==
  [provider |-> provider, endpoint |-> endpoint, grounding |-> grounding, retry |-> retry, fewShot |-> fewShot]

Choices ==
  {Choice("stub", "remote", "on", "on", FALSE), Choice("llm", "remote", "auto", "auto", TRUE),
   Choice("llm", "local", "auto", "auto", FALSE)}
=============================================================================
