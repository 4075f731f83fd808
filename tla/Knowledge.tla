------------------------------- MODULE Knowledge -------------------------------
(***************************************************************************)
(* What the bot has read: the documents of the knowledge base, the corpus  *)
(* of frequent questions, and the pieces that a text is cut into.  The     *)
(* three share no state: a step is a step of one of them.                  *)
(***************************************************************************)
EXTENDS KbDoc, FaqCorpus, Chunker

knowledgeVars == <<kbVars, faqVars, chunkerVars>>

KnowledgeInit == KbInit /\ FaqInit /\ ChunkerInit

KbStep == KbNext /\ UNCHANGED <<faqVars, chunkerVars>>
FaqStep == FaqNext /\ UNCHANGED <<kbVars, chunkerVars>>
ChunkerStep == ChunkerNext /\ UNCHANGED <<kbVars, faqVars>>

KnowledgeNext == KbStep \/ FaqStep \/ ChunkerStep

KnowledgeSpec == KnowledgeInit /\ [][KnowledgeNext]_knowledgeVars

\* What the bot has read is one copy of the newest text, in pieces that lose nothing
\* (KbDoc, FaqCorpus, Chunker).
KnowledgeSafe == KbSafe /\ FaqSafe /\ ChunkerSafe

=============================================================================
