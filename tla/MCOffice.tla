------------------------------- MODULE MCOffice -------------------------------
(***************************************************************************)
(* One run for what comes from outside and is kept: the tokens and the     *)
(* events of the CRM, and what the bot has read, the documents and the     *)
(* answers of the merchant.  None of them writes what another one reads,   *)
(* so a behaviour is one of the part in focus and the others stand still.  *)
(***************************************************************************)
EXTENDS GhlTokens, CrmEvents, Knowledge, TLC

CONSTANTS l1, l2, x1, x2,
          MaxLen  \* bound: marks of a text

VARIABLE focus

-----------------------------------------------------------------------------
(* The instance. *)

\* Texts up to MaxLen marks: words, stops behind them and breaks before the next word.
MCTexts ==
  LET follows(m) == CASE m = "word" -> Marks
                      [] m = "stop" -> {"space", "par"}
                      [] OTHER -> {"word"}
      texts[n \in 1..MaxLen] ==
        IF n = 1 THEN {<<"word">>}
        ELSE UNION {{Append(p, m) : m \in follows(p[n - 1])} : p \in texts[n - 1]}
  IN  UNION {{s \in texts[n] : s[n] \in {"word", "stop"}} : n \in 1..MaxLen}

-----------------------------------------------------------------------------
(* The parts. *)

vars == <<focus, ghlVars, crmVars, knowledgeVars>>

\* The parts that stand still start in one state.
Init ==
  /\ focus \in {"ghl", "crm", "kb", "faq", "chunker"}
  /\ GhlInit /\ CrmInit /\ KnowledgeInit
  /\ focus # "chunker" => text = <<"word">>

InGhl(A) == focus = "ghl" /\ A /\ UNCHANGED <<focus, crmVars, knowledgeVars>>
InCrm(A) == focus = "crm" /\ A /\ UNCHANGED <<focus, ghlVars, knowledgeVars>>
Reads(part, A) == focus = part /\ A /\ UNCHANGED <<focus, ghlVars, crmVars>>

Next ==
  \/ InGhl(GhlNext) \/ InCrm(CrmNext)
  \/ Reads("kb", KbStep) \/ Reads("faq", FaqStep) \/ Reads("chunker", ChunkerStep)

Spec == Init /\ [][Next]_vars

=============================================================================
