---- MODULE Chunker ----
(***************************************************************************)
(* chunk_text (rag/chunker.py): paragraphs are packed into windows, and a  *)
(* window that is too long is split at a sentence or at a word.  Every     *)
(* window and every piece is a stretch of the text, from its first         *)
(* character to the one after its last; a character is what the chunker    *)
(* tells apart, and "par" the break between two paragraphs.  Default       *)
(* sizes: 1600 characters, of which 200 overlap.                           *)
(***************************************************************************)
EXTENDS Naturals, Sequences

CONSTANTS Texts,     \* normalised texts: no break at either end, none doubled
          Target,    \* target_chars
          Overlap    \* overlap_chars

Marks == {"word", "space", "stop", "par"}

ASSUME ChunkerAssumption ==
  /\ Target \in Nat \ {0} /\ Overlap \in Nat
  /\ \A t \in Texts :
       /\ t \in Seq(Marks) /\ t # <<>>
       /\ t[1] # "par" /\ t[Len(t)] # "par"
       /\ \A i \in 1..Len(t) - 1 : t[i] = "par" => t[i + 1] # "par"

VARIABLES text,     \* the normalised text
          text_at,  \* where the next paragraph begins
          buffer,   \* the window being filled, <<>> before the first paragraph
          windows,  \* chunk_text's windows that wait to be split
          start,    \* where the next piece of the first window begins, or 0
          pieces    \* the result

chunkerVars == <<text, text_at, buffer, windows, start, pieces>>

Size(s) == s.to - s.from
Least(m, n) == IF m < n THEN m ELSE n
Most(m, n) == IF m < n THEN n ELSE m
LastOf(S) == CHOOSE i \in S : \A j \in S : j <= i
FirstOf(S) == CHOOSE i \in S : \A j \in S : i <= j

Stretches == [from : 1..Len(text) + 1, to : 1..Len(text) + 1]

ChunkerTypeOK ==
  /\ text \in Seq(Marks) /\ text_at \in Nat /\ start \in Nat
  /\ buffer \in Seq(Stretches) /\ windows \in Seq(Stretches) /\ pieces \in Seq(Stretches)

ChunkerInit ==
  /\ text \in Texts /\ text_at = 1 /\ buffer = <<>> /\ windows = <<>> /\ start = 0 /\ pieces = <<>>

ParagraphEnd == FirstOf({i \in text_at..Len(text) + 1 : i = Len(text) + 1 \/ text[i] = "par"})

(* One turn of the loop over the paragraphs: the paragraph joins the       *)
(* window if it fits, or begins one that repeats the tail of the last.     *)
TakeParagraph ==
  LET b == buffer[1]
      e == ParagraphEnd
      tail == IF Overlap > 0 THEN Most(b.from, b.to - Least(b.to, Overlap)) ELSE text_at IN
  /\ text_at <= Len(text)
  /\ \/ /\ buffer = <<>>
        /\ buffer' = <<[from |-> text_at, to |-> e]>> /\ UNCHANGED windows
     \/ /\ buffer # <<>> /\ e - b.from <= Target
        /\ buffer' = <<[b EXCEPT !.to = e]>> /\ UNCHANGED windows
     \/ /\ buffer # <<>> /\ e - b.from > Target
        /\ windows' = Append(windows, b) /\ buffer' = <<[from |-> tail, to |-> e]>>
  /\ text_at' = e + 1
  /\ UNCHANGED <<text, start, pieces>>

(* The last window follows the others to _split_oversized. *)
CloseWindow ==
  /\ text_at > Len(text) /\ buffer # <<>>
  /\ windows' = Append(windows, buffer[1]) /\ buffer' = <<>>
  /\ UNCHANGED <<text, text_at, start, pieces>>

Done == text_at > Len(text) /\ buffer = <<>>

(* _boundary_before: the last end of a sentence among the last quarter of  *)
(* a piece, else of a line, else of a word, else where the size ends.      *)
BoundaryBefore(from, hardEnd) ==
  LET lookback == Least(Target \div 4, hardEnd - from - 1)
      window == (hardEnd - lookback)..(hardEnd - 1)
      Two(m) == {i \in window : i + 1 \in window /\ text[i] = "stop" /\ text[i + 1] = m}
      One(m) == {i \in window : text[i] = m} IN
  IF Two("space") # {} THEN LastOf(Two("space")) + 2
  ELSE IF Two("par") # {} THEN LastOf(Two("par")) + 2
  ELSE IF One("par") # {} THEN LastOf(One("par")) + 1
  ELSE IF One("space") # {} THEN LastOf(One("space")) + 1
  ELSE hardEnd

(* Mutant: the space may lie beyond the end of the piece. *)
OverlapBeyond(from, end) ==
  LET back == Most(end - Least(end, Overlap), from + 1)
      spaces == {i \in back..Len(text) : text[i] = "space"} IN
  IF Overlap = 0 THEN end
  ELSE IF back < end /\ spaces # {} THEN FirstOf(spaces) + 1 ELSE back

(* _overlap_start: some characters back from the end of a piece, forward   *)
(* to a word, and always beyond the start of that piece.                   *)
OverlapStart(from, end) ==
  LET back == Most(end - Least(end, Overlap), from + 1)
      spaces == {i \in back..(end - 1) : text[i] = "space"} IN
  IF Overlap = 0 THEN end
  ELSE IF back < end /\ spaces # {} THEN FirstOf(spaces) + 1 ELSE back

KeepWindow ==
  /\ Done /\ windows # <<>> /\ start = 0 /\ Size(Head(windows)) <= Target
  /\ pieces' = Append(pieces, Head(windows)) /\ windows' = Tail(windows)
  /\ UNCHANGED <<text, text_at, buffer, start>>

(* One turn of _split_oversized's inner loop. *)
CutPiece ==
  LET w == Head(windows)
      from == IF start = 0 THEN w.from ELSE start
      hardEnd == Least(w.to, from + Target)
      end == IF hardEnd >= w.to THEN hardEnd ELSE BoundaryBefore(from, hardEnd) IN
  /\ Done /\ windows # <<>> /\ (start # 0 \/ Size(w) > Target)
  /\ pieces' = Append(pieces, [from |-> from, to |-> end])
  /\ IF end >= w.to THEN windows' = Tail(windows) /\ start' = 0
                    ELSE start' = OverlapStart(from, end) /\ UNCHANGED windows
  /\ UNCHANGED <<text, text_at, buffer>>

ChunkerNext == TakeParagraph \/ CloseWindow \/ KeepWindow \/ CutPiece

ChunkerSpec == ChunkerInit /\ [][ChunkerNext]_chunkerVars

In(i, S) == \E k \in DOMAIN S : S[k].from <= i /\ i < S[k].to

(* Where the text still to be cut begins. *)
Pending(i) ==
  \/ i >= text_at
  \/ In(i, buffer)
  \/ windows # <<>> /\ In(i, Tail(windows))
  \/ windows # <<>> /\ i < Head(windows).to /\ i >= (IF start = 0 THEN Head(windows).from ELSE start)

(* No character of a paragraph is lost between two pieces or two windows:  *)
(* whatever boundary is chosen and however long the overlap, what the      *)
(* document says is embedded, and no piece is longer than the embedder's   *)
(* budget.                                                                 *)
NothingLost == \A i \in 1..Len(text) : text[i] # "par" => In(i, pieces) \/ Pending(i)
WithinBudget == \A k \in DOMAIN pieces : pieces[k].to > pieces[k].from /\ Size(pieces[k]) <= Target

(* The next piece begins beyond the last one's start and not beyond its    *)
(* end: splitting makes progress and leaves no gap.                        *)
Progress ==
  start # 0 => /\ pieces # <<>> /\ windows # <<>>
               /\ LET p == pieces[Len(pieces)] IN p.from < start /\ start <= p.to

ChunkerSafe == ChunkerTypeOK /\ NothingLost /\ WithinBudget /\ Progress
====
