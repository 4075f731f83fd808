------------------------------ MODULE Ownership ------------------------------
(***************************************************************************)
(* What the handoff promises (ADR 0017), with no row, job or event table:  *)
(* a thread has one owner; each human episode that the software opens is   *)
(* announced to the operators at most once, and one that an operator opens *)
(* is never announced.                                                     *)
(***************************************************************************)
EXTENDS Integers

CONSTANT MaxEpisodes   \* bound: how often the thread is given back

Episodes == 1..(MaxEpisodes + 1)

VARIABLES owner,      \* "bot" or "human"
          episode,    \* number of the current, or next, human episode
          opened,     \* episodes the software opened
          announced   \* announcements of each episode

ownership == <<owner, episode, opened, announced>>

Init ==
  /\ owner = "bot"
  /\ episode = 1
  /\ opened = {}
  /\ announced = [e \in Episodes |-> 0]

Announced(e) == announced' = [announced EXCEPT ![e] = 1]

\* The software hands the thread off, and may announce it in the same breath.
HandOff ==
  /\ owner = "bot"
  /\ owner' = "human"
  /\ opened' = opened \union {episode}
  /\ Announced(episode) \/ UNCHANGED announced
  /\ UNCHANGED episode

\* An operator takes the thread: nobody needs to be told.
TakeOver ==
  /\ owner = "bot"
  /\ owner' = "human"
  /\ UNCHANGED <<episode, opened, announced>>

\* The late announcement of an episode, whoever owns the thread by then.
AnnounceLate(e) ==
  /\ e \in opened
  /\ announced[e] = 0
  /\ Announced(e)
  /\ UNCHANGED <<owner, episode, opened>>

GiveBack ==
  /\ owner = "human"
  /\ owner' = "bot"
  /\ episode' = episode + 1
  /\ UNCHANGED <<opened, announced>>

Next ==
  \/ HandOff
  \/ TakeOver
  \/ GiveBack
  \/ \E e \in Episodes : AnnounceLate(e)

Spec == Init /\ [][Next]_ownership

=============================================================================
