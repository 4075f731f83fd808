---- MODULE KbDoc ----
(***************************************************************************)
(* One document of a merchant's knowledge base and the jobs that index it  *)
(* (routers/knowledge_base.py, workers/scheduler/kb_reindex.py,            *)
(* rag/indexer.py).  The document is a link: its page changes, and only    *)
(* the run that holds the row's lock reads it.  The text of page p is cut  *)
(* into as many chunks as p, the blank pages into none.                    *)
(***************************************************************************)
EXTENDS Naturals, FiniteSets

CONSTANTS Indexers,    \* kb_reindex jobs that run at a time
          Blank,       \* pages from which no text can be extracted
          MaxPages,    \* bound: times the page changes
          MaxManual,   \* bound: reindexes asked by hand
          MaxBreaks    \* bound: failures and cuts of a run

ASSUME KbAssumption ==
  /\ IsFiniteSet(Indexers) /\ 0 \notin Indexers
  /\ MaxPages \in Nat \ {0} /\ {MaxManual, MaxBreaks} \subseteq Nat

VARIABLES page,      \* the page the link leads to
          request,   \* create_doc's transaction: "none", "flushed", "committed"
          doc,       \* the committed row: its status and chunk_count
          chunks,    \* the chunks committed: page -> how many times over
          jobs,      \* the ids queued; 0 is create_doc's, n the n-th by hand
          asked,     \* reindexes asked by hand
          lock,      \* the transaction that holds the row
          ix,        \* the runs
          newest,    \* history: the newest page a committed run has read
          failed,    \* history: the last run to end has failed
          breaks     \* failures and cuts so far

kbVars == <<page, request, doc, chunks, jobs, asked, lock, ix, newest, failed, breaks>>

Pages == 1..MaxPages
None == 0
Absent == [status |-> "absent", count |-> 0]
Resting == [pc |-> "idle", job |-> 0, count |-> 0, text |-> 0]

Pieces(p) == IF p \in Blank THEN 0 ELSE p

KbTypeOK ==
  /\ page \in Pages /\ request \in {"none", "flushed", "committed"}
  /\ doc \in [status : {"absent", "pending", "indexed", "empty", "failed"}, count : 0..MaxPages]
  /\ chunks \in [Pages -> 0..Cardinality(Indexers)]
  /\ jobs \subseteq 0..MaxManual /\ asked \in 0..MaxManual /\ lock \in Indexers \cup {None}
  /\ ix \in [Indexers -> [pc : {"idle", "found", "loaded", "locked", "cut"},
                          job : 0..MaxManual, count : 0..MaxPages, text : 0..MaxPages]]
  /\ newest \in 0..MaxPages /\ failed \in BOOLEAN /\ breaks \in 0..MaxBreaks

KbInit ==
  /\ page = 1 /\ request = "none" /\ doc = Absent /\ chunks = [p \in Pages |-> 0]
  /\ jobs = {} /\ asked = 0 /\ lock = None /\ ix = [x \in Indexers |-> Resting]
  /\ newest = 0 /\ failed = FALSE /\ breaks = 0

(* create_doc: the row is flushed and its job queued inside the request's  *)
(* transaction, which commits when the handler has returned.               *)
CreateDoc ==
  /\ request = "none" /\ request' = "flushed" /\ jobs' = jobs \cup {0}
  /\ UNCHANGED <<page, doc, chunks, asked, lock, ix, newest, failed, breaks>>

CommitDoc ==
  /\ request = "flushed" /\ request' = "committed"
  /\ doc' = [status |-> "pending", count |-> 0]
  /\ UNCHANGED <<page, chunks, jobs, asked, lock, ix, newest, failed, breaks>>

(* reindex: an id per second, so that a second request is not refused.     *)
AskReindex ==
  /\ doc # Absent /\ asked < MaxManual
  /\ asked' = asked + 1 /\ jobs' = jobs \cup {asked'}
  /\ UNCHANGED <<page, request, doc, chunks, lock, ix, newest, failed, breaks>>

(* delete_doc waits for the row; the chunks follow it.                     *)
DeleteDoc ==
  /\ doc # Absent /\ lock = None
  /\ doc' = Absent /\ chunks' = [p \in Pages |-> 0]
  /\ UNCHANGED <<page, request, jobs, asked, lock, ix, newest, failed, breaks>>

PageChanges ==
  /\ page < MaxPages /\ page' = page + 1
  /\ UNCHANGED <<request, doc, chunks, jobs, asked, lock, ix, newest, failed, breaks>>

(* The admin session looks for the row: none, and the run is over.         *)
FindDoc(x) == \E j \in jobs :
  /\ ix[x].pc = "idle"
  /\ jobs' = jobs \ {j}
  /\ ix' = IF doc = Absent THEN ix ELSE [ix EXCEPT ![x] = [Resting EXCEPT !.pc = "found", !.job = j]]
  /\ UNCHANGED <<page, request, doc, chunks, asked, lock, newest, failed, breaks>>

Ends(x) == ix' = [ix EXCEPT ![x] = Resting]

(* kb.get in the tenant session; a row gone meanwhile fails the assertion. *)
LoadDoc(x) ==
  /\ ix[x].pc = "found"
  /\ IF doc = Absent
       THEN Ends(x) /\ failed' = TRUE
       ELSE ix' = [ix EXCEPT ![x].pc = "loaded", ![x].count = doc.count] /\ UNCHANGED failed
  /\ UNCHANGED <<page, request, doc, chunks, jobs, asked, lock, newest, breaks>>

(* Mutant: the status is not flushed before the page is read. *)
FlushNothing(x) ==
  /\ ix[x].pc = "loaded" /\ doc # Absent
  /\ ix' = [ix EXCEPT ![x].pc = "locked"] /\ UNCHANGED <<lock, failed>>
  /\ UNCHANGED <<page, request, doc, chunks, jobs, asked, newest, breaks>>

(* The flush of status "indexing" takes the row's lock, or waits for it;   *)
(* on a row deleted meanwhile it raises.                                   *)
FlushIndexing(x) ==
  /\ ix[x].pc = "loaded" /\ lock = None
  /\ IF doc = Absent
       THEN Ends(x) /\ failed' = TRUE /\ UNCHANGED lock
       ELSE ix' = [ix EXCEPT ![x].pc = "locked"] /\ lock' = x /\ UNCHANGED failed
  /\ UNCHANGED <<page, request, doc, chunks, jobs, asked, newest, breaks>>

(* extract_text_from_url and chunk_text: under the lock.                   *)
ExtractText(x) ==
  /\ ix[x].pc = "locked" /\ ix' = [ix EXCEPT ![x].pc = "cut", ![x].text = page]
  /\ UNCHANGED <<page, request, doc, chunks, jobs, asked, lock, newest, failed, breaks>>

(* The columns of the row that differ from what this run had loaded are    *)
(* the only ones its UPDATE names.                                         *)
RowAfter(x, status) ==
  LET n == Pieces(ix[x].text) IN
  [status |-> status, count |-> IF n = ix[x].count THEN doc.count ELSE n]

Release(x) == lock' = IF lock = x THEN None ELSE lock

(* Mutant: index_document embeds the new text without dropping the old. *)
IndexOver(x) ==
  /\ ix[x].pc = "cut"
  /\ doc' = RowAfter(x, IF ix[x].text \in Blank THEN "empty" ELSE "indexed")
  /\ chunks' = IF ix[x].text \in Blank THEN chunks ELSE [chunks EXCEPT ![ix[x].text] = @ + 1]
  /\ newest' = IF newest > ix[x].text THEN newest ELSE ix[x].text
  /\ failed' = FALSE
  /\ Ends(x) /\ Release(x)
  /\ UNCHANGED <<page, request, jobs, asked, breaks>>

(* index_document and the commit: with no text the status says so and the  *)
(* chunks of the page before stay; else they are dropped and embedded anew.*)
Index(x) ==
  /\ ix[x].pc = "cut"
  /\ doc' = RowAfter(x, IF ix[x].text \in Blank THEN "empty" ELSE "indexed")
  /\ chunks' = IF ix[x].text \in Blank THEN chunks
               ELSE [p \in Pages |-> IF p = ix[x].text THEN 1 ELSE 0]
  /\ newest' = IF newest > ix[x].text THEN newest ELSE ix[x].text
  /\ failed' = FALSE
  /\ Ends(x) /\ Release(x)
  /\ UNCHANGED <<page, request, jobs, asked, breaks>>

(* The page or the embedder fails: status "failed" is flushed, the error   *)
(* raised again, and the session takes both back with its transaction.     *)
IndexFails(x) ==
  /\ ix[x].pc \in {"locked", "cut"} /\ breaks < MaxBreaks
  /\ failed' = TRUE /\ breaks' = breaks + 1
  /\ Ends(x) /\ Release(x)
  /\ UNCHANGED <<page, request, doc, chunks, jobs, asked, newest>>

(* The worker shuts down: the transaction is gone, the job runs again.     *)
IndexCut(x) ==
  /\ ix[x].pc # "idle" /\ breaks < MaxBreaks
  /\ breaks' = breaks + 1 /\ jobs' = jobs \cup {ix[x].job}
  /\ Ends(x) /\ Release(x)
  /\ UNCHANGED <<page, request, doc, chunks, asked, newest, failed>>

KbNext ==
  \/ CreateDoc \/ CommitDoc \/ AskReindex \/ DeleteDoc \/ PageChanges
  \/ \E x \in Indexers : \/ FindDoc(x) \/ LoadDoc(x) \/ FlushIndexing(x) \/ ExtractText(x)
                         \/ Index(x) \/ IndexFails(x) \/ IndexCut(x)

KbSpec == KbInit /\ [][KbNext]_kbVars

(* What the bot reads of a document is one text, once: never chunks of two *)
(* pages, never a text twice, whatever runs overlap, fail or are cut.      *)
OneText == /\ Cardinality({p \in Pages : chunks[p] > 0}) <= 1
           /\ \A p \in Pages : chunks[p] <= 1

(* A run that read an older page never ends after one that read a newer    *)
(* one: an indexed document holds the chunks of the newest page that was   *)
(* read, although several runs of it were queued and read at any moment.   *)
NeverOlder == doc.status = "indexed" => chunks[newest] = 1

KbSafe == KbTypeOK /\ OneText /\ NeverOlder

(* kb_reindex.py:101-103: the failure of a run is recorded on the row so   *)
(* that the knowledge base page can show it.                               *)
FailureShown == failed /\ doc # Absent => doc.status = "failed"
====
