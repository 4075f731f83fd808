---- MODULE FaqCorpus ----
(***************************************************************************)
(* The FAQ corpus of a merchant (routers/catalog.py,                       *)
(* workers/scheduler/catalog_reindex.py, Indexer.index_records): every     *)
(* write of an entry queues a job that embeds all the entries again, under *)
(* an id that carries the second.  No run locks the corpus.                *)
(***************************************************************************)
EXTENDS Naturals, FiniteSets

CONSTANTS Reindexers,     \* catalog_reindex jobs that run at a time
          MaxWrites,      \* bound: writes of an entry
          MaxSecond,      \* bound: seconds
          MaxFaqBreaks    \* bound: runs that fail or are cut

ASSUME FaqAssumption ==
  /\ IsFiniteSet(Reindexers)
  /\ MaxSecond \in Nat \ {0} /\ {MaxWrites, MaxFaqBreaks} \subseteq Nat

VARIABLES second,      \* time.time()
          write,       \* the requests that write: "todo", "flushed", "committed"
          queue,       \* ids queued
          used,        \* ids ARQ still knows, queued, running or kept
          corpora,     \* the corpus documents: the batches of chunks each holds
          reindexer,   \* the runs
          missed,      \* history: writes whose own job has not indexed them
          overlapped,  \* history: two runs were past their first read at once
          faqBreaks    \* runs failed or cut so far

faqVars == <<second, write, queue, used, corpora, reindexer, missed, overlapped, faqBreaks>>

Writes == 1..MaxWrites
Seconds == 1..MaxSecond
Entries == {k \in Writes : write[k].state = "committed"}
Batches == [text : SUBSET Writes, run : Seconds]
AtRest == [pc |-> "idle", job |-> 0, corpus |-> 0, text |-> {}, dropped |-> {}]

FaqTypeOK ==
  /\ second \in Seconds /\ queue \subseteq Seconds /\ used \subseteq Seconds
  /\ write \in [Writes -> [state : {"todo", "flushed", "committed"}, job : 0..MaxSecond]]
  /\ \A n \in DOMAIN corpora : corpora[n] \subseteq Batches
  /\ reindexer \in [Reindexers -> [pc : {"idle", "started", "ensured", "listed", "dropped"},
                                   job : 0..MaxSecond, corpus : 0..Cardinality(Reindexers),
                                   text : SUBSET Writes, dropped : SUBSET Batches]]
  /\ missed \subseteq Writes /\ overlapped \in BOOLEAN /\ faqBreaks \in 0..MaxFaqBreaks

FaqInit ==
  /\ second = 1 /\ write = [k \in Writes |-> [state |-> "todo", job |-> 0]]
  /\ queue = {} /\ used = {} /\ corpora = [n \in {} |-> {}]
  /\ reindexer = [x \in Reindexers |-> AtRest]
  /\ missed = {} /\ overlapped = FALSE /\ faqBreaks = 0

SecondPasses ==
  /\ second < MaxSecond /\ second' = second + 1
  /\ UNCHANGED <<write, queue, used, corpora, reindexer, missed, overlapped, faqBreaks>>

(* create_faq, update_faq, delete_faq: the row is flushed and the job      *)
(* queued, or refused when ARQ knows the second's id already.              *)
WriteFaq(k) ==
  /\ write[k].state = "todo"
  /\ write' = [write EXCEPT ![k] = [state |-> "flushed", job |-> second]]
  /\ queue' = IF second \in used THEN queue ELSE queue \cup {second}
  /\ used' = used \cup {second}
  /\ missed' = IF second \in used THEN missed \cup {k} ELSE missed
  /\ UNCHANGED <<second, corpora, reindexer, overlapped, faqBreaks>>

CommitFaq(k) ==
  /\ write[k].state = "flushed" /\ write' = [write EXCEPT ![k].state = "committed"]
  /\ UNCHANGED <<second, queue, used, corpora, reindexer, missed, overlapped, faqBreaks>>

StartReindex(x) == \E j \in queue :
  /\ reindexer[x].pc = "idle" /\ queue' = queue \ {j}
  /\ reindexer' = [reindexer EXCEPT ![x] = [AtRest EXCEPT !.pc = "started", !.job = j]]
  /\ UNCHANGED <<second, write, used, corpora, missed, overlapped, faqBreaks>>

(* _ensure_corpus_doc: any of the documents there are, else one of its own *)
(* that nobody sees before the commit.                                     *)
EnsureCorpusDoc(x) ==
  /\ reindexer[x].pc = "started"
  /\ \E n \in IF DOMAIN corpora = {} THEN {0} ELSE DOMAIN corpora :
       reindexer' = [reindexer EXCEPT ![x].pc = "ensured", ![x].corpus = n]
  /\ overlapped' = (overlapped \/ \E y \in Reindexers \ {x} : reindexer[y].pc \notin {"idle", "started"})
  /\ UNCHANGED <<second, write, queue, used, corpora, missed, faqBreaks>>

(* list_for_merchant reads what is committed: a job that overtakes the     *)
(* commit of the request that queued it does not see the write.            *)
ListEntries(x) ==
  /\ reindexer[x].pc = "ensured"
  /\ reindexer' = [reindexer EXCEPT ![x].pc = "listed", ![x].text = Entries]
  /\ missed' = missed \cup {k \in Writes \ Entries : write[k].job = reindexer[x].job}
  /\ UNCHANGED <<second, write, queue, used, corpora, overlapped, faqBreaks>>

(* Mutant: index_records drops no chunk of the run before. *)
DropNothing(x) ==
  /\ reindexer[x].pc = "listed" /\ reindexer' = [reindexer EXCEPT ![x].pc = "dropped"]
  /\ UNCHANGED <<second, write, queue, used, corpora, missed, overlapped, faqBreaks>>

(* The DELETE of index_records takes the chunks committed by then.  (Its   *)
(* wait for a run that is deleting the same ones changes no outcome.)      *)
DropChunks(x) ==
  /\ reindexer[x].pc = "listed"
  /\ reindexer' = [reindexer EXCEPT ![x].pc = "dropped",
       ![x].dropped = IF reindexer[x].corpus = 0 THEN {} ELSE corpora[reindexer[x].corpus]]
  /\ UNCHANGED <<second, write, queue, used, corpora, missed, overlapped, faqBreaks>>

(* The entries are embedded, the chunks added, the transaction committed.  *)
AddChunks(x) ==
  LET r == reindexer[x]
      n == IF r.corpus = 0 THEN Cardinality(DOMAIN corpora) + 1 ELSE r.corpus
      kept == IF r.corpus = 0 THEN {} ELSE corpora[n] \ r.dropped
      added == IF r.text = {} THEN {} ELSE {[text |-> r.text, run |-> r.job]} IN
  /\ r.pc = "dropped"
  /\ corpora' = [m \in DOMAIN corpora \cup {n} |-> IF m = n THEN kept \cup added ELSE corpora[m]]
  /\ reindexer' = [reindexer EXCEPT ![x] = AtRest]
  /\ UNCHANGED <<second, write, queue, used, missed, overlapped, faqBreaks>>

(* The embedder fails: the transaction is taken back, the job is over.     *)
ReindexFails(x) ==
  /\ reindexer[x].pc = "dropped" /\ faqBreaks < MaxFaqBreaks /\ faqBreaks' = faqBreaks + 1
  /\ missed' = missed \cup {k \in Writes : write[k].job = reindexer[x].job}
  /\ reindexer' = [reindexer EXCEPT ![x] = AtRest]
  /\ UNCHANGED <<second, write, queue, used, corpora, overlapped>>

(* The worker shuts down: the job runs again. *)
ReindexCut(x) ==
  /\ reindexer[x].pc # "idle" /\ faqBreaks < MaxFaqBreaks /\ faqBreaks' = faqBreaks + 1
  /\ queue' = queue \cup {reindexer[x].job}
  /\ reindexer' = [reindexer EXCEPT ![x] = AtRest]
  /\ UNCHANGED <<second, write, used, corpora, missed, overlapped>>

FaqNext ==
  \/ SecondPasses
  \/ \E k \in Writes : WriteFaq(k) \/ CommitFaq(k)
  \/ \E x \in Reindexers : \/ StartReindex(x) \/ EnsureCorpusDoc(x) \/ ListEntries(x)
                           \/ DropChunks(x) \/ AddChunks(x) \/ ReindexFails(x) \/ ReindexCut(x)

FaqSpec == FaqInit /\ [][FaqNext]_faqVars

InCorpus == UNION {corpora[n] : n \in DOMAIN corpora}

(* The bot reads every entry once: the corpus is one document with the     *)
(* chunks of one run, as long as no two runs have overlapped.              *)
OneCorpus == Cardinality(DOMAIN corpora) > 1 \/ Cardinality(InCorpus) > 1 => overlapped

(* At rest an entry is missing from the corpus only if its own job was     *)
(* refused (a second write in that second), overtook the request's commit, *)
(* or failed, or if two runs overlapped (the one that read first may drop  *)
(* what the other has added): nothing else loses a write.                  *)
MissingWasMissed ==
  /\ queue = {}
  /\ \A x \in Reindexers : reindexer[x].pc = "idle"
  => \A k \in Entries : overlapped \/ k \in missed \/ \E b \in InCorpus : k \in b.text

FaqSafe == FaqTypeOK /\ OneCorpus /\ MissingWasMissed
====
