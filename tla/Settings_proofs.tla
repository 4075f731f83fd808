---------------------------- MODULE Settings_proofs ----------------------------
(***************************************************************************)
(* What merchant and agency set up, for every number of templates,         *)
(* writers, readers, models and jobs: the cascade of settings, the         *)
(* fine-tuning chain, the documents and questions that the bot reads, and  *)
(* the hours at which it answers.                                          *)
(***************************************************************************)
EXTENDS ConfigCascade, FineTuning, Knowledge, HoursSync, FiniteSetTheorems, WellFoundedInduction, TLAPS

-----------------------------------------------------------------------------
(* The cascade: no value outlives a read and a TTL. *)

\* What the cascade says was last right now, and nothing is dated in the future.
WasOnTime ==
  \A k \in Keys :
    /\ was[k][Effective(levels, k)] = clock
    /\ \A v \in Values : was[k][v] <= clock

\* A read takes no longer than ReadLag.
ReadersOnTime ==
  \A r \in Readers :
    reader[r].pc # "idle" => reader[r].since <= clock /\ clock <= reader[r].since + ReadLag

\* A read that no commit has straddled has in hand what the rows say, or what they
\* have said since it began.
ReadersTrue ==
  \A r \in Readers : ~reader[r].torn =>
    /\ reader[r].pc = "config" =>
         /\ reader[r].link = levels.link
         /\ levels.override = 0
         /\ reader[r].key = "profiled" => levels.profile = 0
    /\ reader[r].pc = "resolved" => reader[r].since <= was[reader[r].key][reader[r].found]

CacheTrue ==
  \A k \in Keys : cache[k].on =>
    /\ cache[k].set <= clock /\ clock <= cache[k].set + TTL
    /\ ~cache[k].torn => cache[k].set <= was[k][cache[k].value] + ReadLag

\* The default is one, and the transaction that sets another one clears it.
DefaultsInHand ==
  ~crossed =>
    /\ \A t, u \in Defaults(levels) : t = u
    /\ \A w, v \in Writers :
         writer[w].change.kind = "template" /\ writer[v].change.kind = "template" => w = v
    /\ \A w \in Writers :
         writer[w].change.kind = "template" /\ writer[w].change.default
           => Defaults(levels) \subseteq writer[w].change.clears

CascadeInv ==
  CascadeTypeOK /\ WasOnTime /\ ReadersOnTime /\ ReadersTrue /\ CacheTrue /\ DefaultsInHand

Levels == [profile : Values, override : Values, link : AgencyTemplates \cup {NoLink},
           tmpl : [AgencyTemplates -> Template]]

LEMMA EffectiveIsValue ==
  ASSUME NEW l \in Levels, NEW k \in Keys
  PROVE  Effective(l, k) \in Values
<1> USE CascadeAssumption DEF Levels, Values, Template
<1> DEFINE agency == InForce(l, l.link)
<1>1. agency \subseteq AgencyTemplates
  BY DEF InForce, Defaults
<1> HIDE DEF agency
<1>2. ASSUME Cardinality(agency) = 1 PROVE l.tmpl[CHOOSE t \in agency : TRUE].value \in Values
  <2>1. agency # {}
    BY <1>2, FS_EmptySet
  <2>2. (CHOOSE t \in agency : TRUE) \in agency
    BY <2>1
  <2>3. PICK t \in AgencyTemplates : t = CHOOSE u \in agency : TRUE
    BY <2>2, <1>1
  <2>4. l.tmpl[t] \in Template
    OBVIOUS
  <2> QED BY <2>3, <2>4
<1>3. Effective(l, k) = IF k = "profiled" /\ l.profile # 0 THEN l.profile
                        ELSE IF l.override # 0 THEN l.override
                        ELSE IF Cardinality(agency) = 1 THEN l.tmpl[CHOOSE t \in agency : TRUE].value
                        ELSE 0
  BY DEF Effective, agency
<1> QED BY <1>2, <1>3

\* A change leaves rows that are well-formed.
LEMMA AfterIsLevels ==
  ASSUME CascadeTypeOK, NEW c \in Changes
  PROVE  After(c) \in Levels
<1> USE CascadeAssumption DEF CascadeTypeOK, Levels, Changes, Template
<1>0. 0 \in Values
  BY DEF Values
<1>1. CASE c.kind = "override"
  BY <1>1 DEF After
<1>2. CASE c.kind = "link"
  BY <1>2 DEF After
<1>3. CASE c.kind = "profile"
  BY <1>3 DEF After
<1>4. CASE c.kind = "template"
  <2> DEFINE written == [t \in AgencyTemplates |->
        IF t = c.tmpl THEN [there |-> TRUE, value |-> c.value, default |-> c.default]
        ELSE IF t \in c.clears THEN [levels.tmpl[t] EXCEPT !.default = FALSE]
        ELSE levels.tmpl[t]]
  <2>1. written \in [AgencyTemplates -> Template]
    <3> SUFFICES ASSUME NEW t \in AgencyTemplates PROVE written[t] \in Template
      OBVIOUS
    <3>1. levels.tmpl[t] \in Template /\ c.value \in Values /\ c.default \in BOOLEAN
      OBVIOUS
    <3>2. [levels.tmpl[t] EXCEPT !.default = FALSE] \in Template
      BY <3>1
    <3> QED BY <3>1, <3>2
  <2>2. After(c) = [levels EXCEPT !.tmpl = written]
    BY <1>4 DEF After
  <2> HIDE DEF written
  <2> QED BY <2>1, <2>2
<1>5. CASE c.kind = "delete"
  BY <1>5, <1>0 DEF After
<1>6. CASE c.kind = "none"
  BY <1>6 DEF After
<1> QED BY <1>1, <1>2, <1>3, <1>4, <1>5, <1>6

\* What a commit does to the defaults.
LEMMA DefaultsAfter ==
  ASSUME CascadeTypeOK, NEW c \in Changes, NEW t \in Defaults(After(c))
  PROVE  \/ t \in Defaults(levels) /\ ~(c.kind = "template" /\ t \in c.clears)
         \/ c.kind = "template" /\ c.default /\ t = c.tmpl
<1> USE CascadeAssumption DEF CascadeTypeOK, Changes, Template, Defaults
<1>0. t \in AgencyTemplates /\ After(c).tmpl[t].there /\ After(c).tmpl[t].default
  OBVIOUS
<1>1. CASE c.kind \in {"override", "link", "profile", "none"}
  <2>1. After(c).tmpl = levels.tmpl
    BY <1>1 DEF After
  <2> QED BY <1>1, <1>0, <2>1
<1>4. CASE c.kind = "template"
  <2>1. After(c).tmpl[t] = IF t = c.tmpl THEN [there |-> TRUE, value |-> c.value, default |-> c.default]
            ELSE IF t \in c.clears THEN [levels.tmpl[t] EXCEPT !.default = FALSE]
            ELSE levels.tmpl[t]
    BY <1>4, <1>0 DEF After
  <2> QED BY <1>0, <1>4, <2>1
<1>5. CASE c.kind = "delete"
  <2>1. After(c).tmpl[t] = IF t = c.tmpl THEN [there |-> FALSE, value |-> 0, default |-> FALSE]
                           ELSE levels.tmpl[t]
    BY <1>5, <1>0 DEF After
  <2> QED BY <1>0, <1>5, <2>1
<1> QED BY <1>1, <1>4, <1>5

LEMMA CascadeInvInit == CascadeInit => CascadeInv
<1> SUFFICES ASSUME CascadeInit PROVE CascadeInv
  OBVIOUS
<1> USE CascadeAssumption
<1>1. CascadeTypeOK
  <2>0. 0 \in Values /\ "plain" \in Keys
    BY DEF Values, Keys
  <2>1. levels \in [profile : Values, override : Values, link : AgencyTemplates \cup {NoLink},
                    tmpl : [AgencyTemplates -> Template]]
    BY <2>0 DEF CascadeInit, Template
  <2>2. writer \in [Writers -> [pc : {"idle", "flushed", "invalidated"}, change : Changes]]
    BY <2>0 DEF CascadeInit, IdleWriter, NoChange, Changes
  <2>3. cache \in [Keys -> [value : Values, set : 0..MaxClock, torn : BOOLEAN, on : BOOLEAN]]
    BY <2>0 DEF CascadeInit, Uncached
  <2>4. reader \in [Readers -> [pc : {"idle", "missed", "config", "resolved"}, key : Keys,
                                since : 0..MaxClock, found : Values,
                                link : AgencyTemplates \cup {NoLink}, torn : BOOLEAN]]
    BY <2>0 DEF CascadeInit, IdleReader
  <2>5. was \in [Keys -> [Values -> 0..MaxClock]] /\ crossed = FALSE
    BY DEF CascadeInit
  <2>6. clock \in 0..MaxClock /\ changes \in Values /\ redisFaults \in 0..MaxRedisFaults
    BY <2>0 DEF CascadeInit
  <2> QED BY <2>1, <2>2, <2>3, <2>4, <2>5, <2>6 DEF CascadeTypeOK
<1>2. levels \in Levels
  BY <1>1 DEF CascadeTypeOK, Levels
<1>3. WasOnTime
  <2> SUFFICES ASSUME NEW k \in Keys
               PROVE  was[k][Effective(levels, k)] = clock /\ \A v \in Values : was[k][v] <= clock
    BY DEF WasOnTime
  <2>1. PICK v \in Values : v = Effective(levels, k)
    BY <1>2, EffectiveIsValue
  <2> QED BY <2>1 DEF CascadeInit
<1>4. ReadersOnTime /\ ReadersTrue /\ CacheTrue
  BY DEF CascadeInit, ReadersOnTime, ReadersTrue, CacheTrue, IdleReader, Uncached
<1>5. DefaultsInHand
  BY DEF CascadeInit, DefaultsInHand, Defaults, IdleWriter, NoChange
<1> QED BY <1>1, <1>3, <1>4, <1>5 DEF CascadeInv

\* Time and the commits set down what the cascade says.
LEMMA ObservedOnTime ==
  ASSUME CascadeInv, Observed, clock' \in 0..MaxClock, clock <= clock', levels' \in Levels
  PROVE  /\ WasOnTime'
         /\ was' \in [Keys -> [Values -> 0..MaxClock]]
         /\ \A k \in Keys, v \in Values : was[k][v] <= was'[k][v]
<1> USE CascadeAssumption
<1>1. was \in [Keys -> [Values -> 0..MaxClock]] /\ clock \in 0..MaxClock
  BY DEF CascadeInv, CascadeTypeOK
<1>2. \A k \in Keys, v \in Values : was[k][v] <= clock
  BY DEF CascadeInv, WasOnTime
<1>3. ASSUME NEW k \in Keys
      PROVE  /\ was'[k] \in [Values -> 0..MaxClock]
             /\ was'[k][Effective(levels', k)] = clock'
             /\ \A v \in Values : was'[k][v] <= clock' /\ was[k][v] <= was'[k][v]
  <2>1. PICK e \in Values : e = Effective(levels', k)
    BY EffectiveIsValue
  <2>2. was'[k] = [was[k] EXCEPT ![e] = clock']
    BY <2>1 DEF Observed
  <2> QED BY <1>1, <1>2, <2>1, <2>2
<1>4. was' = [k \in Keys |-> was'[k]]
  BY DEF Observed
<1>5. WasOnTime'
  BY <1>3 DEF WasOnTime
<1> QED BY <1>3, <1>4, <1>5

LEMMA CascadeTime == CascadeInv /\ TimePasses => CascadeInv'
<1> SUFFICES ASSUME CascadeInv, TimePasses PROVE CascadeInv'
  OBVIOUS
<1> USE CascadeAssumption DEF CascadeInv
<1>1. clock \in 0..MaxClock /\ clock' = clock + 1 /\ clock' \in 0..MaxClock /\ levels \in Levels
  BY DEF TimePasses, CascadeTypeOK, Levels
<1>2. UNCHANGED <<levels, writer, changes, reader, redisFaults, crossed>> /\ Observed
  BY DEF TimePasses
<1>3. /\ WasOnTime'
      /\ was' \in [Keys -> [Values -> 0..MaxClock]]
      /\ \A k \in Keys, v \in Values : was[k][v] <= was'[k][v]
  BY <1>1, <1>2, ObservedOnTime
<1>4. /\ cache' \in [Keys -> [value : Values, set : 0..MaxClock, torn : BOOLEAN, on : BOOLEAN]]
      /\ \A k \in Keys : cache'[k].on => cache'[k] = cache[k] /\ clock' - cache[k].set < TTL
  <2>1. ASSUME NEW k \in Keys
        PROVE  /\ cache'[k] \in [value : Values, set : 0..MaxClock, torn : BOOLEAN, on : BOOLEAN]
               /\ cache'[k].on => cache'[k] = cache[k] /\ clock' - cache[k].set < TTL
    <3>1. cache'[k] = IF cache[k].on /\ clock' - cache[k].set >= TTL THEN Uncached ELSE cache[k]
      BY DEF TimePasses
    <3>2. cache[k] \in [value : Values, set : 0..MaxClock, torn : BOOLEAN, on : BOOLEAN]
      BY DEF CascadeTypeOK
    <3>3. /\ Uncached \in [value : Values, set : 0..MaxClock, torn : BOOLEAN, on : BOOLEAN]
          /\ ~Uncached.on
      BY DEF Uncached, Values
    <3>4. CASE cache[k].on /\ clock' - cache[k].set >= TTL
      BY <3>1, <3>3, <3>4
    <3>5. CASE cache[k].on /\ ~(clock' - cache[k].set >= TTL)
      BY <1>1, <3>1, <3>2, <3>5
    <3>6. CASE ~cache[k].on
      BY <3>1, <3>2, <3>6
    <3> QED BY <3>4, <3>5, <3>6
  <2>2. cache' = [k \in Keys |-> cache'[k]]
    BY DEF TimePasses
  <2> QED BY <2>1, <2>2
<1>5. CascadeTypeOK'
  BY <1>1, <1>2, <1>3, <1>4 DEF CascadeTypeOK
<1>6. ReadersOnTime'
  <2>1. \A r \in Readers : reader[r].pc = "idle" \/ clock - reader[r].since < ReadLag
    BY DEF TimePasses
  <2>2. \A r \in Readers : reader[r].since \in 0..MaxClock
    BY DEF CascadeTypeOK
  <2> QED BY <1>1, <1>2, <2>1, <2>2 DEF ReadersOnTime
<1>7. ReadersTrue'
  <2>1. ASSUME NEW r \in Readers, ~reader[r].torn, reader[r].pc = "resolved"
        PROVE  reader[r].since <= was'[reader[r].key][reader[r].found]
    <3>1. reader[r].key \in Keys /\ reader[r].found \in Values /\ reader[r].since \in 0..MaxClock
      BY DEF CascadeTypeOK
    <3>2. reader[r].since <= was[reader[r].key][reader[r].found]
      BY <2>1 DEF ReadersTrue
    <3> QED BY <1>3, <3>1, <3>2 DEF CascadeTypeOK
  <2> QED BY <1>2, <2>1 DEF ReadersTrue
<1>8. CacheTrue'
  <2> SUFFICES ASSUME NEW k \in Keys, cache'[k].on
               PROVE  /\ cache'[k].set <= clock' /\ clock' <= cache'[k].set + TTL
                      /\ ~cache'[k].torn => cache'[k].set <= was'[k][cache'[k].value] + ReadLag
    BY DEF CacheTrue
  <2>1. cache'[k] = cache[k] /\ clock' - cache[k].set < TTL
    BY <1>4
  <2>2. cache[k].set \in 0..MaxClock /\ cache[k].value \in Values
    BY DEF CascadeTypeOK
  <2>3. cache[k].set <= clock /\ (~cache[k].torn => cache[k].set <= was[k][cache[k].value] + ReadLag)
    BY <2>1 DEF CacheTrue
  <2>4. was[k][cache[k].value] \in Nat /\ was'[k][cache[k].value] \in Nat
    BY <1>3, <2>2 DEF CascadeTypeOK
  <2> QED BY <1>1, <1>3, <2>1, <2>2, <2>3, <2>4
<1>9. DefaultsInHand'
  BY <1>2 DEF DefaultsInHand, Defaults
<1> QED BY <1>3, <1>5, <1>6, <1>7, <1>8, <1>9

\* A change is held in hand, and the rows are as they were.
LEMMA CascadeFlush ==
  ASSUME CascadeInv, NEW w \in Writers, NEW c \in Changes, Flush(w, c),
         c.kind = "template" /\ c.default => Defaults(levels) \subseteq c.clears
  PROVE  CascadeInv'
<1> USE CascadeAssumption DEF CascadeInv
<1>1. UNCHANGED <<clock, levels, cache, reader, was, redisFaults>>
  BY DEF Flush
<1>2. /\ writer' \in [Writers -> [pc : {"idle", "flushed", "invalidated"}, change : Changes]]
      /\ writer' = [writer EXCEPT ![w] = [pc |-> "flushed", change |-> c]]
  BY DEF Flush, CascadeTypeOK
<1>3. changes' \in Values
  BY DEF Flush, CascadeTypeOK, Values
<1>4. crossed' = (crossed \/ (c.kind = "template" /\ \E v \in Writers : writer[v].change.kind = "template"))
  BY DEF Flush
<1>5. crossed' \in BOOLEAN
  BY <1>4
<1>6. CascadeTypeOK'
  BY <1>1, <1>2, <1>3, <1>5 DEF CascadeTypeOK
<1>7. WasOnTime' /\ ReadersOnTime' /\ ReadersTrue' /\ CacheTrue'
  BY <1>1 DEF WasOnTime, ReadersOnTime, ReadersTrue, CacheTrue
<1>8. DefaultsInHand'
  <2> SUFFICES ASSUME ~crossed'
               PROVE  /\ \A t, u \in Defaults(levels) : t = u
                      /\ \A u, v \in Writers :
                           writer'[u].change.kind = "template" /\ writer'[v].change.kind = "template"
                             => u = v
                      /\ \A u \in Writers :
                           writer'[u].change.kind = "template" /\ writer'[u].change.default
                             => Defaults(levels) \subseteq writer'[u].change.clears
    BY <1>1 DEF DefaultsInHand, Defaults
  <2>1. ~crossed /\ (c.kind = "template" => \A v \in Writers : writer[v].change.kind # "template")
    BY <1>4
  <2>2. \A v \in Writers : writer'[v].change = IF v = w THEN c ELSE writer[v].change
    BY <1>2 DEF CascadeTypeOK
  <2> QED BY <2>1, <2>2 DEF DefaultsInHand
<1> QED BY <1>6, <1>7, <1>8

LEMMA CascadeWrites ==
  ASSUME CascadeInv, NEW w \in Writers,
         WriteOverride(w) \/ LinkTemplate(w) \/ WriteProfile(w) \/ WriteTemplate(w) \/ DeleteTemplate(w)
  PROVE  CascadeInv'
<1> USE CascadeAssumption
<1>0. changes \in Values /\ NoChange \in Changes
  BY DEF CascadeInv, CascadeTypeOK, NoChange, Changes, Values
<1>1. CASE WriteOverride(w)
  <2>1. PICK v \in {0, changes + 1} : Flush(w, [NoChange EXCEPT !.kind = "override", !.value = v])
    BY <1>1 DEF WriteOverride
  <2>2. v \in Values
    BY <1>0, <2>1 DEF Flush, Values
  <2>3. [NoChange EXCEPT !.kind = "override", !.value = v] \in Changes
    BY <1>0, <2>2 DEF Changes
  <2> QED BY <2>1, <2>3, CascadeFlush DEF NoChange
<1>2. CASE LinkTemplate(w)
  <2>1. PICK t \in AgencyTemplates \cup {NoLink} : Flush(w, [NoChange EXCEPT !.kind = "link", !.tmpl = t])
    BY <1>2 DEF LinkTemplate
  <2>2. [NoChange EXCEPT !.kind = "link", !.tmpl = t] \in Changes
    BY <1>0 DEF Changes
  <2> QED BY <2>1, <2>2, CascadeFlush DEF NoChange
<1>3. CASE WriteProfile(w)
  <2>1. PICK v \in {0, changes + 1} : Flush(w, [NoChange EXCEPT !.kind = "profile", !.value = v])
    BY <1>3 DEF WriteProfile
  <2>2. v \in Values
    BY <1>0, <2>1 DEF Flush, Values
  <2>3. [NoChange EXCEPT !.kind = "profile", !.value = v] \in Changes
    BY <1>0, <2>2 DEF Changes
  <2> QED BY <2>1, <2>3, CascadeFlush DEF NoChange
<1>4. CASE WriteTemplate(w)
  <2>1. PICK t \in AgencyTemplates, d \in BOOLEAN :
          Flush(w, [kind |-> "template", value |-> changes + 1, tmpl |-> t, default |-> d,
                    clears |-> Clears(d)])
    BY <1>4 DEF WriteTemplate
  <2>2. changes + 1 \in Values
    BY <1>0, <2>1 DEF Flush, Values
  <2>3. Clears(d) \in SUBSET AgencyTemplates /\ (d => Clears(d) = Defaults(levels))
    BY DEF Clears, Defaults
  <2>4. [kind |-> "template", value |-> changes + 1, tmpl |-> t, default |-> d,
         clears |-> Clears(d)] \in Changes
    BY <2>2, <2>3 DEF Changes
  <2> QED BY <2>1, <2>3, <2>4, CascadeFlush
<1>5. CASE DeleteTemplate(w)
  <2>1. PICK t \in AgencyTemplates : Flush(w, [NoChange EXCEPT !.kind = "delete", !.tmpl = t])
    BY <1>5 DEF DeleteTemplate
  <2>2. [NoChange EXCEPT !.kind = "delete", !.tmpl = t] \in Changes
    BY <1>0 DEF Changes
  <2> QED BY <2>1, <2>2, CascadeFlush DEF NoChange
<1> QED BY <1>1, <1>2, <1>3, <1>4, <1>5

LEMMA CascadeInvalidates ==
  ASSUME CascadeInv, NEW w \in Writers, Invalidate(w)
  PROVE  CascadeInv'
<1> USE CascadeAssumption DEF CascadeInv
<1>1. UNCHANGED <<clock, levels, changes, reader, was, crossed>>
  BY DEF Invalidate
<1>2. \/ cache' = [k \in Keys |-> Uncached] /\ UNCHANGED redisFaults
      \/ redisFaults < MaxRedisFaults /\ redisFaults' = redisFaults + 1 /\ UNCHANGED cache
  BY DEF Invalidate
<1>3. /\ writer' \in [Writers -> [pc : {"idle", "flushed", "invalidated"}, change : Changes]]
      /\ \A v \in Writers : writer'[v].change = writer[v].change
  BY DEF Invalidate, CascadeTypeOK
<1>4. Uncached \in [value : Values, set : 0..MaxClock, torn : BOOLEAN, on : BOOLEAN] /\ ~Uncached.on
  BY DEF Uncached, Values
<1>5. /\ cache' \in [Keys -> [value : Values, set : 0..MaxClock, torn : BOOLEAN, on : BOOLEAN]]
      /\ \A k \in Keys : cache'[k].on => cache'[k] = cache[k]
      /\ redisFaults' \in 0..MaxRedisFaults
  BY <1>2, <1>4 DEF CascadeTypeOK
<1>6. CascadeTypeOK'
  BY <1>1, <1>3, <1>5 DEF CascadeTypeOK
<1>7. WasOnTime' /\ ReadersOnTime' /\ ReadersTrue'
  BY <1>1 DEF WasOnTime, ReadersOnTime, ReadersTrue
<1>8. CacheTrue'
  BY <1>1, <1>5 DEF CacheTrue
<1>9. DefaultsInHand'
  BY <1>1, <1>3 DEF DefaultsInHand, Defaults
<1> QED BY <1>6, <1>7, <1>8, <1>9

\* A commit is what the cascade says from now on; the reads it straddles are torn.
LEMMA CascadeCommits ==
  ASSUME CascadeInv, NEW w \in Writers, CommitWrite(w)
  PROVE  CascadeInv'
<1> USE CascadeAssumption DEF CascadeInv
<1> DEFINE c == writer[w].change
<1>1. UNCHANGED <<clock, changes, cache, redisFaults, crossed>> /\ Observed /\ levels' = After(c)
  BY DEF CommitWrite
<1>2. c \in Changes /\ clock \in 0..MaxClock
  BY DEF CascadeTypeOK
<1>3. levels' \in Levels
  BY <1>1, <1>2, AfterIsLevels
<1>4. /\ WasOnTime'
      /\ was' \in [Keys -> [Values -> 0..MaxClock]]
      /\ \A k \in Keys, v \in Values : was[k][v] <= was'[k][v]
  BY <1>1, <1>2, <1>3, ObservedOnTime
<1>5. IdleWriter \in [pc : {"idle", "flushed", "invalidated"}, change : Changes]
  BY DEF IdleWriter, NoChange, Changes, Values
<1>6. /\ writer' \in [Writers -> [pc : {"idle", "flushed", "invalidated"}, change : Changes]]
      /\ writer'[w] = IdleWriter
      /\ \A v \in Writers \ {w} : writer'[v] = writer[v]
  BY <1>5 DEF CommitWrite, CascadeTypeOK
<1>7. /\ reader' \in [Readers -> [pc : {"idle", "missed", "config", "resolved"}, key : Keys,
                                  since : 0..MaxClock, found : Values,
                                  link : AgencyTemplates \cup {NoLink}, torn : BOOLEAN]]
      /\ \A r \in Readers :
           /\ reader'[r].pc = reader[r].pc /\ reader'[r].since = reader[r].since
           /\ reader'[r].key = reader[r].key /\ reader'[r].found = reader[r].found
           /\ reader[r].pc = "config" => reader'[r].torn
           /\ reader[r].torn => reader'[r].torn
  BY DEF CommitWrite, CascadeTypeOK
<1>8. CascadeTypeOK'
  BY <1>1, <1>3, <1>4, <1>6, <1>7 DEF CascadeTypeOK, Levels
<1>9. ReadersOnTime'
  BY <1>1, <1>7 DEF ReadersOnTime
<1>10. ReadersTrue'
  <2>1. ASSUME NEW r \in Readers, ~reader'[r].torn, reader'[r].pc = "resolved"
        PROVE  reader'[r].since <= was'[reader'[r].key][reader'[r].found]
    <3>1. reader[r].key \in Keys /\ reader[r].found \in Values /\ reader[r].since \in 0..MaxClock
      BY DEF CascadeTypeOK
    <3>2. reader[r].since <= was[reader[r].key][reader[r].found]
      BY <1>7, <2>1 DEF ReadersTrue
    <3>3. was[reader[r].key][reader[r].found] \in Nat /\ was'[reader[r].key][reader[r].found] \in Nat
      BY <1>4, <3>1 DEF CascadeTypeOK
    <3> QED BY <1>4, <1>7, <3>1, <3>2, <3>3
  <2> QED BY <1>7, <2>1 DEF ReadersTrue
<1>11. CacheTrue'
  <2> SUFFICES ASSUME NEW k \in Keys, cache[k].on, ~cache[k].torn
               PROVE  cache[k].set <= was'[k][cache[k].value] + ReadLag
    BY <1>1 DEF CacheTrue
  <2>1. cache[k].set \in 0..MaxClock /\ cache[k].value \in Values
    BY DEF CascadeTypeOK
  <2>2. cache[k].set <= was[k][cache[k].value] + ReadLag
    BY DEF CacheTrue
  <2>3. was[k][cache[k].value] \in Nat /\ was'[k][cache[k].value] \in Nat
    BY <1>4, <2>1 DEF CascadeTypeOK
  <2> QED BY <1>4, <2>1, <2>2, <2>3
<1>12. DefaultsInHand'
  <2> SUFFICES ASSUME ~crossed
               PROVE  /\ \A t, u \in Defaults(levels') : t = u
                      /\ \A u, v \in Writers :
                           writer'[u].change.kind = "template" /\ writer'[v].change.kind = "template"
                             => u = v
                      /\ \A v \in Writers :
                           writer'[v].change.kind = "template" /\ writer'[v].change.default
                             => Defaults(levels') \subseteq writer'[v].change.clears
    BY <1>1 DEF DefaultsInHand
  <2>1. \A t \in Defaults(levels') :
           \/ t \in Defaults(levels) /\ ~(c.kind = "template" /\ t \in c.clears)
           \/ c.kind = "template" /\ c.default /\ t = c.tmpl
    BY <1>1, <1>2, DefaultsAfter
  <2>2. \A t, u \in Defaults(levels') : t = u
    BY <2>1 DEF DefaultsInHand
  <2>3. \A v \in Writers : writer'[v].change.kind = "template" => v # w /\ writer'[v] = writer[v]
    BY <1>6 DEF IdleWriter, NoChange
  <2>4. ASSUME NEW v \in Writers, writer'[v].change.kind = "template", writer'[v].change.default
        PROVE  Defaults(levels') \subseteq writer'[v].change.clears
    <3>1. v # w /\ writer'[v] = writer[v] /\ c.kind # "template"
      BY <2>3, <2>4 DEF DefaultsInHand
    <3> QED BY <2>1, <2>4, <3>1 DEF DefaultsInHand
  <2> QED BY <2>2, <2>3, <2>4 DEF DefaultsInHand
<1> QED BY <1>4, <1>8, <1>9, <1>10, <1>11, <1>12

\* A step of a reader leaves the rows alone, and what is said of them.
LEMMA CascadeReads ==
  ASSUME CascadeInv, NEW r \in Readers,
         CacheMiss(r) \/ ReadConfig(r) \/ ReadTemplate(r) \/ CacheValue(r)
  PROVE  CascadeInv'
<1> USE CascadeAssumption DEF CascadeInv
<1>1. UNCHANGED <<clock, levels, writer, changes, was, crossed>>
  BY DEF CacheMiss, ReadConfig, ReadTemplate, CacheValue
<1>2. WasOnTime' /\ DefaultsInHand'
  BY <1>1 DEF WasOnTime, DefaultsInHand, Defaults
<1> DEFINE Reads == [pc : {"idle", "missed", "config", "resolved"}, key : Keys,
                     since : 0..MaxClock, found : Values,
                     link : AgencyTemplates \cup {NoLink}, torn : BOOLEAN]
<1>3. /\ reader \in [Readers -> Reads] /\ levels \in Levels /\ clock \in 0..MaxClock
      /\ was \in [Keys -> [Values -> 0..MaxClock]]
  BY DEF CascadeTypeOK, Levels
<1>4. IdleReader \in Reads
  BY DEF IdleReader, Keys, Values
<1>5. reader'[r] \in Reads /\ reader' = [reader EXCEPT ![r] = reader'[r]]
  <2>1. CASE CacheMiss(r)
    <3>1. PICK k \in Keys : reader' = [reader EXCEPT ![r] =
                                        [IdleReader EXCEPT !.pc = "missed", !.key = k, !.since = clock]]
      BY <2>1 DEF CacheMiss
    <3>2. [IdleReader EXCEPT !.pc = "missed", !.key = k, !.since = clock] \in Reads
      BY <1>3, <1>4
    <3> HIDE DEF Reads
    <3> QED BY <1>3, <3>1, <3>2
  <2>2. CASE ReadConfig(r)
    <3>1. reader' = [reader EXCEPT ![r] = [reader[r] EXCEPT
             !.pc = reader'[r].pc, !.found = reader'[r].found, !.link = levels.link]]
      BY <1>3, <2>2 DEF ReadConfig
    <3>2. reader'[r].pc \in {"resolved", "config"} /\ reader'[r].found \in Values
      BY <1>3, <2>2 DEF ReadConfig, Levels
    <3>3. levels.link \in AgencyTemplates \cup {NoLink}
      BY <1>3 DEF Levels
    <3>4. PICK p \in {"resolved", "config"}, v \in Values : p = reader'[r].pc /\ v = reader'[r].found
      BY <3>2
    <3>5. [reader[r] EXCEPT !.pc = p, !.found = v, !.link = levels.link] \in Reads
      BY <1>3, <3>3
    <3> HIDE DEF Reads
    <3> QED BY <1>3, <3>1, <3>4, <3>5
  <2>3. CASE ReadTemplate(r)
    <3> DEFINE agency == InForce(levels, reader[r].link)
    <3>1. agency \subseteq AgencyTemplates
      BY <1>3 DEF InForce, Defaults
    <3> HIDE DEF agency
    <3>2. (IF agency = {} THEN 0 ELSE levels.tmpl[CHOOSE t \in agency : TRUE].value) \in Values
      <4>1. CASE agency = {}
        BY <4>1 DEF Values
      <4>2. CASE agency # {}
        <5>1. PICK t \in AgencyTemplates : t = CHOOSE u \in agency : TRUE
          BY <3>1, <4>2
        <5>2. levels.tmpl[t] \in Template
          BY <1>3 DEF Levels
        <5> QED BY <4>2, <5>1, <5>2 DEF Template
      <4> QED BY <4>1, <4>2
    <3>3. reader' = [reader EXCEPT ![r] =
           IF Cardinality(agency) > 1 THEN IdleReader
           ELSE [reader[r] EXCEPT !.pc = "resolved",
                   !.found = IF agency = {} THEN 0 ELSE levels.tmpl[CHOOSE t \in agency : TRUE].value]]
      BY <2>3 DEF ReadTemplate, agency
    <3> QED BY <1>3, <1>4, <3>2, <3>3
  <2>4. CASE CacheValue(r)
    BY <1>3, <1>4, <2>4 DEF CacheValue
  <2> QED BY <2>1, <2>2, <2>3, <2>4
<1> HIDE DEF Reads
<1> DEFINE Cached == [value : Values, set : 0..MaxClock, torn : BOOLEAN, on : BOOLEAN]
<1>6. \/ cache' = cache
      \/ /\ reader[r].pc = "resolved"
         /\ cache' = [cache EXCEPT ![reader[r].key] =
              [value |-> reader[r].found, set |-> clock, torn |-> reader[r].torn, on |-> TRUE]]
  BY DEF CacheMiss, ReadConfig, ReadTemplate, CacheValue
<1>7. cache \in [Keys -> Cached] /\ cache' \in [Keys -> Cached]
  <2>1. cache \in [Keys -> Cached]
    BY DEF CascadeTypeOK
  <2>2. [value |-> reader[r].found, set |-> clock, torn |-> reader[r].torn, on |-> TRUE] \in Cached
    BY <1>3 DEF Reads
  <2> HIDE DEF Cached
  <2> QED BY <1>6, <2>1, <2>2
<1>8. redisFaults' \in 0..MaxRedisFaults
  <2>1. redisFaults \in 0..MaxRedisFaults
    BY DEF CascadeTypeOK
  <2>2. redisFaults' = redisFaults \/ (redisFaults < MaxRedisFaults /\ redisFaults' = redisFaults + 1)
    BY DEF CacheMiss, ReadConfig, ReadTemplate, CacheValue
  <2> QED BY <2>1, <2>2
<1>9. CascadeTypeOK'
  <2>1. reader' \in [Readers -> Reads]
    BY <1>3, <1>5
  <2> QED BY <1>1, <1>7, <1>8, <2>1 DEF CascadeTypeOK, Reads
<1>10. \A q \in Readers : q # r => reader'[q] = reader[q]
  BY <1>3, <1>5
<1>14. CacheMiss(r) => reader'[r].pc = "missed"
  <2> SUFFICES ASSUME CacheMiss(r) PROVE reader'[r].pc = "missed"
    OBVIOUS
  <2>1. PICK k \in Keys : reader' = [reader EXCEPT ![r] =
                                      [IdleReader EXCEPT !.pc = "missed", !.key = k, !.since = clock]]
    BY DEF CacheMiss
  <2> QED BY <1>3, <2>1 DEF IdleReader
<1>15. CacheValue(r) => reader'[r].pc = "idle"
  BY <1>3 DEF CacheValue, IdleReader
<1>16. ReadConfig(r) => /\ reader[r].pc = "missed"
                        /\ reader'[r].key = reader[r].key /\ reader'[r].since = reader[r].since
                        /\ reader'[r].torn = reader[r].torn
  BY <1>3 DEF ReadConfig, Reads
<1>17. ReadTemplate(r) /\ reader'[r].pc # "idle" =>
         /\ reader[r].pc = "config" /\ reader'[r].pc = "resolved"
         /\ reader'[r].key = reader[r].key /\ reader'[r].since = reader[r].since
         /\ reader'[r].torn = reader[r].torn
  <2> SUFFICES ASSUME ReadTemplate(r), reader'[r].pc # "idle"
               PROVE  /\ reader[r].pc = "config" /\ reader'[r].pc = "resolved"
                      /\ reader'[r].key = reader[r].key /\ reader'[r].since = reader[r].since
                      /\ reader'[r].torn = reader[r].torn
    OBVIOUS
  <2> DEFINE value == IF InForce(levels, reader[r].link) = {} THEN 0
                      ELSE levels.tmpl[CHOOSE t \in InForce(levels, reader[r].link) : TRUE].value
             some == Cardinality(InForce(levels, reader[r].link)) > 1
  <2>1. reader[r].pc = "config" /\ reader' = [reader EXCEPT ![r] =
          IF some THEN IdleReader ELSE [reader[r] EXCEPT !.pc = "resolved", !.found = value]]
    BY DEF ReadTemplate
  <2> HIDE DEF value, some
  <2>2. reader'[r] = IF some THEN IdleReader ELSE [reader[r] EXCEPT !.pc = "resolved", !.found = value]
    BY <1>3, <2>1
  <2>3. ~some
    BY <2>2 DEF IdleReader
  <2>4. reader'[r] = [reader[r] EXCEPT !.pc = "resolved", !.found = value] /\ reader[r] \in Reads
    BY <1>3, <2>2, <2>3
  <2>5. ASSUME NEW x \in Reads
        PROVE  /\ [x EXCEPT !.pc = "resolved", !.found = value].pc = "resolved"
               /\ [x EXCEPT !.pc = "resolved", !.found = value].key = x.key
               /\ [x EXCEPT !.pc = "resolved", !.found = value].since = x.since
               /\ [x EXCEPT !.pc = "resolved", !.found = value].torn = x.torn
    BY DEF Reads
  <2> QED BY <2>1, <2>4, <2>5
<1>11. ReadersOnTime'
  <2>1. reader'[r].pc # "idle" => reader'[r].since = clock \/ (reader[r].pc # "idle" /\ reader'[r].since = reader[r].since)
    <3>1. CASE CacheMiss(r)
      BY <1>3, <3>1 DEF CacheMiss, IdleReader
    <3>2. CASE ReadConfig(r)
      BY <1>3, <3>2 DEF ReadConfig, Reads
    <3>3. CASE ReadTemplate(r)
      BY <1>3, <3>3 DEF ReadTemplate, IdleReader, Reads
    <3>4. CASE CacheValue(r)
      BY <1>3, <3>4 DEF CacheValue, IdleReader
    <3> QED BY <3>1, <3>2, <3>3, <3>4
  <2>2. reader'[r].pc # "idle" => reader'[r].since <= clock /\ clock <= reader'[r].since + ReadLag
    BY <1>3, <2>1 DEF ReadersOnTime
  <2> QED BY <1>1, <1>10, <2>2 DEF ReadersOnTime
<1>12. ReadersTrue'
  <2>1. ASSUME ~reader'[r].torn, reader'[r].pc = "config"
        PROVE  /\ reader'[r].link = levels.link
               /\ levels.override = 0
               /\ reader'[r].key = "profiled" => levels.profile = 0
    <3>1. ReadConfig(r)
      BY <2>1, <1>14, <1>15, <1>17
    <3>2. reader'[r].link = levels.link /\ reader'[r].key = reader[r].key
      BY <1>3, <3>1 DEF ReadConfig, Reads
    <3>3. (IF reader[r].key = "profiled" /\ levels.profile # 0 THEN levels.profile ELSE levels.override) = 0
      BY <1>3, <2>1, <3>1 DEF ReadConfig, Reads
    <3> QED BY <3>2, <3>3
  <2>2. ASSUME ~reader'[r].torn, reader'[r].pc = "resolved"
        PROVE  reader'[r].since <= was[reader'[r].key][reader'[r].found]
    <3> DEFINE k == reader[r].key
    <3>1. k \in Keys /\ reader[r].since \in 0..MaxClock
      BY <1>3 DEF Reads
    <3>2. ReadConfig(r) \/ ReadTemplate(r)
      BY <2>2, <1>14, <1>15
    <3>3. /\ reader'[r].key = k /\ reader'[r].since = reader[r].since
          /\ reader'[r].torn = reader[r].torn /\ reader[r].pc # "idle"
      BY <2>2, <3>2, <1>16, <1>17
    <3>4. reader'[r].found = Effective(levels, k)
      <4>1. CASE ReadConfig(r)
        <5>1. /\ reader'[r].found = IF k = "profiled" /\ levels.profile # 0 THEN levels.profile ELSE levels.override
              /\ reader'[r].found # 0
          BY <1>3, <2>2, <4>1 DEF ReadConfig, Reads
        <5> QED BY <5>1 DEF Effective
      <4>2. CASE ReadTemplate(r)
        <5> DEFINE agency == InForce(levels, reader[r].link)
        <5>1. agency \subseteq AgencyTemplates
          BY <1>3 DEF InForce, Defaults, Reads
        <5> HIDE DEF agency
        <5>2. reader[r].pc = "config" /\ reader'[r] =
               IF Cardinality(agency) > 1 THEN IdleReader
               ELSE [reader[r] EXCEPT !.pc = "resolved",
                       !.found = IF agency = {} THEN 0 ELSE levels.tmpl[CHOOSE t \in agency : TRUE].value]
          BY <1>3, <4>2 DEF ReadTemplate, agency
        <5>3. Cardinality(agency) <= 1 /\ reader'[r].found =
                IF agency = {} THEN 0 ELSE levels.tmpl[CHOOSE t \in agency : TRUE].value
          <6>1. Cardinality(agency) \in Nat
            BY <5>1, FS_Subset, FS_CardinalityType
          <6>2. ~(Cardinality(agency) > 1)
            BY <2>2, <5>2 DEF IdleReader
          <6> QED BY <1>3, <5>2, <6>1, <6>2 DEF Reads
        <5>4. (agency = {} => Cardinality(agency) # 1) /\ (agency # {} => Cardinality(agency) = 1)
          <6>1. IsFiniteSet(agency) /\ Cardinality(agency) \in Nat
            BY <5>1, FS_Subset, FS_CardinalityType
          <6>2. Cardinality(agency) = 0 <=> agency = {}
            BY <6>1, FS_EmptySet
          <6> QED BY <5>3, <6>1, <6>2
        <5>5. /\ reader[r].link = levels.link /\ levels.override = 0
              /\ k = "profiled" => levels.profile = 0
          BY <2>2, <3>3, <5>2 DEF ReadersTrue
        <5>6. Effective(levels, k) = IF Cardinality(agency) = 1
                                     THEN levels.tmpl[CHOOSE t \in agency : TRUE].value ELSE 0
          BY <5>5 DEF Effective, agency
        <5> QED BY <5>3, <5>4, <5>6
      <4> QED BY <3>2, <4>1, <4>2
    <3>5. was[k][Effective(levels, k)] = clock
      BY <3>1 DEF WasOnTime
    <3>6. reader[r].since <= clock
      BY <3>3 DEF ReadersOnTime
    <3> QED BY <3>3, <3>4, <3>5, <3>6
  <2> QED BY <1>1, <1>10, <2>1, <2>2 DEF ReadersTrue
<1>13. CacheTrue'
  <2>1. CASE cache' = cache
    BY <1>1, <2>1 DEF CacheTrue
  <2>2. CASE /\ reader[r].pc = "resolved"
             /\ cache' = [cache EXCEPT ![reader[r].key] =
                  [value |-> reader[r].found, set |-> clock, torn |-> reader[r].torn, on |-> TRUE]]
    <3> DEFINE k == reader[r].key
    <3>1. k \in Keys /\ reader[r].found \in Values /\ reader[r].since \in 0..MaxClock
      BY <1>3 DEF Reads
    <3>2. cache'[k] = [value |-> reader[r].found, set |-> clock, torn |-> reader[r].torn, on |-> TRUE]
      BY <1>7, <2>2, <3>1
    <3>3. clock <= reader[r].since + ReadLag
      BY <2>2 DEF ReadersOnTime
    <3>4. ~reader[r].torn => clock <= was[k][reader[r].found] + ReadLag
      <4>1. was[k][reader[r].found] \in Nat
        BY <1>3, <3>1
      <4>2. ~reader[r].torn => reader[r].since <= was[k][reader[r].found]
        BY <2>2 DEF ReadersTrue
      <4> QED BY <1>3, <3>1, <3>3, <4>1, <4>2
    <3>5. \A j \in Keys : j # k => cache'[j] = cache[j]
      BY <1>7, <2>2
    <3>6. clock <= clock + TTL
      BY <1>3
    <3>7. ASSUME NEW j \in Keys, cache'[j].on
          PROVE  /\ cache'[j].set <= clock /\ clock <= cache'[j].set + TTL
                 /\ ~cache'[j].torn => cache'[j].set <= was[j][cache'[j].value] + ReadLag
      <4>1. CASE j = k
        BY <1>3, <3>2, <3>4, <3>6, <4>1
      <4>2. CASE j # k
        BY <3>5, <3>7, <4>2 DEF CacheTrue
      <4> QED BY <4>1, <4>2
    <3> QED BY <1>1, <3>7 DEF CacheTrue
  <2> QED BY <1>6, <2>1, <2>2
<1> QED BY <1>2, <1>9, <1>11, <1>12, <1>13

LEMMA CascadeInvNext == CascadeInv /\ [CascadeNext]_cascadeVars => CascadeInv'
<1> SUFFICES ASSUME CascadeInv, [CascadeNext]_cascadeVars PROVE CascadeInv'
  OBVIOUS
<1>1. CASE UNCHANGED cascadeVars
  BY <1>1 DEF cascadeVars, CascadeInv, CascadeTypeOK, WasOnTime, ReadersOnTime, ReadersTrue,
              CacheTrue, DefaultsInHand, Defaults
<1>2. CASE TimePasses
  BY <1>2, CascadeTime
<1>3. ASSUME NEW w \in Writers,
             \/ WriteOverride(w) \/ LinkTemplate(w) \/ WriteProfile(w)
             \/ WriteTemplate(w) \/ DeleteTemplate(w)
      PROVE  CascadeInv'
  BY <1>3, CascadeWrites
<1>4. ASSUME NEW w \in Writers, Invalidate(w) PROVE CascadeInv'
  BY <1>4, CascadeInvalidates
<1>5. ASSUME NEW w \in Writers, CommitWrite(w) PROVE CascadeInv'
  BY <1>5, CascadeCommits
<1>6. ASSUME NEW r \in Readers,
             CacheMiss(r) \/ ReadConfig(r) \/ ReadTemplate(r) \/ CacheValue(r)
      PROVE  CascadeInv'
  BY <1>6, CascadeReads
<1> QED BY <1>1, <1>2, <1>3, <1>4, <1>5, <1>6 DEF CascadeNext

\* A cached value has been right within a read and a TTL, and the tenant has one default
\* unless two requests that write templates overlapped (resolver.py, bot_config.py).
THEOREM CascadeCorrect == CascadeSpec => []CascadeSafe
<1>1. CascadeInv => CascadeSafe
  <2> SUFFICES ASSUME CascadeInv PROVE CascadeSafe
    OBVIOUS
  <2> USE CascadeAssumption DEF CascadeInv
  <2>1. StaleIsBounded
    <3> SUFFICES ASSUME NEW k \in Keys, cache[k].on, ~cache[k].torn
                 PROVE  clock <= was[k][cache[k].value] + ReadLag + TTL
      BY DEF StaleIsBounded
    <3>1. cache[k].set \in 0..MaxClock /\ cache[k].value \in Values /\ clock \in 0..MaxClock
      BY DEF CascadeTypeOK
    <3>2. was[k][cache[k].value] \in Nat
      BY <3>1 DEF CascadeTypeOK
    <3>3. clock <= cache[k].set + TTL /\ cache[k].set <= was[k][cache[k].value] + ReadLag
      BY DEF CacheTrue
    <3> QED BY <3>1, <3>2, <3>3
  <2>2. OneDefault
    <3> SUFFICES ASSUME ~crossed PROVE Cardinality(Defaults(levels)) <= 1
      BY DEF OneDefault
    <3>1. \A t, u \in Defaults(levels) : t = u
      BY DEF DefaultsInHand
    <3>2. CASE Defaults(levels) = {}
      BY <3>2, FS_EmptySet
    <3>3. CASE Defaults(levels) # {}
      <4>1. PICK t : Defaults(levels) = {t}
        BY <3>1, <3>3
      <4>2. Cardinality({t}) = 1
        BY FS_Singleton
      <4> QED BY <4>1, <4>2
    <3> QED BY <3>2, <3>3
  <2> QED BY <2>1, <2>2 DEF CascadeSafe
<1> QED BY CascadeInvInit, CascadeInvNext, <1>1, PTL DEF CascadeSpec

-----------------------------------------------------------------------------
(* The fine-tuning chain: one default, that has passed; one experiment.    *)

Working == {x \in Trainers : trainer[x].pc # "idle"}

\* No training is run that nobody has asked for.
TrainingsAsked == trains + Cardinality(Working) <= asks

\* Versions are counted: those of the rows, and those the trainers have taken.
VersionsCounted ==
  /\ \A m \in There : rows[m].version <= Cardinality(There)
  /\ \A x \in Trainers : trainer[x].pc = "versioned" => trainer[x].version <= Cardinality(There) + 1

VersionsInHand ==
  ~twins =>
    /\ \A x, y \in Trainers : trainer[x].pc = "versioned" /\ trainer[y].pc = "versioned" => x = y
    /\ \A x \in Trainers, m \in There :
         trainer[x].pc = "versioned" => rows[m].version < trainer[x].version
    /\ \A m, n \in There : rows[m].version = rows[n].version => m = n

\* A row is trained by one job, before its evaluation.
RowsInTraining ==
  /\ \A x \in Trainers : trainer[x].pc = "polling" => trainer[x].row \in There /\ eval[trainer[x].row] = "none"
  /\ \A x, y \in Trainers :
       trainer[x].pc = "polling" /\ trainer[y].pc = "polling" /\ trainer[x].row = trainer[y].row => x = y

\* A row is deployed after its evaluation, which it has passed.
RowsInOrder ==
  \A m \in Models :
    /\ rows[m].status = "none" => ~rows[m].default /\ eval[m] = "none"
    /\ deploy[m].pc # "none" => eval[m] = "done" /\ rows[m].passed
    /\ rows[m].default => deploy[m].pc # "none" /\ rows[m].status = "deployed"

\* A deploy that has cleared the others has none beside it that it has not cleared.
ClearedAlone ==
  \A m, n \in Models :
    deploy[m].pc = "clearing" /\ n # m /\ n \notin deploy[m].clears
      => ~rows[n].default /\ deploy[n].pc \notin {"loaded", "clearing"}

SoleDefault == \A m, n \in Models : rows[m].default /\ rows[n].default => m = n

\* A start that is under way has seen nothing run, and is of the one experiment.
StartsInHand ==
  ~raced =>
    /\ \A e, f \in Running : e = f
    /\ (\E s \in Requests : starter[s]) => Running \subseteq {0}

FtInv ==
  /\ FtTypeOK /\ TrainingsAsked /\ VersionsCounted /\ VersionsInHand /\ RowsInTraining
  /\ RowsInOrder /\ ClearedAlone /\ SoleDefault /\ StartsInHand

TrainerStates == [pc : {"idle", "submitted", "versioned", "polling"},
                  version : 0..MaxModels + 1, row : 0..MaxModels]
RowStates == [status : {"none", "training", "ready", "failed", "evaluated", "eval_skipped", "deployed"},
              version : 0..MaxModels + 1, default : BOOLEAN, passed : BOOLEAN]
DeployStates == [pc : {"none", "queued", "loaded", "clearing", "done"}, clears : SUBSET Models]

\* A set of numbers up to n has a last one.
LEMMA LastNumber ==
  ASSUME NEW n \in Nat, NEW S \in SUBSET (0..n), S # {}
  PROVE  \E t \in S : \A u \in S : u <= t
<1> DEFINE Left == {n - t : t \in S}
<1>1. Left \subseteq Nat /\ Left # {}
  <2>1. PICK t \in S : TRUE
    OBVIOUS
  <2>2. n - t \in Left
    BY <2>1
  <2> QED BY <2>2
<1>2. PICK x \in Left : \A y \in Left : <<y, x>> \notin OpToRel(<, Nat)
  <2> HIDE DEF Left
  <2> QED BY <1>1, NatLessThanWellFounded, WFMin
<1>3. PICK t \in S : x = n - t
  OBVIOUS
<1>4. \A u \in S : u <= t
  <2> SUFFICES ASSUME NEW u \in S, u > t PROVE FALSE
    OBVIOUS
  <2>1. n - u \in Left /\ n - u \in Nat /\ x \in Nat /\ n - u < x
    BY <1>3
  <2>2. <<n - u, x>> \in OpToRel(<, Nat)
    BY <2>1 DEF OpToRel
  <2> QED BY <2>1, <2>2, <1>2
<1> QED BY <1>4

\* The rows there are, are counted, and no more than the tenant may have.
LEMMA ThereCounted ==
  IsFiniteSet(There) /\ Cardinality(There) \in Nat /\ Cardinality(There) <= MaxModels
<1>1. IsFiniteSet(Models) /\ Cardinality(Models) = MaxModels
  BY FineTuningAssumption, FS_Interval DEF Models
<1>2. There \subseteq Models
  BY DEF There
<1> QED BY <1>1, <1>2, FS_Subset, FS_CardinalityType

LEMMA FtInvInit == FtInit => FtInv
<1> SUFFICES ASSUME FtInit PROVE FtInv
  OBVIOUS
<1> USE FineTuningAssumption
<1>1. FtTypeOK
  <2>1. trainer \in [Trainers -> TrainerStates]
    BY DEF FtInit, TrainerStates, Idle
  <2>2. rows \in [Models -> RowStates]
    BY DEF FtInit, RowStates, Missing
  <2>3. deploy \in [Models -> DeployStates]
    BY DEF FtInit, DeployStates, Job
  <2>4. eval \in [Models -> {"none", "queued", "scoring", "written", "done"}]
    BY DEF FtInit
  <2>5. ab \in [Experiments -> {"none", "draft", "running", "completed"}]
    BY DEF FtInit
  <2>6. starter \in [Requests -> BOOLEAN] /\ raced = FALSE /\ twins = FALSE
    BY DEF FtInit
  <2>7. trains \in 0..MaxTrains /\ asks \in 0..MaxTrains /\ halts \in 0..MaxHalts
    BY DEF FtInit
  <2> QED BY <2>1, <2>2, <2>3, <2>4, <2>5, <2>6, <2>7
          DEF FtTypeOK, TrainerStates, RowStates, DeployStates
<1>2. TrainingsAsked
  <2>1. Working = {}
    BY DEF FtInit, Working, Idle
  <2> QED BY <2>1, FS_EmptySet DEF FtInit, TrainingsAsked
<1>3. There = {} /\ Running = {}
  BY DEF FtInit, There, Missing, Running, Experiments
<1>4. VersionsCounted /\ VersionsInHand /\ StartsInHand
  BY <1>3 DEF FtInit, VersionsCounted, VersionsInHand, StartsInHand, Idle
<1>5. RowsInTraining /\ RowsInOrder /\ ClearedAlone /\ SoleDefault
  BY DEF FtInit, RowsInTraining, RowsInOrder, ClearedAlone, SoleDefault, Idle, Missing, Job
<1> QED BY <1>1, <1>2, <1>4, <1>5 DEF FtInv

LEMMA WorkingCounted ==
  ASSUME FtTypeOK, NEW x \in Trainers
  PROVE  /\ Cardinality(Working) \in Nat
         /\ Cardinality(Working \cup {x}) = IF x \in Working THEN Cardinality(Working)
                                            ELSE Cardinality(Working) + 1
         /\ Cardinality(Working \ {x}) = IF x \in Working THEN Cardinality(Working) - 1
                                          ELSE Cardinality(Working)
<1>1. Working \subseteq Trainers
  BY DEF Working
<1>2. IsFiniteSet(Working)
  BY <1>1, FineTuningAssumption, FS_Subset
<1> QED BY <1>2, FS_CardinalityType, FS_AddElement, FS_RemoveElement

\* A step of one trainer.
LEMMA TrainerSteps ==
  ASSUME FtInv, NEW x \in Trainers, NEW t \in TrainerStates, trainer' = [trainer EXCEPT ![x] = t]
  PROVE  /\ trainer' \in [Trainers -> TrainerStates]
         /\ trainer'[x] = t
         /\ \A y \in Trainers : y # x => trainer'[y] = trainer[y]
         /\ Working' = IF t.pc = "idle" THEN Working \ {x} ELSE Working \cup {x}
<1>1. trainer \in [Trainers -> TrainerStates]
  BY DEF FtInv, FtTypeOK, TrainerStates
<1>2. trainer' \in [Trainers -> TrainerStates] /\ trainer'[x] = t
  BY <1>1
<1>3. \A y \in Trainers : y # x => trainer'[y] = trainer[y]
  BY <1>1
<1> QED BY <1>2, <1>3 DEF Working

\* What a step of the jobs that leaves the rows and the deploys alone keeps.
LEMMA RowsKept ==
  ASSUME FtInv, UNCHANGED <<rows, deploy>>
  PROVE  There' = There /\ ClearedAlone' /\ SoleDefault'
BY DEF FtInv, There, ClearedAlone, SoleDefault

LEMMA TrainingsQueue ==
  ASSUME FtInv, EnqueueTrain \/ \E x \in Trainers : SubmitTraining(x) \/ NextVersion(x) \/ TrainingHalts(x)
  PROVE  FtInv'
<1> USE FineTuningAssumption
<1>0. UNCHANGED <<rows, eval, deploy, ab, starter, raced>>
  BY DEF EnqueueTrain, SubmitTraining, NextVersion, TrainingHalts
<1>1. /\ There' = There /\ ClearedAlone' /\ SoleDefault'
      /\ RowsInOrder' /\ StartsInHand'
  BY <1>0, RowsKept DEF FtInv, RowsInOrder, StartsInHand, Running
<1>2. /\ trains \in 0..MaxTrains /\ asks \in 0..MaxTrains /\ halts \in 0..MaxHalts /\ twins \in BOOLEAN
      /\ trainer \in [Trainers -> TrainerStates]
  BY DEF FtInv, FtTypeOK, TrainerStates
<1>3. ASSUME trains' \in 0..MaxTrains, asks' \in 0..MaxTrains, halts' \in 0..MaxHalts, twins' \in BOOLEAN,
             trainer' \in [Trainers -> TrainerStates]
      PROVE  FtTypeOK'
  BY <1>0, <1>3 DEF FtInv, FtTypeOK, TrainerStates
<1>4. CASE EnqueueTrain
  <2>1. asks' = asks + 1 /\ asks < MaxTrains /\ trains' = trains + 1 /\ UNCHANGED <<trainer, halts, twins>>
    BY <1>4 DEF EnqueueTrain
  <2>2. Working' = Working
    BY <2>1 DEF Working
  <2>3. Cardinality(Working) \in Nat
    <3>1. Working \subseteq Trainers
      BY DEF Working
    <3> QED BY <3>1, FS_Subset, FS_CardinalityType
  <2>4. TrainingsAsked' /\ trains' \in 0..MaxTrains
    BY <1>2, <2>1, <2>2, <2>3 DEF FtInv, TrainingsAsked
  <2>5. FtTypeOK'
    BY <1>2, <1>3, <2>1, <2>4
  <2>6. VersionsCounted' /\ VersionsInHand' /\ RowsInTraining'
    BY <1>0, <1>1, <2>1 DEF FtInv, VersionsCounted, VersionsInHand, RowsInTraining
  <2> QED BY <1>1, <2>4, <2>5, <2>6 DEF FtInv
<1>5. ASSUME NEW x \in Trainers, SubmitTraining(x) PROVE FtInv'
  <2> DEFINE t == [trainer[x] EXCEPT !.pc = "submitted"]
  <2>1. /\ trainer[x].pc = "idle" /\ trains > 0 /\ trains' = trains - 1 /\ UNCHANGED <<asks, halts, twins>>
        /\ t \in TrainerStates /\ t.pc = "submitted" /\ trainer' = [trainer EXCEPT ![x] = t]
    BY <1>2, <1>5 DEF SubmitTraining, TrainerStates
  <2> HIDE DEF t
  <2>2. /\ trainer' \in [Trainers -> TrainerStates] /\ trainer'[x].pc = "submitted"
        /\ \A y \in Trainers : y # x => trainer'[y] = trainer[y]
        /\ Working' = Working \cup {x} /\ x \notin Working
    BY <2>1, TrainerSteps DEF Working
  <2>3. TrainingsAsked'
    BY <1>2, <2>1, <2>2, WorkingCounted DEF FtInv, TrainingsAsked
  <2>4. FtTypeOK'
    BY <1>2, <1>3, <2>1, <2>2
  <2>5. VersionsCounted' /\ VersionsInHand' /\ RowsInTraining'
    BY <1>0, <1>1, <2>1, <2>2 DEF FtInv, VersionsCounted, VersionsInHand, RowsInTraining
  <2> QED BY <1>1, <2>3, <2>4, <2>5 DEF FtInv
<1>6. ASSUME NEW x \in Trainers, TrainingHalts(x) PROVE FtInv'
  <2>0. Idle \in TrainerStates /\ Idle.pc = "idle"
    BY DEF Idle, TrainerStates
  <2>1. /\ trainer[x].pc # "idle" /\ halts < MaxHalts /\ halts' = halts + 1 /\ UNCHANGED <<asks, twins>>
        /\ trains' \in {trains, trains + 1} \cap 0..MaxTrains
        /\ trainer' = [trainer EXCEPT ![x] = Idle]
    BY <1>6 DEF TrainingHalts
  <2>2. /\ trainer' \in [Trainers -> TrainerStates] /\ trainer'[x].pc = "idle"
        /\ \A y \in Trainers : y # x => trainer'[y] = trainer[y]
        /\ Working' = Working \ {x} /\ x \in Working
    BY <2>0, <2>1, TrainerSteps DEF Working
  <2>3. TrainingsAsked'
    BY <1>2, <2>1, <2>2, WorkingCounted DEF FtInv, TrainingsAsked
  <2>4. FtTypeOK'
    BY <1>2, <1>3, <2>1, <2>2
  <2>5. VersionsCounted' /\ VersionsInHand' /\ RowsInTraining'
    BY <1>0, <1>1, <2>1, <2>2 DEF FtInv, VersionsCounted, VersionsInHand, RowsInTraining
  <2> QED BY <1>1, <2>3, <2>4, <2>5 DEF FtInv
<1>7. ASSUME NEW x \in Trainers, NextVersion(x) PROVE FtInv'
  <2> DEFINE IsLast(v) == /\ \A m \in There : rows[m].version <= v
                          /\ v = 0 \/ \E m \in There : rows[m].version = v
             last == CHOOSE v \in 0..MaxModels + 1 : IsLast(v)
             t == [trainer[x] EXCEPT !.pc = "versioned", !.version = last + 1]
  <2>1. rows \in [Models -> RowStates] /\ There \subseteq Models
    BY DEF FtInv, FtTypeOK, RowStates, There
  <2>2. \E v \in 0..MaxModels + 1 : IsLast(v)
    <3> DEFINE S == {rows[m].version : m \in There} \cup {0}
    <3>1. S \in SUBSET (0..MaxModels + 1) /\ S # {}
      BY <2>1 DEF RowStates
    <3>2. PICK v \in S : \A u \in S : u <= v
      <4>1. MaxModels + 1 \in Nat
        OBVIOUS
      <4> HIDE DEF S
      <4> QED BY <3>1, <4>1, LastNumber
    <3>3. \A m \in There : rows[m].version <= v
      BY <3>2
    <3>4. v = 0 \/ \E m \in There : rows[m].version = v
      BY <3>2
    <3> QED BY <3>1, <3>3, <3>4
  <2>3. last \in 0..MaxModels + 1 /\ IsLast(last)
    <3> HIDE DEF IsLast
    <3> QED BY <2>2
  <2>4. trainer[x].pc = "submitted" /\ trainer' = [trainer EXCEPT ![x] = t] /\ UNCHANGED <<trains, asks, halts>>
    <3>1. /\ trainer[x].pc = "submitted" /\ UNCHANGED <<trains, asks, halts>>
          /\ trainer' = [trainer EXCEPT ![x].pc = "versioned", ![x].version = last + 1]
      BY <1>7 DEF NextVersion
    <3> HIDE DEF last
    <3> QED BY <1>2, <3>1 DEF TrainerStates
  <2>5. twins' = (twins \/ \E y \in Trainers : trainer[y].pc = "versioned")
    BY <1>7 DEF NextVersion
  <2> HIDE DEF last
  <2>6. last <= Cardinality(There)
    BY <2>3, ThereCounted DEF FtInv, VersionsCounted
  <2>7. t \in TrainerStates /\ t.pc = "versioned" /\ t.version = last + 1
    <3>1. PICK v \in 0..MaxModels + 1 : v = last + 1
      BY <2>3, <2>6, ThereCounted
    <3>2. trainer[x] \in TrainerStates
      BY <1>2
    <3> QED BY <3>1, <3>2 DEF TrainerStates
  <2> HIDE DEF t
  <2>8. /\ trainer' \in [Trainers -> TrainerStates] /\ trainer'[x] = t
        /\ \A y \in Trainers : y # x => trainer'[y] = trainer[y]
        /\ Working' = Working \cup {x} /\ x \in Working
    BY <2>4, <2>7, TrainerSteps DEF Working
  <2>9. TrainingsAsked'
    BY <1>2, <2>4, <2>8, WorkingCounted DEF FtInv, TrainingsAsked
  <2>10. FtTypeOK'
    <3>1. twins' \in BOOLEAN
      BY <2>5
    <3> QED BY <1>2, <1>3, <2>4, <2>8, <3>1
  <2>11. VersionsCounted'
    BY <1>0, <1>1, <2>3, <2>6, <2>7, <2>8, ThereCounted DEF FtInv, VersionsCounted
  <2>12. VersionsInHand'
    <3> SUFFICES ASSUME ~twins'
                 PROVE  /\ \A y, z \in Trainers :
                             trainer'[y].pc = "versioned" /\ trainer'[z].pc = "versioned" => y = z
                        /\ \A y \in Trainers, m \in There :
                             trainer'[y].pc = "versioned" => rows[m].version < trainer'[y].version
                        /\ \A m, n \in There : rows[m].version = rows[n].version => m = n
      BY <1>0, <1>1 DEF VersionsInHand
    <3>1. ~twins /\ \A y \in Trainers : trainer[y].pc # "versioned"
      BY <2>5
    <3>2. \A m \in There : rows[m].version \in Nat /\ rows[m].version <= last
      BY <2>1, <2>3 DEF RowStates
    <3> QED BY <2>3, <2>7, <2>8, <3>1, <3>2 DEF FtInv, VersionsInHand
  <2>13. RowsInTraining'
    BY <1>0, <1>1, <2>7, <2>8 DEF FtInv, RowsInTraining
  <2> QED BY <1>1, <2>9, <2>10, <2>11, <2>12, <2>13 DEF FtInv
<1> QED BY <1>4, <1>5, <1>6, <1>7

LEMMA RowAdded ==
  ASSUME FtInv, NEW x \in Trainers, AddRow(x)
  PROVE  FtInv'
<1> USE FineTuningAssumption
<1>1. PICK m \in Models \ There :
        /\ trainer[x].pc = "versioned"
        /\ rows' = [rows EXCEPT ![m] = [Missing EXCEPT !.status = "training", !.version = trainer[x].version]]
        /\ trainer' = [trainer EXCEPT ![x].pc = "polling", ![x].row = m]
  BY DEF AddRow
<1>2. UNCHANGED <<trains, asks, eval, deploy, ab, starter, halts, raced, twins>>
  BY DEF AddRow
<1>3. trainer \in [Trainers -> TrainerStates] /\ rows \in [Models -> RowStates]
  BY DEF FtInv, FtTypeOK, TrainerStates, RowStates
<1> DEFINE t == [trainer[x] EXCEPT !.pc = "polling", !.row = m]
<1>4. /\ trainer' = [trainer EXCEPT ![x] = t] /\ t \in TrainerStates
      /\ t.pc = "polling" /\ t.row = m
  <2>1. trainer[x] \in TrainerStates /\ m \in 0..MaxModels
    BY <1>3 DEF Models
  <2> QED BY <1>1, <1>3, <2>1 DEF TrainerStates
<1> HIDE DEF t
<1>5. /\ trainer' \in [Trainers -> TrainerStates] /\ trainer'[x] = t
      /\ \A y \in Trainers : y # x => trainer'[y] = trainer[y]
      /\ Working' = Working \cup {x} /\ x \in Working
  BY <1>1, <1>4, TrainerSteps DEF Working
<1>6. /\ rows' \in [Models -> RowStates]
      /\ rows'[m].status = "training" /\ rows'[m].version = trainer[x].version /\ ~rows'[m].default
      /\ \A n \in Models : n # m => rows'[n] = rows[n]
  <2>1. trainer[x].version \in 0..MaxModels + 1
    BY <1>3 DEF TrainerStates
  <2>2. [Missing EXCEPT !.status = "training", !.version = trainer[x].version] \in RowStates
    BY <2>1 DEF Missing, RowStates
  <2> QED BY <1>1, <1>3, <2>2 DEF Missing
<1>7. There' = There \cup {m} /\ There \subseteq Models
  BY <1>1, <1>6 DEF There
<1>8. Cardinality(There') = Cardinality(There) + 1
  BY <1>1, <1>7, ThereCounted, FS_AddElement
<1>9. eval[m] = "none" /\ deploy[m].pc = "none" /\ ~rows[m].default
  BY <1>1 DEF FtInv, RowsInOrder, There, Missing
<1>10. FtTypeOK'
  BY <1>2, <1>5, <1>6 DEF FtInv, FtTypeOK, TrainerStates, RowStates
<1>11. TrainingsAsked'
  BY <1>2, <1>5, WorkingCounted DEF FtInv, TrainingsAsked
<1>12. VersionsCounted'
  <2>1. ASSUME NEW n \in There' PROVE rows'[n].version <= Cardinality(There) + 1
    <3>1. CASE n = m
      BY <1>1, <1>6, <3>1 DEF FtInv, VersionsCounted
    <3>2. CASE n # m
      <4>1. rows'[n] = rows[n] /\ rows[n].version <= Cardinality(There) /\ rows[n].version \in Nat
        BY <1>3, <1>6, <1>7, <2>1, <3>2 DEF FtInv, VersionsCounted, RowStates
      <4> QED BY <4>1, ThereCounted
    <3> QED BY <3>1, <3>2
  <2>2. ASSUME NEW y \in Trainers, trainer'[y].pc = "versioned"
        PROVE  trainer'[y].version <= Cardinality(There) + 2
    <3>1. y # x /\ trainer'[y] = trainer[y] /\ trainer[y].version \in Nat
      BY <1>3, <1>4, <1>5, <2>2 DEF TrainerStates
    <3>2. trainer[y].version <= Cardinality(There) + 1
      BY <2>2, <3>1 DEF FtInv, VersionsCounted
    <3> QED BY <3>1, <3>2, ThereCounted
  <2> QED BY <1>8, <2>1, <2>2, ThereCounted DEF VersionsCounted
<1>13. VersionsInHand'
  <2> SUFFICES ASSUME ~twins
               PROVE  /\ \A y, z \in Trainers :
                           trainer'[y].pc = "versioned" /\ trainer'[z].pc = "versioned" => y = z
                      /\ \A y \in Trainers, n \in There' :
                           trainer'[y].pc = "versioned" => rows'[n].version < trainer'[y].version
                      /\ \A n, o \in There' : rows'[n].version = rows'[o].version => n = o
    BY <1>2 DEF VersionsInHand
  <2>1. \A y \in Trainers : trainer'[y].pc # "versioned"
    BY <1>1, <1>4, <1>5 DEF FtInv, VersionsInHand
  <2>2. \A n \in There : rows'[n] = rows[n] /\ rows[n].version < trainer[x].version /\ rows[n].version \in Nat
    BY <1>1, <1>3, <1>6, <1>7 DEF FtInv, VersionsInHand, RowStates
  <2>3. \A n, o \in There' : rows'[n].version = rows'[o].version => n = o
    BY <1>6, <1>7, <2>2 DEF FtInv, VersionsInHand
  <2> QED BY <2>1, <2>3
<1>14. RowsInTraining'
  BY <1>1, <1>2, <1>4, <1>5, <1>7, <1>9 DEF FtInv, RowsInTraining
<1>15. RowsInOrder' /\ ClearedAlone' /\ SoleDefault'
  BY <1>2, <1>6, <1>9 DEF FtInv, RowsInOrder, ClearedAlone, SoleDefault
<1>16. StartsInHand'
  BY <1>2 DEF FtInv, StartsInHand, Running
<1> QED BY <1>10, <1>11, <1>12, <1>13, <1>14, <1>15, <1>16 DEF FtInv

LEMMA RowTrained ==
  ASSUME FtInv, NEW x \in Trainers, TrainingEnds(x)
  PROVE  FtInv'
<1> USE FineTuningAssumption
<1>0. PICK m \in Models : m = trainer[x].row
  <2>1. trainer[x].row \in Models
    BY DEF TrainingEnds, FtInv, RowsInTraining, There
  <2> QED BY <2>1
<1>1. PICK ok \in BOOLEAN :
        /\ trainer[x].pc = "polling"
        /\ rows' = [rows EXCEPT ![m].status = IF ok THEN "ready" ELSE "failed"]
        /\ eval' = IF ok THEN [eval EXCEPT ![m] = "queued"] ELSE eval
        /\ trainer' = [trainer EXCEPT ![x] = Idle]
  BY <1>0 DEF TrainingEnds
<1>2. UNCHANGED <<trains, asks, deploy, ab, starter, halts, raced, twins>>
  BY DEF TrainingEnds
<1>3. /\ trainer \in [Trainers -> TrainerStates] /\ rows \in [Models -> RowStates]
      /\ eval \in [Models -> {"none", "queued", "scoring", "written", "done"}]
  BY DEF FtInv, FtTypeOK, TrainerStates, RowStates
<1>4. m \in There /\ m \in Models /\ eval[m] = "none" /\ deploy[m].pc = "none" /\ ~rows[m].default
  BY <1>0, <1>1 DEF FtInv, RowsInTraining, RowsInOrder, There
<1>5. Idle \in TrainerStates /\ Idle.pc = "idle"
  BY DEF Idle, TrainerStates
<1>6. /\ trainer' \in [Trainers -> TrainerStates] /\ trainer'[x].pc = "idle"
      /\ \A y \in Trainers : y # x => trainer'[y] = trainer[y]
      /\ Working' = Working \ {x} /\ x \in Working
  BY <1>1, <1>5, TrainerSteps DEF Working
<1>7. /\ rows' \in [Models -> RowStates] /\ rows'[m].status # "none"
      /\ \A n \in Models :
           /\ rows'[n].version = rows[n].version
           /\ rows'[n].default = rows[n].default /\ rows'[n].passed = rows[n].passed
           /\ n # m => rows'[n] = rows[n]
  BY <1>1, <1>3, <1>4 DEF RowStates
<1>8. /\ eval' \in [Models -> {"none", "queued", "scoring", "written", "done"}]
      /\ \A n \in Models : n # m => eval'[n] = eval[n]
  BY <1>1, <1>3
<1>9. There' = There /\ There \subseteq Models
  <2>1. rows[m].status # "none"
    BY <1>4 DEF There
  <2>2. \A n \in Models : rows'[n].status # "none" <=> rows[n].status # "none"
    BY <1>7, <2>1
  <2> QED BY <2>2 DEF There
<1>10. FtTypeOK'
  BY <1>2, <1>6, <1>7, <1>8 DEF FtInv, FtTypeOK, TrainerStates, RowStates
<1>11. TrainingsAsked'
  <2>1. trains \in Nat /\ asks \in Nat
    BY DEF FtInv, FtTypeOK
  <2> QED BY <1>2, <1>6, <2>1, WorkingCounted DEF FtInv, TrainingsAsked
<1>12. VersionsCounted' /\ VersionsInHand'
  <2>1. \A y \in Trainers : trainer'[y].pc = "versioned" => trainer'[y] = trainer[y]
    BY <1>6
  <2>2. \A n \in There : rows'[n].version = rows[n].version
    BY <1>7, <1>9
  <2>3. VersionsCounted'
    BY <1>9, <2>1, <2>2 DEF FtInv, VersionsCounted
  <2>4. VersionsInHand'
    BY <1>2, <1>9, <2>1, <2>2 DEF FtInv, VersionsInHand
  <2> QED BY <2>3, <2>4
<1>13. RowsInTraining'
  BY <1>0, <1>1, <1>2, <1>6, <1>8, <1>9 DEF FtInv, RowsInTraining
<1>14. RowsInOrder' /\ ClearedAlone' /\ SoleDefault'
  <2>1. ASSUME NEW n \in Models
        PROVE  /\ rows'[n].status = "none" => ~rows'[n].default /\ eval'[n] = "none"
               /\ deploy[n].pc # "none" => eval'[n] = "done" /\ rows'[n].passed
               /\ rows'[n].default => deploy[n].pc # "none" /\ rows'[n].status = "deployed"
    <3>1. CASE n = m
      BY <1>4, <1>7, <3>1
    <3>2. CASE n # m
      BY <1>7, <1>8, <3>2 DEF FtInv, RowsInOrder
    <3> QED BY <3>1, <3>2
  <2>2. ClearedAlone' /\ SoleDefault'
    BY <1>2, <1>7 DEF FtInv, ClearedAlone, SoleDefault
  <2> QED BY <1>2, <2>1, <2>2 DEF RowsInOrder
<1>15. StartsInHand'
  BY <1>2 DEF FtInv, StartsInHand, Running
<1> QED BY <1>10, <1>11, <1>12, <1>13, <1>14, <1>15 DEF FtInv

\* What a step after the training keeps, if it keeps the rows' versions.
LEMMA TrainingKept ==
  ASSUME FtInv, UNCHANGED <<trains, asks, trainer, twins>>, There' = There,
         \A m \in Models : rows'[m].version = rows[m].version,
         \A m \in Models : eval[m] = "none" => eval'[m] = "none"
  PROVE  TrainingsAsked' /\ VersionsCounted' /\ VersionsInHand' /\ RowsInTraining'
<1>1. Working' = Working /\ There \subseteq Models
  BY DEF Working, There
<1>2. TrainingsAsked'
  BY <1>1 DEF FtInv, TrainingsAsked
<1>3. VersionsCounted' /\ VersionsInHand'
  BY <1>1 DEF FtInv, VersionsCounted, VersionsInHand
<1>4. RowsInTraining'
  BY <1>1 DEF FtInv, RowsInTraining
<1> QED BY <1>2, <1>3, <1>4

LEMMA RowEvaluated ==
  ASSUME FtInv, NEW m \in Models,
         StartEvaluation(m) \/ WriteEvaluation(m) \/ Rollout(m) \/ EvaluationCut(m)
  PROVE  FtInv'
<1> USE FineTuningAssumption
<1>1. /\ UNCHANGED <<trains, asks, trainer, ab, starter, raced, twins>>
      /\ eval[m] \in {"queued", "scoring", "written"} /\ eval'[m] # "none"
      /\ \A n \in Models : n # m => eval'[n] = eval[n]
      /\ eval' \in [Models -> {"none", "queued", "scoring", "written", "done"}]
      /\ halts' \in 0..MaxHalts
  <2>1. eval \in [Models -> {"none", "queued", "scoring", "written", "done"}] /\ halts \in 0..MaxHalts
    BY DEF FtInv, FtTypeOK
  <2>2. CASE StartEvaluation(m)
    BY <2>1, <2>2 DEF StartEvaluation
  <2>3. CASE WriteEvaluation(m)
    BY <2>1, <2>3 DEF WriteEvaluation
  <2>4. CASE Rollout(m)
    BY <2>1, <2>4 DEF Rollout
  <2>5. CASE EvaluationCut(m)
    BY <2>1, <2>5 DEF EvaluationCut
  <2> QED BY <2>2, <2>3, <2>4, <2>5
<1>2. rows \in [Models -> RowStates] /\ deploy \in [Models -> DeployStates]
  BY DEF FtInv, FtTypeOK, RowStates, DeployStates
<1>3. deploy[m].pc = "none" /\ rows[m].status # "none" /\ ~rows[m].default
  BY <1>1 DEF FtInv, RowsInOrder
<1>4. /\ rows' \in [Models -> RowStates] /\ rows'[m].status # "none"
      /\ rows'[m].version = rows[m].version /\ rows'[m].default = rows[m].default
      /\ \A n \in Models : n # m => rows'[n] = rows[n]
  <2>1. CASE WriteEvaluation(m)
    <3>1. PICK verdict \in {"pass", "fail", "no_data"} :
            rows' = [rows EXCEPT ![m].status = IF verdict = "no_data" THEN "eval_skipped" ELSE "evaluated",
                                 ![m].passed = (verdict = "pass")]
      BY <2>1 DEF WriteEvaluation
    <3>2. PICK s \in {"eval_skipped", "evaluated"}, b \in BOOLEAN :
            rows' = [rows EXCEPT ![m] = [rows[m] EXCEPT !.status = s, !.passed = b]]
      BY <1>2, <3>1
    <3>3. rows[m] \in RowStates
      BY <1>2
    <3>4. [rows[m] EXCEPT !.status = s, !.passed = b] \in RowStates
      BY <3>3 DEF RowStates
    <3> QED BY <1>2, <3>2, <3>3, <3>4 DEF RowStates
  <2>2. CASE rows' = rows
    BY <1>2, <1>3, <2>2
  <2> QED BY <2>1, <2>2 DEF StartEvaluation, Rollout, EvaluationCut
<1>5. /\ deploy' \in [Models -> DeployStates]
      /\ deploy'[m].pc \in {"none", "queued"} /\ deploy'[m].clears = deploy[m].clears
      /\ deploy'[m].pc = "queued" => eval'[m] = "done" /\ rows'[m].passed
      /\ \A n \in Models : n # m => deploy'[n] = deploy[n]
  <2>1. CASE Rollout(m)
    BY <1>2, <1>3, <2>1 DEF Rollout, DeployStates, FtInv, FtTypeOK
  <2>2. CASE deploy' = deploy
    BY <1>2, <1>3, <2>2
  <2> QED BY <2>1, <2>2 DEF StartEvaluation, WriteEvaluation, EvaluationCut
<1>6. There' = There
  <2>1. \A n \in Models : rows'[n].status # "none" <=> rows[n].status # "none"
    BY <1>3, <1>4
  <2> QED BY <2>1 DEF There
<1>7. TrainingsAsked' /\ VersionsCounted' /\ VersionsInHand' /\ RowsInTraining'
  <2>1. /\ \A n \in Models : rows'[n].version = rows[n].version
        /\ \A n \in Models : eval[n] = "none" => eval'[n] = "none"
    BY <1>1, <1>4
  <2> QED BY <1>1, <1>6, <2>1, TrainingKept
<1>8. FtTypeOK'
  BY <1>1, <1>4, <1>5 DEF FtInv, FtTypeOK, RowStates, DeployStates
<1>9. RowsInOrder'
  <2>1. ASSUME NEW n \in Models
        PROVE  /\ rows'[n].status = "none" => ~rows'[n].default /\ eval'[n] = "none"
               /\ deploy'[n].pc # "none" => eval'[n] = "done" /\ rows'[n].passed
               /\ rows'[n].default => deploy'[n].pc # "none" /\ rows'[n].status = "deployed"
    <3>1. CASE n = m
      BY <1>3, <1>4, <1>5, <3>1
    <3>2. CASE n # m
      BY <1>1, <1>4, <1>5, <3>2 DEF FtInv, RowsInOrder
    <3> QED BY <3>1, <3>2
  <2> QED BY <2>1 DEF RowsInOrder
<1>10. ClearedAlone' /\ SoleDefault'
  <2>1. \A n \in Models : rows'[n].default = rows[n].default
    BY <1>4
  <2>2. \A n \in Models : deploy'[n].pc \in {"loaded", "clearing"} => deploy'[n] = deploy[n]
    BY <1>5
  <2> QED BY <2>1, <2>2 DEF FtInv, ClearedAlone, SoleDefault
<1>11. StartsInHand'
  BY <1>1 DEF FtInv, StartsInHand, Running
<1> QED BY <1>7, <1>8, <1>9, <1>10, <1>11 DEF FtInv

\* A deploy moves on, and leaves the rows alone.
LEMMA DeployMoves ==
  ASSUME FtInv, NEW m \in Models, LoadForDeploy(m) \/ ClearOthers(m) \/ DeployHalts(m)
  PROVE  FtInv'
<1> USE FineTuningAssumption
<1>1. UNCHANGED <<trains, asks, trainer, rows, eval, ab, starter, raced, twins>>
  BY DEF LoadForDeploy, ClearOthers, DeployHalts
<1>2. rows \in [Models -> RowStates] /\ deploy \in [Models -> DeployStates]
  BY DEF FtInv, FtTypeOK, RowStates, DeployStates
<1>3. There' = There /\ There \subseteq Models /\ OthersOf(m) \subseteq Models
  BY <1>1 DEF There, OthersOf
<1>4. /\ deploy' \in [Models -> DeployStates] /\ deploy[m].pc # "none"
      /\ \A n \in Models : n # m => deploy'[n] = deploy[n]
      /\ halts' \in 0..MaxHalts
      /\ \/ /\ deploy[m].pc = "queued" /\ deploy'[m].pc \in {"loaded", "done"}
            /\ \A n \in Models : deploy[n].pc = "clearing" => m \in deploy[n].clears
         \/ /\ deploy[m].pc = "loaded" /\ deploy'[m].pc = "clearing" /\ deploy'[m].clears = OthersOf(m)
         \/ deploy'[m].pc \in {"queued", "done"}
  <2>1. halts \in 0..MaxHalts /\ deploy[m] \in DeployStates
    BY <1>2 DEF FtInv, FtTypeOK
  <2>2. CASE LoadForDeploy(m)
    <3>1. PICK p \in {"loaded", "done"} : deploy' = [deploy EXCEPT ![m] = [deploy[m] EXCEPT !.pc = p]]
      BY <1>2, <2>2 DEF LoadForDeploy
    <3>2. [deploy[m] EXCEPT !.pc = p] \in DeployStates /\ [deploy[m] EXCEPT !.pc = p].pc = p
      BY <2>1 DEF DeployStates
    <3> QED BY <1>2, <2>1, <2>2, <3>1, <3>2 DEF LoadForDeploy
  <2>3. CASE ClearOthers(m)
    <3>1. [pc |-> "clearing", clears |-> OthersOf(m)] \in DeployStates
      BY <1>3 DEF DeployStates
    <3> QED BY <1>2, <2>1, <2>3, <3>1 DEF ClearOthers
  <2>4. CASE DeployHalts(m)
    <3>1. PICK p \in {"queued", "done"} : deploy' = [deploy EXCEPT ![m] = [pc |-> p, clears |-> {}]]
      BY <2>4 DEF DeployHalts
    <3>2. [pc |-> p, clears |-> {}] \in DeployStates
      BY DEF DeployStates
    <3>3. halts' \in 0..MaxHalts /\ deploy[m].pc # "none"
      BY <2>1, <2>4 DEF DeployHalts
    <3> QED BY <1>2, <3>1, <3>2, <3>3
  <2> QED BY <2>2, <2>3, <2>4
<1>5. TrainingsAsked' /\ VersionsCounted' /\ VersionsInHand' /\ RowsInTraining'
  BY <1>1, <1>3, TrainingKept
<1>6. FtTypeOK'
  BY <1>1, <1>4 DEF FtInv, FtTypeOK, DeployStates
<1>7. SoleDefault' /\ StartsInHand'
  BY <1>1 DEF FtInv, SoleDefault, StartsInHand, Running
<1>8. RowsInOrder'
  <2>1. deploy'[m].pc # "none"
    BY <1>4
  <2>2. \A n \in Models : deploy'[n].pc # "none" <=> deploy[n].pc # "none"
    BY <1>4, <2>1
  <2> QED BY <1>1, <2>2 DEF FtInv, RowsInOrder
<1>9. ClearedAlone'
  <2> SUFFICES ASSUME NEW o \in Models, NEW n \in Models,
                      deploy'[o].pc = "clearing", n # o, n \notin deploy'[o].clears
               PROVE  ~rows[n].default /\ deploy'[n].pc \notin {"loaded", "clearing"}
    BY <1>1 DEF ClearedAlone
  <2>1. CASE o = m
    <3>1. n # m /\ deploy'[n] = deploy[n] /\ n \notin OthersOf(m)
      BY <1>4, <2>1
    <3>2. rows[n].status = "none"
      BY <3>1 DEF OthersOf, There
    <3>3. ~rows[n].default /\ deploy[n].pc = "none"
      BY <3>2 DEF FtInv, RowsInOrder
    <3> QED BY <3>1, <3>3
  <2>2. CASE o # m
    <3>1. deploy[o].pc = "clearing" /\ n \notin deploy[o].clears
      BY <1>4, <2>2
    <3>2. ~rows[n].default /\ deploy[n].pc \notin {"loaded", "clearing"}
      BY <3>1 DEF FtInv, ClearedAlone
    <3>3. CASE n # m
      BY <1>4, <3>2, <3>3
    <3>4. CASE n = m
      BY <1>4, <3>1, <3>2, <3>4
    <3> QED BY <3>2, <3>3, <3>4
  <2> QED BY <2>1, <2>2
<1> QED BY <1>5, <1>6, <1>7, <1>8, <1>9 DEF FtInv

LEMMA DeployCommits ==
  ASSUME FtInv, NEW m \in Models, CommitDeploy(m)
  PROVE  FtInv'
<1> USE FineTuningAssumption
<1>1. UNCHANGED <<trains, asks, trainer, eval, starter, halts, twins>> /\ deploy[m].pc = "clearing"
  BY DEF CommitDeploy
<1>2. rows \in [Models -> RowStates] /\ deploy \in [Models -> DeployStates]
  BY DEF FtInv, FtTypeOK, RowStates, DeployStates
<1>3. eval[m] = "done" /\ rows[m].passed /\ rows[m].status # "none"
  BY <1>1 DEF FtInv, RowsInOrder
<1>4. /\ deploy' \in [Models -> DeployStates] /\ deploy'[m].pc = "done"
      /\ \A n \in Models : n # m => deploy'[n] = deploy[n]
  <2>1. [pc |-> "done", clears |-> {}] \in DeployStates
    BY DEF DeployStates
  <2> QED BY <1>2, <2>1 DEF CommitDeploy
<1>5. /\ rows' \in [Models -> RowStates]
      /\ rows'[m] = [rows[m] EXCEPT !.default = TRUE, !.status = "deployed"]
      /\ \A n \in Models : n # m =>
           rows'[n] = IF n \in deploy[m].clears THEN [rows[n] EXCEPT !.default = FALSE] ELSE rows[n]
  <2>1. \A n \in Models : rows'[n] =
          IF n = m THEN [rows[n] EXCEPT !.default = TRUE, !.status = "deployed"]
          ELSE IF n \in deploy[m].clears THEN [rows[n] EXCEPT !.default = FALSE] ELSE rows[n]
    BY DEF CommitDeploy
  <2>2. ASSUME NEW n \in Models PROVE rows'[n] \in RowStates
    <3>1. rows[n] \in RowStates
      BY <1>2
    <3>2. /\ [rows[n] EXCEPT !.default = TRUE, !.status = "deployed"] \in RowStates
          /\ [rows[n] EXCEPT !.default = FALSE] \in RowStates
      BY <3>1 DEF RowStates
    <3> QED BY <2>1, <3>1, <3>2
  <2>3. rows' = [n \in Models |-> rows'[n]]
    BY DEF CommitDeploy
  <2> QED BY <2>1, <2>2, <2>3
<1>6. ASSUME NEW n \in Models, n # m
      PROVE  /\ rows'[n].version = rows[n].version /\ rows'[n].status = rows[n].status
             /\ rows'[n].passed = rows[n].passed /\ ~rows'[n].default
  <2>1. rows[n] \in RowStates
    BY <1>2
  <2>2. CASE n \in deploy[m].clears
    BY <1>5, <1>6, <2>1, <2>2 DEF RowStates
  <2>3. CASE n \notin deploy[m].clears
    <3>1. rows'[n] = rows[n] /\ ~rows[n].default
      BY <1>1, <1>5, <1>6, <2>3 DEF FtInv, ClearedAlone
    <3> QED BY <3>1
  <2> QED BY <2>2, <2>3
<1>7. /\ rows'[m].version = rows[m].version /\ rows'[m].status = "deployed"
      /\ rows'[m].passed = rows[m].passed
  <2>1. rows[m] \in RowStates
    BY <1>2
  <2> QED BY <1>5, <2>1 DEF RowStates
<1>8. There' = There
  <2>1. \A n \in Models : rows'[n].status # "none" <=> rows[n].status # "none"
    BY <1>3, <1>6, <1>7
  <2> QED BY <2>1 DEF There
<1>9. TrainingsAsked' /\ VersionsCounted' /\ VersionsInHand' /\ RowsInTraining'
  <2>1. \A n \in Models : rows'[n].version = rows[n].version
    BY <1>6, <1>7
  <2> QED BY <1>1, <1>8, <2>1, TrainingKept
<1>10. /\ ab' = IF Running = {} THEN [ab EXCEPT ![m] = "running"] ELSE ab
       /\ raced' = (raced \/ \E s \in Requests : starter[s])
       /\ ab \in [Experiments -> {"none", "draft", "running", "completed"}]
  BY DEF CommitDeploy, FtInv, FtTypeOK
<1>11. FtTypeOK'
  <2>1. ab' \in [Experiments -> {"none", "draft", "running", "completed"}]
    BY <1>10
  <2>2. raced' \in BOOLEAN
    BY <1>10
  <2> QED BY <1>1, <1>4, <1>5, <2>1, <2>2 DEF FtInv, FtTypeOK, RowStates, DeployStates
<1>12. RowsInOrder'
  <2>1. ASSUME NEW n \in Models
        PROVE  /\ rows'[n].status = "none" => ~rows'[n].default /\ eval[n] = "none"
               /\ deploy'[n].pc # "none" => eval[n] = "done" /\ rows'[n].passed
               /\ rows'[n].default => deploy'[n].pc # "none" /\ rows'[n].status = "deployed"
    <3>1. CASE n = m
      BY <1>3, <1>4, <1>7, <3>1
    <3>2. CASE n # m
      BY <1>4, <1>6, <3>2 DEF FtInv, RowsInOrder
    <3> QED BY <3>1, <3>2
  <2> QED BY <1>1, <2>1 DEF RowsInOrder
<1>13. ClearedAlone'
  <2> SUFFICES ASSUME NEW o \in Models, NEW n \in Models,
                      deploy'[o].pc = "clearing", n # o, n \notin deploy'[o].clears
               PROVE  ~rows'[n].default /\ deploy'[n].pc \notin {"loaded", "clearing"}
    BY DEF ClearedAlone
  <2>1. o # m /\ deploy'[o] = deploy[o]
    BY <1>4
  <2>2. deploy[n].pc \notin {"loaded", "clearing"}
    BY <2>1 DEF FtInv, ClearedAlone
  <2>3. n # m
    BY <1>1, <2>2
  <2> QED BY <1>4, <1>6, <2>2, <2>3
<1>14. SoleDefault'
  BY <1>6 DEF SoleDefault
<1>15. StartsInHand'
  <2> SUFFICES ASSUME ~raced'
               PROVE  /\ \A e, f \in Running' : e = f
                      /\ (\E s \in Requests : starter[s]) => Running' \subseteq {0}
    BY <1>1 DEF StartsInHand
  <2>1. ~raced /\ ~(\E s \in Requests : starter[s])
    BY <1>10
  <2>2. CASE Running = {}
    <3>1. Running' \subseteq {m}
      BY <1>10, <2>2 DEF Running
    <3> QED BY <2>1, <3>1
  <2>3. CASE Running # {}
    <3>1. Running' = Running
      BY <1>10, <2>3 DEF Running
    <3> QED BY <2>1, <3>1 DEF FtInv, StartsInHand
  <2> QED BY <2>2, <2>3
<1> QED BY <1>9, <1>11, <1>12, <1>13, <1>14, <1>15 DEF FtInv

LEMMA ExperimentSteps ==
  ASSUME FtInv, StopExperiment \/ \E s \in Requests : StartExperiment(s) \/ CommitStart(s)
  PROVE  FtInv'
<1> USE FineTuningAssumption
<1>1. UNCHANGED <<trains, asks, trainer, rows, eval, deploy, halts, raced, twins>>
  BY DEF StopExperiment, StartExperiment, CommitStart
<1>2. TrainingsAsked' /\ VersionsCounted' /\ VersionsInHand' /\ RowsInTraining'
  BY <1>1, RowsKept, TrainingKept
<1>3. RowsInOrder' /\ ClearedAlone' /\ SoleDefault'
  BY <1>1 DEF FtInv, RowsInOrder, ClearedAlone, SoleDefault
<1>4. /\ ab \in [Experiments -> {"none", "draft", "running", "completed"}]
      /\ starter \in [Requests -> BOOLEAN] /\ 0 \in Experiments
  BY DEF FtInv, FtTypeOK, Experiments
<1>5. ASSUME ab' \in [Experiments -> {"none", "draft", "running", "completed"}],
             starter' \in [Requests -> BOOLEAN]
      PROVE  FtTypeOK'
  BY <1>1, <1>5 DEF FtInv, FtTypeOK
<1>6. CASE StopExperiment
  <2>1. PICK e \in Experiments : ab' = [ab EXCEPT ![e] = "completed"] /\ starter' = starter
    BY <1>6 DEF StopExperiment
  <2>2. Running' \subseteq Running
    BY <1>4, <2>1 DEF Running
  <2>3. StartsInHand'
    BY <1>1, <2>1, <2>2 DEF FtInv, StartsInHand
  <2>4. FtTypeOK'
    BY <1>4, <1>5, <2>1
  <2> QED BY <1>2, <1>3, <2>3, <2>4 DEF FtInv
<1>7. ASSUME NEW s \in Requests, StartExperiment(s) PROVE FtInv'
  <2>1. Running = {} /\ ab' = ab /\ starter' = [starter EXCEPT ![s] = TRUE]
    BY <1>7 DEF StartExperiment
  <2>2. Running' = {}
    BY <2>1 DEF Running
  <2>3. StartsInHand'
    BY <2>2 DEF StartsInHand
  <2>4. FtTypeOK'
    BY <1>4, <1>5, <2>1
  <2> QED BY <1>2, <1>3, <2>3, <2>4 DEF FtInv
<1>8. ASSUME NEW s \in Requests, CommitStart(s) PROVE FtInv'
  <2>1. starter[s] /\ ab' = [ab EXCEPT ![0] = "running"] /\ starter' = [starter EXCEPT ![s] = FALSE]
    BY <1>8 DEF CommitStart
  <2>2. Running' \subseteq Running \cup {0}
    BY <1>4, <2>1 DEF Running
  <2>3. ~raced => Running \subseteq {0}
    BY <2>1 DEF FtInv, StartsInHand
  <2>4. StartsInHand'
    BY <1>1, <2>2, <2>3 DEF StartsInHand
  <2>5. FtTypeOK'
    BY <1>4, <1>5, <2>1
  <2> QED BY <1>2, <1>3, <2>4, <2>5 DEF FtInv
<1> QED BY <1>6, <1>7, <1>8

LEMMA FtInvNext == FtInv /\ [FtNext]_ftVars => FtInv'
<1> SUFFICES ASSUME FtInv, [FtNext]_ftVars PROVE FtInv'
  OBVIOUS
<1>1. CASE UNCHANGED ftVars
  BY <1>1 DEF ftVars, FtInv, FtTypeOK, TrainingsAsked, Working, VersionsCounted, VersionsInHand, There,
              RowsInTraining, RowsInOrder, ClearedAlone, SoleDefault, StartsInHand, Running
<1>2. CASE EnqueueTrain \/ StopExperiment
  BY <1>2, TrainingsQueue, ExperimentSteps
<1>3. ASSUME NEW x \in Trainers, SubmitTraining(x) \/ NextVersion(x) \/ TrainingHalts(x) PROVE FtInv'
  BY <1>3, TrainingsQueue
<1>4. ASSUME NEW x \in Trainers, AddRow(x) \/ TrainingEnds(x) PROVE FtInv'
  BY <1>4, RowAdded, RowTrained
<1>5. ASSUME NEW m \in Models,
             StartEvaluation(m) \/ WriteEvaluation(m) \/ Rollout(m) \/ EvaluationCut(m)
      PROVE  FtInv'
  BY <1>5, RowEvaluated
<1>6. ASSUME NEW m \in Models, LoadForDeploy(m) \/ ClearOthers(m) \/ DeployHalts(m) PROVE FtInv'
  BY <1>6, DeployMoves
<1>7. ASSUME NEW m \in Models, CommitDeploy(m) PROVE FtInv'
  BY <1>7, DeployCommits
<1>8. ASSUME NEW s \in Requests, StartExperiment(s) \/ CommitStart(s) PROVE FtInv'
  BY <1>8, ExperimentSteps
<1> QED BY <1>1, <1>2, <1>3, <1>4, <1>5, <1>6, <1>7, <1>8 DEF FtNext

\* A tenant has one default model, that has passed its evaluation, and a merchant one running
\* experiment and a row its version unless starts or trainings overlapped (handlers.py, ab.py).
THEOREM FtCorrect == FtSpec => []FtSafe
<1>1. FtInv => FtSafe
  <2> SUFFICES ASSUME FtInv PROVE FtSafe
    OBVIOUS
  <2>1. ASSUME NEW S, \A a, b \in S : a = b PROVE Cardinality(S) <= 1
    <3>1. CASE S = {}
      BY <3>1, FS_EmptySet
    <3>2. CASE S # {}
      <4>1. PICK a : S = {a}
        BY <2>1, <3>2
      <4>2. Cardinality({a}) = 1
        BY FS_Singleton
      <4> QED BY <4>1, <4>2
    <3> QED BY <3>1, <3>2
  <2>2. OneDefaultModel
    <3>1. \A m, n \in {o \in Models : rows[o].default} : m = n
      BY DEF FtInv, SoleDefault
    <3>2. Cardinality({o \in Models : rows[o].default}) <= 1
      BY <2>1, <3>1
    <3>3. \A m \in Models : rows[m].default => rows[m].passed /\ rows[m].status = "deployed"
      BY DEF FtInv, RowsInOrder
    <3> QED BY <3>2, <3>3 DEF OneDefaultModel
  <2>3. OneRunning
    <3>1. ~raced => Cardinality(Running) <= 1
      BY <2>1 DEF FtInv, StartsInHand
    <3> QED BY <3>1 DEF OneRunning
  <2>4. OneVersion
    BY DEF FtInv, VersionsInHand, OneVersion
  <2> QED BY <2>2, <2>3, <2>4 DEF FtSafe, FtInv
<1> QED BY FtInvInit, FtInvNext, <1>1, PTL DEF FtSpec

-----------------------------------------------------------------------------
(* The knowledge base: the row's lock puts the runs of a document in line. *)

\* A run reads the page, and commits what it has read, under the row's lock.
KbLocked ==
  \A x \in Indexers : ix[x].pc \in {"locked", "cut"} <=> lock = x

\* No page committed is newer than the one that the run under the lock has read.
KbInLine ==
  /\ newest <= page
  /\ \A x \in Indexers : ix[x].pc = "cut" =>
       ix[x].text \in Pages /\ newest <= ix[x].text /\ ix[x].text <= page

\* The chunks are those of one page, once; of the newest page, if the row says so.
KbOneText ==
  /\ \A p \in Pages : chunks[p] <= 1
  /\ \A p, q \in Pages : chunks[p] > 0 /\ chunks[q] > 0 => p = q
  /\ doc.status = "indexed" => newest \in Pages /\ chunks[newest] = 1

KbInv == KbTypeOK /\ KbLocked /\ KbInLine /\ KbOneText

KbRuns == [pc : {"idle", "found", "loaded", "locked", "cut"},
           job : 0..MaxManual, count : 0..MaxPages, text : 0..MaxPages]

\* One run at least is running while a run is: the bound on the copies of a page.
LEMMA KbRunCounts == ASSUME NEW x \in Indexers PROVE Cardinality(Indexers) \in Nat \ {0}
  <1>1. Cardinality(Indexers) \in Nat
    BY KbAssumption, FS_CardinalityType
  <1>2. Indexers # {} => Cardinality(Indexers) # 0
    BY KbAssumption, FS_EmptySet
  <1> QED BY <1>1, <1>2

LEMMA KbPieces == ASSUME NEW p \in 0..MaxPages PROVE Pieces(p) \in 0..MaxPages
  BY KbAssumption DEF Pieces

LEMMA KbInvInit == KbInit => KbInv
  <1> SUFFICES ASSUME KbInit PROVE KbInv
    OBVIOUS
  <1> USE KbAssumption DEF KbInit
  <1>1. KbTypeOK
    <2>1. chunks \in [Pages -> 0..Cardinality(Indexers)]
      BY FS_CardinalityType DEF Pages
    <2>2. ix \in [Indexers -> KbRuns]
      BY DEF Resting, KbRuns
    <2>3. doc \in [status : {"absent", "pending", "indexed", "empty", "failed"}, count : 0..MaxPages]
      BY DEF Absent
    <2>4. page \in Pages /\ newest \in 0..MaxPages /\ asked \in 0..MaxManual /\ breaks \in 0..MaxBreaks
      BY DEF Pages
    <2> QED BY <2>1, <2>2, <2>3, <2>4 DEF KbTypeOK, None, KbRuns
  <1>2. KbLocked /\ KbInLine /\ KbOneText
    BY DEF KbLocked, KbInLine, KbOneText, Pages, Absent, None, Resting
  <1> QED BY <1>1, <1>2 DEF KbInv

\* What a run does to its own record leaves those of the others alone.
LEMMA KbRunEnds ==
  ASSUME NEW x \in Indexers, ix \in [Indexers -> KbRuns], Ends(x)
  PROVE  /\ ix' \in [Indexers -> KbRuns]
         /\ ix'[x].pc = "idle"
         /\ \A y \in Indexers : y # x => ix'[y] = ix[y]
  BY KbAssumption DEF Ends, Resting, KbRuns

LEMMA KbRelease ==
  ASSUME NEW x \in Indexers, KbInv, Ends(x), Release(x)
  PROVE  lock' \in Indexers \cup {None} /\ KbLocked'
  <1>1. ix \in [Indexers -> KbRuns]
    BY DEF KbInv, KbTypeOK, KbRuns
  <1>2. lock' \in Indexers \cup {None}
    BY DEF KbInv, KbTypeOK, Release
  <1>3. lock' # x
    BY KbAssumption DEF Release, None
  <1>4. ASSUME NEW y \in Indexers, y # x PROVE lock' = y <=> lock = y
    BY <1>4, KbAssumption DEF Release, None
  <1>5. KbLocked'
    BY <1>1, <1>3, <1>4, KbRunEnds DEF KbInv, KbLocked
  <1> QED BY <1>2, <1>5

LEMMA KbInvNext == KbInv /\ [KbNext]_kbVars => KbInv'
  <1> SUFFICES ASSUME KbInv, [KbNext]_kbVars PROVE KbInv'
    OBVIOUS
  <1> USE KbAssumption
  <1>1. ix \in [Indexers -> KbRuns]
    BY DEF KbInv, KbTypeOK, KbRuns
  <1>2. CASE UNCHANGED kbVars
    BY <1>2 DEF kbVars, KbInv, KbTypeOK, KbLocked, KbInLine, KbOneText
  <1>3. CASE CreateDoc \/ CommitDoc \/ AskReindex
    <2>1. request' \in {"none", "flushed", "committed"}
      BY <1>3 DEF CreateDoc, CommitDoc, AskReindex, KbInv, KbTypeOK
    <2>2. /\ doc' \in [status : {"absent", "pending", "indexed", "empty", "failed"}, count : 0..MaxPages]
          /\ doc'.status = "indexed" => doc.status = "indexed"
      <3>1. CASE CommitDoc
        BY <3>1 DEF CommitDoc
      <3>2. CASE CreateDoc \/ AskReindex
        BY <3>2 DEF CreateDoc, AskReindex, KbInv, KbTypeOK
      <3> QED BY <1>3, <3>1, <3>2
    <2>3. jobs' \subseteq 0..MaxManual /\ asked' \in 0..MaxManual
      <3>1. CASE AskReindex
        <4>1. asked' = asked + 1 /\ asked + 1 \in 0..MaxManual
          BY <3>1 DEF AskReindex, KbInv, KbTypeOK
        <4> QED BY <3>1, <4>1 DEF AskReindex, KbInv, KbTypeOK
      <3>2. CASE CreateDoc \/ CommitDoc
        <4>1. jobs' \subseteq jobs \cup {0} /\ asked' = asked
          BY <3>2 DEF CreateDoc, CommitDoc
        <4>2. 0 \in 0..MaxManual
          OBVIOUS
        <4> QED BY <4>1, <4>2 DEF KbInv, KbTypeOK
      <3> QED BY <1>3, <3>1, <3>2
    <2>4. UNCHANGED <<page, chunks, lock, ix, newest, failed, breaks>>
      BY <1>3 DEF CreateDoc, CommitDoc, AskReindex
    <2> QED BY <2>1, <2>2, <2>3, <2>4 DEF KbInv, KbTypeOK, KbLocked, KbInLine, KbOneText
  <1>4. CASE DeleteDoc
    <2>1. chunks' \in [Pages -> 0..Cardinality(Indexers)]
      BY <1>4, FS_CardinalityType DEF DeleteDoc
    <2> QED BY <2>1, <1>4 DEF DeleteDoc, KbInv, KbTypeOK, KbLocked, KbInLine, KbOneText, Absent
  <1>5. CASE PageChanges
    <2>1. page' \in Pages /\ page \in Nat /\ page' = page + 1
      BY <1>5 DEF PageChanges, KbInv, KbTypeOK, Pages
    <2> QED BY <2>1, <1>5 DEF PageChanges, KbInv, KbTypeOK, KbLocked, KbInLine, KbOneText, Pages
  <1>6. ASSUME NEW x \in Indexers, FindDoc(x) PROVE KbInv'
    <2>1. PICK j \in jobs :
            /\ ix[x].pc = "idle"
            /\ jobs' = jobs \ {j}
            /\ ix' = IF doc = Absent THEN ix
                     ELSE [ix EXCEPT ![x] = [Resting EXCEPT !.pc = "found", !.job = j]]
            /\ UNCHANGED <<page, request, doc, chunks, asked, lock, newest, failed, breaks>>
      BY <1>6 DEF FindDoc
    <2>2. j \in 0..MaxManual
      BY DEF KbInv, KbTypeOK
    <2>3. /\ ix' \in [Indexers -> KbRuns]
          /\ ix'[x].pc \in {"idle", "found"}
          /\ \A y \in Indexers : y # x => ix'[y] = ix[y]
      <3> DEFINE found == [Resting EXCEPT !.pc = "found", !.job = j]
      <3>1. found \in KbRuns /\ found.pc = "found"
        <4>1. Resting \in KbRuns
          BY DEF Resting, KbRuns
        <4> QED BY <2>2, <4>1 DEF KbRuns
      <3> HIDE DEF found
      <3>2. ix' = ix \/ ix' = [ix EXCEPT ![x] = found]
        BY <2>1 DEF found
      <3> QED BY <1>1, <2>1, <3>1, <3>2
    <2>4. lock # x
      BY <2>1 DEF KbInv, KbLocked
    <2> QED BY <2>1, <2>3, <2>4 DEF KbInv, KbTypeOK, KbLocked, KbInLine, KbOneText, KbRuns
  <1>7. ASSUME NEW x \in Indexers, LoadDoc(x) PROVE KbInv'
    <2>1. /\ ix' \in [Indexers -> KbRuns]
          /\ ix'[x].pc \in {"idle", "loaded"}
          /\ \A y \in Indexers : y # x => ix'[y] = ix[y]
      <3>1. doc.count \in 0..MaxPages
        BY DEF KbInv, KbTypeOK
      <3>2. CASE doc = Absent
        BY <1>1, <1>7, <3>2, KbRunEnds DEF LoadDoc
      <3>3. CASE doc # Absent
        BY <1>1, <1>7, <3>1, <3>3 DEF LoadDoc, KbRuns
      <3> QED BY <3>2, <3>3
    <2>2. lock # x
      BY <1>7 DEF LoadDoc, KbInv, KbLocked
    <2>3. failed' \in BOOLEAN
      BY <1>7 DEF LoadDoc, KbInv, KbTypeOK
    <2>4. UNCHANGED <<page, request, doc, chunks, jobs, asked, lock, newest, breaks>>
      BY <1>7 DEF LoadDoc
    <2> QED BY <2>1, <2>2, <2>3, <2>4 DEF KbInv, KbTypeOK, KbLocked, KbInLine, KbOneText, KbRuns
  <1>8. ASSUME NEW x \in Indexers, FlushIndexing(x) PROVE KbInv'
    <2>1. /\ ix' \in [Indexers -> KbRuns]
          /\ \A y \in Indexers : y # x => ix'[y] = ix[y]
          /\ \/ ix'[x].pc = "idle" /\ lock' = None
             \/ ix'[x].pc = "locked" /\ lock' = x
      <3>1. CASE doc = Absent
        BY <1>1, <1>8, <3>1, KbRunEnds DEF FlushIndexing
      <3>2. CASE doc # Absent
        BY <1>1, <1>8, <3>2 DEF FlushIndexing, KbRuns
      <3> QED BY <3>1, <3>2
    <2>2. lock = None
      BY <1>8 DEF FlushIndexing
    <2>3. failed' \in BOOLEAN
      BY <1>8 DEF FlushIndexing, KbInv, KbTypeOK
    <2>4. UNCHANGED <<page, request, doc, chunks, jobs, asked, newest, breaks>>
      BY <1>8 DEF FlushIndexing
    <2>5. KbLocked'
      BY <2>1, <2>2 DEF KbInv, KbLocked, None
    <2> QED BY <2>1, <2>3, <2>4, <2>5 DEF KbInv, KbTypeOK, KbInLine, KbOneText, KbRuns
  <1>9. ASSUME NEW x \in Indexers, ExtractText(x) PROVE KbInv'
    <2>1. page \in Pages /\ newest <= page
      BY DEF KbInv, KbTypeOK, KbInLine
    <2>2. /\ ix' \in [Indexers -> KbRuns]
          /\ ix[x].pc = "locked" /\ ix'[x].pc = "cut" /\ ix'[x].text = page
          /\ \A y \in Indexers : y # x => ix'[y] = ix[y]
      <3>1. page \in 0..MaxPages
        BY <2>1 DEF Pages
      <3>2. ix' = [ix EXCEPT ![x] = [ix[x] EXCEPT !.pc = "cut", !.text = page]]
        BY <1>1, <1>9 DEF ExtractText, KbRuns
      <3>3. [ix[x] EXCEPT !.pc = "cut", !.text = page] \in KbRuns
        BY <1>1, <3>1 DEF KbRuns
      <3> QED BY <1>1, <1>9, <3>2, <3>3 DEF ExtractText, KbRuns
    <2>3. UNCHANGED <<page, request, doc, chunks, jobs, asked, lock, newest, failed, breaks>>
      BY <1>9 DEF ExtractText
    <2>4. KbTypeOK' /\ KbOneText'
      BY <2>2, <2>3 DEF KbInv, KbTypeOK, KbOneText, KbRuns
    <2>5. KbLocked'
      BY <2>2, <2>3 DEF KbInv, KbLocked
    <2>6. KbInLine'
      BY <2>1, <2>2, <2>3 DEF KbInv, KbInLine, Pages
    <2> QED BY <2>4, <2>5, <2>6 DEF KbInv
  <1>10. ASSUME NEW x \in Indexers, Index(x) PROVE KbInv'
    <2> DEFINE p == ix[x].text
    <2>1. /\ ix[x].pc = "cut" /\ p \in Pages /\ newest <= p /\ p <= page
          /\ newest \in 0..MaxPages /\ page \in Pages
      BY <1>10 DEF Index, KbInv, KbTypeOK, KbInLine
    <2>2. newest' = p
      BY <1>10, <2>1 DEF Index, Pages
    <2>3. /\ ix' \in [Indexers -> KbRuns]
          /\ ix'[x].pc = "idle"
          /\ \A y \in Indexers : y # x => ix'[y] = ix[y]
      BY <1>1, <1>10, KbRunEnds DEF Index
    <2>4. lock' \in Indexers \cup {None} /\ KbLocked'
      BY <1>10, KbRelease DEF Index
    <2>5. \A y \in Indexers : y # x => ix[y].pc # "cut"
      BY <2>1 DEF KbInv, KbLocked
    <2>6. KbInLine'
      BY <1>10, <2>1, <2>2, <2>3, <2>5 DEF KbInLine, Index, Pages
    <2>7. /\ chunks' \in [Pages -> 0..Cardinality(Indexers)]
          /\ \A q \in Pages : chunks'[q] <= 1
          /\ \A q, r \in Pages : chunks'[q] > 0 /\ chunks'[r] > 0 => q = r
      <3>1. CASE p \in Blank
        BY <1>10, <3>1 DEF Index, KbInv, KbTypeOK, KbOneText
      <3>2. CASE p \notin Blank
        BY <1>10, <3>2, KbRunCounts DEF Index
      <3> QED BY <3>1, <3>2
    <2>8. doc' \in [status : {"absent", "pending", "indexed", "empty", "failed"}, count : 0..MaxPages]
      <3>1. Pieces(p) \in 0..MaxPages /\ doc.count \in 0..MaxPages
        BY <2>1, KbPieces DEF KbInv, KbTypeOK, Pages
      <3> QED BY <1>10, <3>1 DEF Index, RowAfter
    <2>9. doc'.status = "indexed" => newest' \in Pages /\ chunks'[newest'] = 1
      <3>1. CASE p \in Blank
        BY <1>10, <3>1 DEF Index, RowAfter
      <3>2. CASE p \notin Blank
        BY <1>10, <2>1, <2>2, <3>2 DEF Index
      <3> QED BY <3>1, <3>2
    <2>10. failed' = FALSE /\ UNCHANGED <<page, request, jobs, asked, breaks>>
      BY <1>10 DEF Index
    <2>11. KbTypeOK'
      BY <2>1, <2>2, <2>3, <2>4, <2>7, <2>8, <2>10 DEF KbInv, KbTypeOK, KbRuns, Pages
    <2>12. KbOneText'
      BY <2>7, <2>9 DEF KbOneText
    <2> QED BY <2>4, <2>6, <2>11, <2>12 DEF KbInv
  <1>11. ASSUME NEW x \in Indexers, IndexFails(x) \/ IndexCut(x) PROVE KbInv'
    <2>1. /\ ix' \in [Indexers -> KbRuns]
          /\ ix'[x].pc = "idle"
          /\ \A y \in Indexers : y # x => ix'[y] = ix[y]
      BY <1>1, <1>11, KbRunEnds DEF IndexFails, IndexCut
    <2>2. lock' \in Indexers \cup {None} /\ KbLocked'
      BY <1>11, KbRelease DEF IndexFails, IndexCut
    <2>3. failed' \in BOOLEAN /\ breaks' \in 0..MaxBreaks
      <3>1. breaks \in 0..MaxBreaks /\ breaks < MaxBreaks /\ breaks' = breaks + 1
        BY <1>11 DEF IndexFails, IndexCut, KbInv, KbTypeOK
      <3>2. failed' \in BOOLEAN
        BY <1>11 DEF IndexFails, IndexCut, KbInv, KbTypeOK
      <3> QED BY <3>1, <3>2
    <2>4. jobs' \subseteq 0..MaxManual
      <3>1. ix[x].job \in 0..MaxManual
        BY <1>1 DEF KbRuns
      <3>2. jobs' = jobs \/ jobs' = jobs \cup {ix[x].job}
        BY <1>11 DEF IndexFails, IndexCut
      <3> QED BY <3>1, <3>2 DEF KbInv, KbTypeOK
    <2>5. UNCHANGED <<page, request, doc, chunks, asked, newest>>
      BY <1>11 DEF IndexFails, IndexCut
    <2> QED BY <2>1, <2>2, <2>3, <2>4, <2>5 DEF KbInv, KbTypeOK, KbInLine, KbOneText, KbRuns
  <1> QED BY <1>2, <1>3, <1>4, <1>5, <1>6, <1>7, <1>8, <1>9, <1>10, <1>11 DEF KbNext

LEMMA KbInvSafe == KbInv => KbSafe
  <1> SUFFICES ASSUME KbInv PROVE KbSafe
    OBVIOUS
  <1> DEFINE S == {p \in Pages : chunks[p] > 0}
  <1>1. Cardinality(S) <= 1
    <2>1. CASE S = {}
      BY <2>1, FS_EmptySet
    <2>2. CASE S # {}
      <3>1. PICK p \in S : TRUE
        BY <2>2
      <3>2. S = {p}
        BY <3>1 DEF KbInv, KbOneText
      <3> QED BY <3>2, FS_Singleton
    <2> QED BY <2>1, <2>2
  <1> QED BY <1>1 DEF KbInv, KbOneText, KbSafe, OneText, NeverOlder

\* However many runs of a document overlap, fail, are cut and start again, the bot reads one
\* text of it, once, and never an older one after a newer (knowledge_base.py, kb_reindex.py).
THEOREM KbCorrect == KbSpec => []KbSafe
<1>1. KbInv => KbSafe
  BY KbInvSafe
<1> QED BY <1>1, KbInvInit, KbInvNext, PTL DEF KbSpec

-----------------------------------------------------------------------------
(* The corpus of frequent questions: nothing locks it. *)

FaqRuns == [pc : {"idle", "started", "ensured", "listed", "dropped"},
            job : 0..MaxSecond, corpus : 0..Cardinality(Reindexers),
            text : SUBSET Writes, dropped : SUBSET Batches]

PastFirstRead(x) == reindexer[x].pc \in {"ensured", "listed", "dropped"}
HoldsText(x) == reindexer[x].pc \in {"listed", "dropped"}

\* The runs that have found no corpus and will add one.
Founders == {x \in Reindexers : PastFirstRead(x) /\ reindexer[x].corpus = 0}

\* The documents are numbered as they come, one for each founder at most.
FaqNumbered ==
  /\ IsFiniteSet(DOMAIN corpora)
  /\ DOMAIN corpora = 1..Cardinality(DOMAIN corpora)
  /\ Cardinality(DOMAIN corpora) + Cardinality(Founders) <= Cardinality(Reindexers)
  /\ \A x \in Reindexers : PastFirstRead(x) /\ reindexer[x].corpus # 0 =>
       reindexer[x].corpus \in DOMAIN corpora

\* What a run holds, and what a corpus holds, is committed.
FaqCommitted ==
  /\ \A x \in Reindexers : reindexer[x].pc # "idle" => reindexer[x].job \in Seconds
  /\ \A x \in Reindexers : reindexer[x].text \subseteq Entries
  /\ \A n \in DOMAIN corpora : \A b \in corpora[n] : b.text \subseteq Entries

\* Until two runs overlap there is one document with the chunks of one run, and a run that
\* has dropped chunks has dropped them all.
FaqAlone ==
  /\ \A x, y \in Reindexers : PastFirstRead(x) /\ PastFirstRead(y) => x = y
  /\ \A x \in Reindexers : PastFirstRead(x) /\ reindexer[x].corpus = 0 => DOMAIN corpora = {}
  /\ \A m, n \in DOMAIN corpora : m = n
  /\ \A n \in DOMAIN corpora : \A b, c \in corpora[n] : b = c
  /\ \A x \in Reindexers : reindexer[x].pc = "dropped" =>
       reindexer[x].dropped = IF reindexer[x].corpus = 0 THEN {} ELSE corpora[reindexer[x].corpus]

\* A write is on its way into the corpus, with the job that it queued or with every run that
\* will take the place of what is there.
OnItsWay(k) ==
  \/ write[k].job \in queue
  \/ \E x \in Reindexers :
       /\ reindexer[x].pc # "idle" /\ reindexer[x].job = write[k].job
       /\ HoldsText(x) => k \in reindexer[x].text
  \/ /\ k \in Entries
     /\ \E n \in DOMAIN corpora : \E b \in corpora[n] : k \in b.text
     /\ \A x \in Reindexers : HoldsText(x) => k \in reindexer[x].text

FaqKept == \A k \in Writes \ missed : write[k].state # "todo" => OnItsWay(k)

FaqInv ==
  FaqTypeOK /\ FaqNumbered /\ FaqCommitted /\ (overlapped \/ FaqAlone) /\ (overlapped \/ FaqKept)

LEMMA FaqCounts ==
  /\ Cardinality(Reindexers) \in Nat
  /\ \A S \in SUBSET Reindexers :
       IsFiniteSet(S) /\ Cardinality(S) \in Nat /\ Cardinality(S) <= Cardinality(Reindexers)
  BY FaqAssumption, FS_CardinalityType, FS_Subset

LEMMA FaqInvInit == FaqInit => FaqInv
  <1> SUFFICES ASSUME FaqInit PROVE FaqInv
    OBVIOUS
  <1> USE FaqAssumption DEF FaqInit
  <1>1. DOMAIN corpora = {} /\ IsFiniteSet({}) /\ Cardinality({}) = 0
    BY FS_EmptySet
  <1>2. Founders = {}
    BY DEF Founders, PastFirstRead, AtRest
  <1>3. reindexer \in [Reindexers -> FaqRuns]
    BY FaqCounts DEF FaqRuns, AtRest
  <1>4. FaqTypeOK
    <2>1. write \in [Writes -> [state : {"todo", "flushed", "committed"}, job : 0..MaxSecond]]
      OBVIOUS
    <2>2. second \in Seconds
      BY DEF Seconds
    <2>3. \A n \in DOMAIN corpora : corpora[n] \subseteq Batches
      BY <1>1
    <2>4. queue \subseteq Seconds /\ used \subseteq Seconds /\ missed \subseteq Writes
      OBVIOUS
    <2>6. overlapped \in BOOLEAN
      OBVIOUS
    <2>7. faqBreaks \in 0..MaxFaqBreaks
      OBVIOUS
    <2>5. reindexer \in [Reindexers -> [pc : {"idle", "started", "ensured", "listed", "dropped"},
                                      job : 0..MaxSecond, corpus : 0..Cardinality(Reindexers),
                                      text : SUBSET Writes, dropped : SUBSET Batches]]
      BY <1>3 DEF FaqRuns
    <2> QED BY <2>1, <2>2, <2>3, <2>4, <2>5, <2>6, <2>7 DEF FaqTypeOK
  <1>5. FaqNumbered
    BY <1>1, <1>2, FaqCounts DEF FaqNumbered, PastFirstRead, AtRest
  <1>6. FaqCommitted /\ FaqAlone /\ FaqKept
    BY <1>1 DEF FaqCommitted, FaqAlone, FaqKept, PastFirstRead, AtRest
  <1> QED BY <1>4, <1>5, <1>6 DEF FaqInv

\* What a step that leaves the corpora and the runs' place alone keeps.
LEMMA FaqStands ==
  ASSUME FaqInv, UNCHANGED <<corpora, reindexer>>
  PROVE  FaqNumbered' /\ (FaqAlone => FaqAlone')
  BY DEF FaqInv, FaqNumbered, FaqAlone, Founders, PastFirstRead

LEMMA FaqInvNext == FaqInv /\ [FaqNext]_faqVars => FaqInv'
  <1> SUFFICES ASSUME FaqInv, [FaqNext]_faqVars PROVE FaqInv'
    OBVIOUS
  <1> USE FaqAssumption
  <1>1. reindexer \in [Reindexers -> FaqRuns]
    BY DEF FaqInv, FaqTypeOK, FaqRuns
  <1>2. CASE UNCHANGED faqVars
    BY <1>2 DEF faqVars, FaqInv, FaqTypeOK, FaqNumbered, FaqCommitted, FaqAlone, FaqKept, OnItsWay,
                Founders, PastFirstRead, HoldsText, Entries
  <1>3. CASE SecondPasses
    <2>1. second' \in Seconds
      BY <1>3 DEF SecondPasses, FaqInv, FaqTypeOK, Seconds
    <2>2. UNCHANGED <<write, queue, used, corpora, reindexer, missed, overlapped, faqBreaks>>
      BY <1>3 DEF SecondPasses
    <2> QED BY <2>1, <2>2 DEF FaqInv, FaqTypeOK, FaqNumbered, FaqCommitted, FaqAlone, FaqKept,
                              OnItsWay, Founders, PastFirstRead, HoldsText, Entries
  <1>4. ASSUME NEW k \in Writes, WriteFaq(k) PROVE FaqInv'
    <2>1. /\ write[k].state = "todo"
          /\ write' = [write EXCEPT ![k] = [state |-> "flushed", job |-> second]]
          /\ queue' = IF second \in used THEN queue ELSE queue \cup {second}
          /\ used' = used \cup {second}
          /\ missed' = IF second \in used THEN missed \cup {k} ELSE missed
          /\ UNCHANGED <<second, corpora, reindexer, overlapped, faqBreaks>>
      BY <1>4 DEF WriteFaq
    <2>2. FaqTypeOK'
      <3>1. second \in Seconds /\ second \in 0..MaxSecond
        BY DEF FaqInv, FaqTypeOK, Seconds
      <3>2. write' \in [Writes -> [state : {"todo", "flushed", "committed"}, job : 0..MaxSecond]]
        BY <2>1, <3>1 DEF FaqInv, FaqTypeOK
      <3>3. queue' \subseteq Seconds /\ used' \subseteq Seconds /\ missed' \subseteq Writes
        BY <2>1, <3>1 DEF FaqInv, FaqTypeOK
      <3> QED BY <2>1, <3>2, <3>3 DEF FaqInv, FaqTypeOK
    <2>3. /\ write'[k] = [state |-> "flushed", job |-> second]
          /\ \A m \in Writes : m # k => write'[m] = write[m]
      BY <2>1 DEF FaqInv, FaqTypeOK
    <2>4. Entries' = Entries
      BY <2>1, <2>3 DEF Entries
    <2>5. FaqCommitted'
      BY <2>1, <2>4 DEF FaqInv, FaqCommitted
    <2>6. ASSUME FaqKept PROVE FaqKept'
      <3> SUFFICES ASSUME NEW m \in Writes \ missed', write'[m].state # "todo" PROVE OnItsWay(m)'
        BY DEF FaqKept
      <3>1. CASE m = k
        <4>1. second \notin used
          BY <2>1, <3>1
        <4> QED BY <2>1, <2>3, <3>1, <4>1 DEF OnItsWay
      <3>2. CASE m # k
        <4>1. OnItsWay(m) /\ write'[m] = write[m]
          BY <2>1, <2>3, <2>6, <3>2 DEF FaqKept
        <4> QED BY <2>1, <2>4, <4>1 DEF OnItsWay, HoldsText
      <3> QED BY <3>1, <3>2
    <2> QED BY <2>1, <2>2, <2>5, <2>6, FaqStands DEF FaqInv
  <1>5. ASSUME NEW k \in Writes, CommitFaq(k) PROVE FaqInv'
    <2>1. /\ write[k].state = "flushed"
          /\ write' = [write EXCEPT ![k].state = "committed"]
          /\ UNCHANGED <<second, queue, used, corpora, reindexer, missed, overlapped, faqBreaks>>
      BY <1>5 DEF CommitFaq
    <2>2. /\ write' \in [Writes -> [state : {"todo", "flushed", "committed"}, job : 0..MaxSecond]]
          /\ \A m \in Writes : write'[m].job = write[m].job
          /\ \A m \in Writes : m # k => write'[m] = write[m]
          /\ write'[k].state = "committed"
      BY <2>1 DEF FaqInv, FaqTypeOK
    <2>3. Entries \subseteq Entries'
      BY <2>2 DEF Entries
    <2>4. FaqTypeOK' /\ FaqCommitted'
      BY <2>1, <2>2, <2>3 DEF FaqInv, FaqTypeOK, FaqCommitted
    <2>5. ASSUME FaqKept PROVE FaqKept'
      <3> SUFFICES ASSUME NEW m \in Writes \ missed', write'[m].state # "todo" PROVE OnItsWay(m)'
        BY DEF FaqKept
      <3>1. OnItsWay(m)
        BY <2>1, <2>2, <2>5 DEF FaqKept
      <3> QED BY <2>1, <2>2, <2>3, <3>1 DEF OnItsWay, HoldsText
    <2> QED BY <2>1, <2>4, <2>5, FaqStands DEF FaqInv
  <1>6. ASSUME NEW x \in Reindexers, StartReindex(x) PROVE FaqInv'
    <2>1. PICK j \in queue :
            /\ reindexer[x].pc = "idle" /\ queue' = queue \ {j}
            /\ reindexer' = [reindexer EXCEPT ![x] = [AtRest EXCEPT !.pc = "started", !.job = j]]
            /\ UNCHANGED <<second, write, used, corpora, missed, overlapped, faqBreaks>>
      BY <1>6 DEF StartReindex
    <2> DEFINE r == [AtRest EXCEPT !.pc = "started", !.job = j]
    <2>2. j \in Seconds /\ j \in 0..MaxSecond
      BY DEF FaqInv, FaqTypeOK, Seconds
    <2>3. r \in FaqRuns /\ r.pc = "started" /\ r.job = j /\ r.text = {}
      <3>1. AtRest \in FaqRuns /\ AtRest.text = {}
        BY FaqCounts DEF AtRest, FaqRuns
      <3> QED BY <2>2, <3>1 DEF FaqRuns
    <2>4. /\ reindexer' \in [Reindexers -> FaqRuns]
          /\ reindexer'[x] = r
          /\ \A y \in Reindexers : y # x => reindexer'[y] = reindexer[y]
      BY <1>1, <2>1, <2>3
    <2> HIDE DEF r
    <2>5. \A y \in Reindexers : /\ PastFirstRead(y)' <=> PastFirstRead(y)
                                /\ HoldsText(y)' <=> HoldsText(y)
                                /\ y # x \/ (~PastFirstRead(y) /\ ~HoldsText(y))
      BY <2>1, <2>3, <2>4 DEF PastFirstRead, HoldsText
    <2>6. FaqTypeOK'
      BY <2>1, <2>4 DEF FaqInv, FaqTypeOK, FaqRuns
    <2>7. FaqNumbered'
      <3>1. Founders' = Founders
        BY <2>4, <2>5 DEF Founders
      <3> QED BY <2>1, <2>4, <2>5, <3>1 DEF FaqInv, FaqNumbered
    <2>8. FaqCommitted'
      BY <2>1, <2>2, <2>3, <2>4 DEF FaqInv, FaqCommitted, Entries
    <2>9. ASSUME FaqAlone PROVE FaqAlone'
      BY <2>1, <2>3, <2>4, <2>5, <2>9 DEF FaqAlone
    <2>10. ASSUME FaqKept PROVE FaqKept'
      <3> SUFFICES ASSUME NEW m \in Writes \ missed', write'[m].state # "todo" PROVE OnItsWay(m)'
        BY DEF FaqKept
      <3>1. OnItsWay(m) /\ UNCHANGED write /\ Entries' = Entries
        BY <2>1, <2>10 DEF FaqKept, Entries
      <3>2. CASE write[m].job = j
        BY <2>1, <2>3, <2>4, <2>5, <3>1, <3>2 DEF OnItsWay
      <3>3. CASE write[m].job \in queue /\ write[m].job # j
        BY <2>1, <3>1, <3>3 DEF OnItsWay
      <3>4. ASSUME NEW y \in Reindexers,
                   reindexer[y].pc # "idle", reindexer[y].job = write[m].job,
                   HoldsText(y) => m \in reindexer[y].text
            PROVE  OnItsWay(m)'
        BY <2>1, <2>4, <2>5, <3>1, <3>4 DEF OnItsWay
      <3>5. CASE /\ m \in Entries
                 /\ \E n \in DOMAIN corpora : \E b \in corpora[n] : m \in b.text
                 /\ \A y \in Reindexers : HoldsText(y) => m \in reindexer[y].text
        BY <2>1, <2>4, <2>5, <3>1, <3>5 DEF OnItsWay
      <3> QED BY <3>1, <3>2, <3>3, <3>4, <3>5 DEF OnItsWay
    <2> QED BY <2>1, <2>6, <2>7, <2>8, <2>9, <2>10 DEF FaqInv

  <1>7. ASSUME NEW x \in Reindexers, EnsureCorpusDoc(x) PROVE FaqInv'
    <2>1. PICK n \in IF DOMAIN corpora = {} THEN {0} ELSE DOMAIN corpora :
            reindexer' = [reindexer EXCEPT ![x].pc = "ensured", ![x].corpus = n]
      BY <1>7 DEF EnsureCorpusDoc
    <2>2. /\ reindexer[x].pc = "started"
          /\ UNCHANGED <<second, write, queue, used, corpora, missed, faqBreaks>>
          /\ overlapped' \in BOOLEAN /\ (overlapped => overlapped')
      BY <1>7 DEF EnsureCorpusDoc, FaqInv, FaqTypeOK
    <2>3. n \in 0..Cardinality(Reindexers)
      <3>1. CASE DOMAIN corpora = {}
        BY <2>1, <3>1, FaqCounts
      <3>2. CASE DOMAIN corpora # {}
        <4>1. Founders \subseteq Reindexers
          BY DEF Founders
        <4>2. Cardinality(DOMAIN corpora) \in Nat /\ Cardinality(Founders) \in Nat
          BY <4>1, FaqCounts, FS_CardinalityType DEF FaqInv, FaqNumbered
        <4>3. n \in 1..Cardinality(DOMAIN corpora)
          BY <2>1, <3>2 DEF FaqInv, FaqNumbered
        <4> QED BY <4>2, <4>3, FaqCounts DEF FaqInv, FaqNumbered
      <3> QED BY <3>1, <3>2
    <2>4. /\ reindexer' \in [Reindexers -> FaqRuns]
          /\ reindexer'[x].pc = "ensured" /\ reindexer'[x].corpus = n
          /\ reindexer'[x].job = reindexer[x].job /\ reindexer'[x].text = reindexer[x].text
          /\ \A y \in Reindexers : y # x => reindexer'[y] = reindexer[y]
      <3> DEFINE r == [reindexer[x] EXCEPT !.pc = "ensured", !.corpus = n]
      <3>1. reindexer' = [reindexer EXCEPT ![x] = r]
        BY <1>1, <2>1 DEF FaqRuns
      <3>2. r \in FaqRuns /\ r.pc = "ensured" /\ r.corpus = n
            /\ r.job = reindexer[x].job /\ r.text = reindexer[x].text
        BY <1>1, <2>3 DEF FaqRuns
      <3> HIDE DEF r
      <3> QED BY <1>1, <3>1, <3>2
    <2>5. /\ ~PastFirstRead(x) /\ ~HoldsText(x)
          /\ PastFirstRead(x)' /\ ~HoldsText(x)'
          /\ \A y \in Reindexers : y # x =>
               (PastFirstRead(y)' <=> PastFirstRead(y)) /\ (HoldsText(y)' <=> HoldsText(y))
      BY <2>2, <2>4 DEF PastFirstRead, HoldsText
    <2>6. FaqTypeOK'
      BY <2>2, <2>4 DEF FaqInv, FaqTypeOK, FaqRuns
    <2>7. FaqNumbered'
      <3>1. CASE DOMAIN corpora = {}
        <4>1. Founders' \subseteq Reindexers
          BY DEF Founders
        <4>2. Cardinality({}) = 0 /\ Cardinality(Founders') <= Cardinality(Reindexers)
              /\ Cardinality(Founders') \in Nat
          BY <4>1, FaqCounts, FS_EmptySet
        <4>3. DOMAIN corpora = {} /\ n = 0
          BY <2>1, <3>1
        <4> QED BY <2>2, <2>4, <2>5, <4>2, <4>3, FaqCounts DEF FaqInv, FaqNumbered
      <3>2. CASE DOMAIN corpora # {}
        <4>1. n \in DOMAIN corpora /\ n # 0
          BY <2>1, <3>2, FS_CardinalityType DEF FaqInv, FaqNumbered
        <4>2. Founders' = Founders
          BY <2>4, <2>5, <4>1 DEF Founders
        <4> QED BY <2>2, <2>4, <2>5, <4>1, <4>2 DEF FaqInv, FaqNumbered
      <3> QED BY <3>1, <3>2
    <2>8. FaqCommitted'
      BY <2>2, <2>4 DEF FaqInv, FaqCommitted, Entries
    <2>9. ASSUME ~overlapped' PROVE FaqAlone' /\ FaqKept'
      <3>1. ~overlapped /\ \A y \in Reindexers : y # x => ~PastFirstRead(y)
        BY <1>1, <1>7, <2>2, <2>9 DEF EnsureCorpusDoc, PastFirstRead
      <3>2. FaqAlone /\ FaqKept
        BY <3>1 DEF FaqInv
      <3>3. n = 0 => DOMAIN corpora = {}
        <4>1. n \in 1..Cardinality(DOMAIN corpora) => n # 0
          BY FS_CardinalityType DEF FaqInv, FaqNumbered
        <4> QED BY <2>1, <4>1 DEF FaqInv, FaqNumbered
      <3>4. FaqAlone'
        BY <2>2, <2>4, <2>5, <3>1, <3>2, <3>3 DEF FaqAlone, PastFirstRead
      <3>5. FaqKept'
        <4> SUFFICES ASSUME NEW m \in Writes \ missed', write'[m].state # "todo" PROVE OnItsWay(m)'
          BY DEF FaqKept
        <4>1. OnItsWay(m) /\ UNCHANGED <<write, queue, corpora>> /\ Entries' = Entries
          BY <2>2, <3>2 DEF FaqKept, Entries
        <4>2. \A y \in Reindexers : /\ reindexer[y].pc # "idle" => reindexer'[y].pc # "idle"
                                    /\ reindexer'[y].job = reindexer[y].job
                                    /\ reindexer'[y].text = reindexer[y].text
                                    /\ HoldsText(y)' <=> HoldsText(y)
          BY <2>2, <2>4, <2>5
        <4> QED BY <4>1, <4>2 DEF OnItsWay
      <3> QED BY <3>4, <3>5
    <2> QED BY <2>2, <2>6, <2>7, <2>8, <2>9 DEF FaqInv
  <1>8. ASSUME NEW x \in Reindexers, ListEntries(x) PROVE FaqInv'
    <2>1. /\ reindexer[x].pc = "ensured"
          /\ reindexer' = [reindexer EXCEPT ![x].pc = "listed", ![x].text = Entries]
          /\ missed' = missed \cup {k \in Writes \ Entries : write[k].job = reindexer[x].job}
          /\ UNCHANGED <<second, write, queue, used, corpora, overlapped, faqBreaks>>
      BY <1>8 DEF ListEntries
    <2>2. Entries' = Entries /\ Entries \subseteq Writes
      BY <2>1 DEF Entries
    <2>3. /\ reindexer' \in [Reindexers -> FaqRuns]
          /\ reindexer'[x].pc = "listed" /\ reindexer'[x].text = Entries
          /\ reindexer'[x].job = reindexer[x].job /\ reindexer'[x].corpus = reindexer[x].corpus
          /\ \A y \in Reindexers : y # x => reindexer'[y] = reindexer[y]
      <3> DEFINE r == [reindexer[x] EXCEPT !.pc = "listed", !.text = Entries]
      <3>1. reindexer' = [reindexer EXCEPT ![x] = r]
        BY <1>1, <2>1 DEF FaqRuns
      <3>2. r \in FaqRuns /\ r.pc = "listed" /\ r.text = Entries
            /\ r.job = reindexer[x].job /\ r.corpus = reindexer[x].corpus
        BY <1>1, <2>2 DEF FaqRuns
      <3> HIDE DEF r
      <3> QED BY <1>1, <3>1, <3>2
    <2>4. /\ PastFirstRead(x) /\ PastFirstRead(x)'
          /\ \A y \in Reindexers : y # x =>
               (PastFirstRead(y)' <=> PastFirstRead(y)) /\ (HoldsText(y)' <=> HoldsText(y))
      BY <2>1, <2>3 DEF PastFirstRead, HoldsText
    <2>5. FaqTypeOK'
      BY <2>1, <2>3 DEF FaqInv, FaqTypeOK, FaqRuns
    <2>6. FaqNumbered'
      <3>1. Founders' = Founders
        BY <2>3, <2>4 DEF Founders
      <3> QED BY <2>1, <2>3, <2>4, <3>1 DEF FaqInv, FaqNumbered
    <2>7. FaqCommitted'
      BY <2>1, <2>2, <2>3 DEF FaqInv, FaqCommitted
    <2>8. ASSUME FaqAlone PROVE FaqAlone'
      BY <2>1, <2>3, <2>4, <2>8 DEF FaqAlone
    <2>9. ASSUME FaqKept PROVE FaqKept'
      <3> SUFFICES ASSUME NEW m \in Writes \ missed', write'[m].state # "todo" PROVE OnItsWay(m)'
        BY DEF FaqKept
      <3>1. OnItsWay(m) /\ UNCHANGED <<write, queue, corpora>>
        BY <2>1, <2>9 DEF FaqKept
      <3>2. ASSUME NEW y \in Reindexers,
                   reindexer[y].pc # "idle", reindexer[y].job = write[m].job,
                   HoldsText(y) => m \in reindexer[y].text
            PROVE  OnItsWay(m)'
        <4>1. CASE y = x
          <5>1. m \in Entries
            BY <2>1, <3>2, <4>1
          <5>2. reindexer'[x].pc # "idle" /\ reindexer'[x].job = write'[m].job /\ m \in reindexer'[x].text
            BY <2>1, <2>3, <3>2, <4>1, <5>1
          <5> QED BY <5>2 DEF OnItsWay
        <4>2. CASE y # x
          BY <2>1, <2>3, <2>4, <3>2, <4>2 DEF OnItsWay
        <4> QED BY <4>1, <4>2
      <3>3. CASE /\ m \in Entries
                 /\ \E n \in DOMAIN corpora : \E b \in corpora[n] : m \in b.text
                 /\ \A y \in Reindexers : HoldsText(y) => m \in reindexer[y].text
        BY <2>1, <2>2, <2>3, <2>4, <3>3 DEF OnItsWay
      <3> QED BY <3>1, <3>2, <3>3 DEF OnItsWay
    <2> QED BY <2>1, <2>5, <2>6, <2>7, <2>8, <2>9 DEF FaqInv
  <1>9. ASSUME NEW x \in Reindexers, DropChunks(x) PROVE FaqInv'
    <2> DEFINE gone == IF reindexer[x].corpus = 0 THEN {} ELSE corpora[reindexer[x].corpus]
    <2>1. /\ reindexer[x].pc = "listed"
          /\ reindexer' = [reindexer EXCEPT ![x].pc = "dropped", ![x].dropped = gone]
          /\ UNCHANGED <<second, write, queue, used, corpora, missed, overlapped, faqBreaks>>
      BY <1>9 DEF DropChunks
    <2>2. PastFirstRead(x) /\ HoldsText(x)
      BY <2>1 DEF PastFirstRead, HoldsText
    <2>3. gone \in SUBSET Batches
      <3>1. reindexer[x].corpus # 0 => reindexer[x].corpus \in DOMAIN corpora
        BY <2>2 DEF FaqInv, FaqNumbered
      <3> QED BY <3>1 DEF FaqInv, FaqTypeOK
    <2>4. /\ reindexer' \in [Reindexers -> FaqRuns]
          /\ reindexer'[x].pc = "dropped" /\ reindexer'[x].dropped = gone
          /\ reindexer'[x].job = reindexer[x].job /\ reindexer'[x].corpus = reindexer[x].corpus
          /\ reindexer'[x].text = reindexer[x].text
          /\ \A y \in Reindexers : y # x => reindexer'[y] = reindexer[y]
      <3> HIDE DEF gone
      <3> DEFINE r == [reindexer[x] EXCEPT !.pc = "dropped", !.dropped = gone]
      <3>1. reindexer' = [reindexer EXCEPT ![x] = r]
        BY <1>1, <2>1 DEF FaqRuns
      <3>2. r \in FaqRuns /\ r.pc = "dropped" /\ r.dropped = gone /\ r.text = reindexer[x].text
            /\ r.job = reindexer[x].job /\ r.corpus = reindexer[x].corpus
        BY <1>1, <2>3 DEF FaqRuns
      <3> HIDE DEF r
      <3> QED BY <1>1, <3>1, <3>2
    <2>5. \A y \in Reindexers : /\ PastFirstRead(y)' <=> PastFirstRead(y)
                                /\ HoldsText(y)' <=> HoldsText(y)
                                /\ reindexer'[y].text = reindexer[y].text
                                /\ reindexer'[y].job = reindexer[y].job
                                /\ reindexer'[y].corpus = reindexer[y].corpus
                                /\ reindexer'[y].pc = "idle" <=> reindexer[y].pc = "idle"
      BY <2>1, <2>4 DEF PastFirstRead, HoldsText
    <2>6. FaqTypeOK'
      BY <2>1, <2>4 DEF FaqInv, FaqTypeOK, FaqRuns
    <2>7. FaqNumbered'
      <3>1. Founders' = Founders
        BY <2>5 DEF Founders
      <3> QED BY <2>1, <2>5, <3>1 DEF FaqInv, FaqNumbered
    <2>8. FaqCommitted'
      BY <2>1, <2>5 DEF FaqInv, FaqCommitted, Entries
    <2>9. ASSUME FaqAlone PROVE FaqAlone'
      <3>1. \A y \in Reindexers : reindexer'[y].pc = "dropped" =>
              reindexer'[y].dropped = IF reindexer'[y].corpus = 0 THEN {} ELSE corpora'[reindexer'[y].corpus]
        BY <2>1, <2>4, <2>9 DEF FaqAlone
      <3> HIDE DEF gone
      <3>2. UNCHANGED corpora
        BY <2>1
      <3> QED BY <2>5, <2>9, <3>1, <3>2 DEF FaqAlone
    <2>10. ASSUME FaqKept PROVE FaqKept'
      <3>1. UNCHANGED <<write, queue, missed, corpora>> /\ Entries' = Entries
        BY <2>1 DEF Entries
      <3> HIDE DEF gone
      <3> SUFFICES ASSUME NEW m \in Writes \ missed', write'[m].state # "todo" PROVE OnItsWay(m)'
        BY DEF FaqKept
      <3>2. OnItsWay(m)
        BY <2>10, <3>1 DEF FaqKept
      <3> QED BY <2>5, <3>1, <3>2 DEF OnItsWay
    <2> QED BY <2>1, <2>6, <2>7, <2>8, <2>9, <2>10 DEF FaqInv

  <1>10. ASSUME NEW x \in Reindexers, AddChunks(x) PROVE FaqInv'
    <2> DEFINE r == reindexer[x]
               n == IF r.corpus = 0 THEN Cardinality(DOMAIN corpora) + 1 ELSE r.corpus
               kept == IF r.corpus = 0 THEN {} ELSE corpora[n] \ r.dropped
               added == IF r.text = {} THEN {} ELSE {[text |-> r.text, run |-> r.job]}
    <2>1. /\ r.pc = "dropped"
          /\ corpora' = [m \in DOMAIN corpora \cup {n} |-> IF m = n THEN kept \cup added ELSE corpora[m]]
          /\ reindexer' = [reindexer EXCEPT ![x] = AtRest]
          /\ UNCHANGED <<second, write, queue, used, missed, overlapped, faqBreaks>>
      BY <1>10 DEF AddChunks
    <2>2. /\ PastFirstRead(x) /\ HoldsText(x)
          /\ r.job \in Seconds /\ r.text \subseteq Entries /\ r.text \subseteq Writes
      BY <1>1, <2>1 DEF PastFirstRead, HoldsText, FaqInv, FaqCommitted, FaqRuns
    <2>3. /\ reindexer' \in [Reindexers -> FaqRuns]
          /\ reindexer'[x] = AtRest
          /\ \A y \in Reindexers : y # x => reindexer'[y] = reindexer[y]
      <3>1. AtRest \in FaqRuns
        BY FaqCounts DEF AtRest, FaqRuns
      <3> QED BY <1>1, <2>1, <3>1
    <2>4. /\ ~PastFirstRead(x)' /\ ~HoldsText(x)' /\ reindexer'[x].pc = "idle" /\ reindexer'[x].text = {}
          /\ \A y \in Reindexers : y # x =>
               (PastFirstRead(y)' <=> PastFirstRead(y)) /\ (HoldsText(y)' <=> HoldsText(y))
      BY <2>3 DEF PastFirstRead, HoldsText, AtRest
    <2>5. r.corpus # 0 => r.corpus \in DOMAIN corpora
      BY <2>2 DEF FaqInv, FaqNumbered
    <2>6. /\ \A b \in kept : r.corpus # 0 /\ b \in corpora[r.corpus]
          /\ \A b \in added : b = [text |-> r.text, run |-> r.job]
          /\ r.text # {} => [text |-> r.text, run |-> r.job] \in added
      OBVIOUS
    <2>7. kept \subseteq Batches /\ added \subseteq Batches
      <3>1. [text |-> r.text, run |-> r.job] \in Batches
        BY <2>2 DEF Batches
      <3> QED BY <2>5, <2>6, <3>1 DEF FaqInv, FaqTypeOK
    <2>8. /\ DOMAIN corpora' = DOMAIN corpora \cup {n}
          /\ corpora'[n] = kept \cup added
          /\ \A m \in DOMAIN corpora : m # n => corpora'[m] = corpora[m]
      <3> HIDE DEF n, kept, added
      <3> QED BY <2>1
    <2>9. FaqTypeOK'
      <3> HIDE DEF n, kept, added
      <3>1. \A m \in DOMAIN corpora' : corpora'[m] \subseteq Batches
        BY <2>7, <2>8 DEF FaqInv, FaqTypeOK
      <3> QED BY <2>1, <2>3, <3>1 DEF FaqInv, FaqTypeOK, FaqRuns
    <2>10. FaqNumbered'
      <3> HIDE DEF kept, added
      <3>1. /\ Founders \subseteq Reindexers
            /\ IsFiniteSet(Founders) /\ Cardinality(Founders) \in Nat
            /\ Cardinality(DOMAIN corpora) \in Nat
        BY FaqCounts, FS_CardinalityType DEF Founders, FaqInv, FaqNumbered
      <3>2. CASE r.corpus = 0
        <4>1. Founders' = Founders \ {x} /\ x \in Founders
          BY <2>2, <2>3, <2>4, <3>2 DEF Founders
        <4>2. Cardinality(Founders') = Cardinality(Founders) - 1
          BY <3>1, <4>1, FS_RemoveElement
        <4> DEFINE c == Cardinality(DOMAIN corpora)
        <4>3. DOMAIN corpora' = 1..(c + 1)
          <5>1. DOMAIN corpora = 1..c /\ n = c + 1 /\ c \in Nat
            BY <3>1, <3>2 DEF FaqInv, FaqNumbered
          <5> HIDE DEF c, n
          <5> QED BY <2>8, <5>1
        <4>4. IsFiniteSet(1..(c + 1)) /\ Cardinality(1..(c + 1)) = c + 1
          <5>1. 1 \in Int /\ c + 1 \in Int /\ c \in Nat
            BY <3>1
          <5> HIDE DEF c
          <5>2. IsFiniteSet(1..(c + 1)) /\ Cardinality(1..(c + 1)) = IF 1 > c + 1 THEN 0 ELSE (c + 1) - 1 + 1
            BY <5>1, FS_Interval, Zenon
          <5> QED BY <5>1, <5>2
        <4>5. c + Cardinality(Founders) <= Cardinality(Reindexers)
          BY DEF FaqInv, FaqNumbered
        <4>6. \A y \in Reindexers : PastFirstRead(y)' /\ reindexer'[y].corpus # 0 =>
                reindexer'[y].corpus \in DOMAIN corpora'
          BY <2>3, <2>4, <2>8 DEF FaqInv, FaqNumbered
        <4>7. c \in Nat
          BY <3>1
        <4> HIDE DEF c
        <4> QED BY <3>1, <4>2, <4>3, <4>4, <4>5, <4>6, <4>7, FaqCounts DEF FaqNumbered
      <3>3. CASE r.corpus # 0
        <4>1. DOMAIN corpora' = DOMAIN corpora
          BY <2>5, <2>8, <3>3
        <4>2. Founders' = Founders
          BY <2>3, <2>4, <3>3 DEF Founders
        <4> QED BY <2>3, <2>4, <4>1, <4>2 DEF FaqInv, FaqNumbered
      <3> QED BY <3>2, <3>3
    <2>11. FaqCommitted'
      <3>1. Entries' = Entries
        BY <2>1 DEF Entries
      <3>2. \A m \in DOMAIN corpora' : \A b \in corpora'[m] : b.text \subseteq Entries
        <4>1. \A b \in kept \cup added : b.text \subseteq Entries
          BY <2>2, <2>5, <2>6 DEF FaqInv, FaqCommitted
        <4> HIDE DEF n, kept, added
        <4> QED BY <2>8, <4>1 DEF FaqInv, FaqCommitted
      <3> QED BY <2>3, <2>4, <3>1, <3>2 DEF FaqInv, FaqCommitted
    <2>12. ASSUME FaqAlone PROVE FaqAlone'
      <3>1. \A y \in Reindexers : ~PastFirstRead(y)'
        BY <2>2, <2>4, <2>12 DEF FaqAlone
      <3>2. kept = {}
        <4>1. CASE r.corpus = 0
          BY <4>1
        <4>2. CASE r.corpus # 0
          BY <2>1, <2>12, <4>2 DEF FaqAlone
        <4> QED BY <4>1, <4>2
      <3>3. DOMAIN corpora' = {n}
        <4>1. CASE r.corpus = 0
          BY <2>2, <2>8, <2>12, <4>1 DEF FaqAlone
        <4>2. CASE r.corpus # 0
          BY <2>5, <2>8, <2>12, <4>2 DEF FaqAlone
        <4> QED BY <4>1, <4>2
      <3>4. \A b, c \in corpora'[n] : b = c
        <4> HIDE DEF kept, n
        <4> QED BY <2>6, <2>8, <3>2
      <3> HIDE DEF n, kept, added
      <3>5. \A y \in Reindexers : reindexer'[y].pc # "dropped"
        BY <3>1 DEF PastFirstRead
      <3> QED BY <3>1, <3>3, <3>4, <3>5 DEF FaqAlone
    <2>13. ASSUME FaqAlone, FaqKept PROVE FaqKept'
      <3> SUFFICES ASSUME NEW m \in Writes \ missed', write'[m].state # "todo" PROVE OnItsWay(m)'
        BY DEF FaqKept
      <3>1. OnItsWay(m) /\ UNCHANGED <<write, queue>> /\ Entries' = Entries
        BY <2>1, <2>13 DEF FaqKept, Entries
      <3>2. \A y \in Reindexers : ~HoldsText(y)'
        BY <2>2, <2>4, <2>13 DEF FaqAlone, PastFirstRead, HoldsText
      <3>3. ASSUME m \in r.text PROVE OnItsWay(m)'
        <4>1. [text |-> r.text, run |-> r.job] \in corpora'[n] /\ n \in DOMAIN corpora'
          <5> HIDE DEF kept, n
          <5> QED BY <2>6, <2>8, <3>3
        <4>2. \E c \in DOMAIN corpora' : \E b \in corpora'[c] : m \in b.text
          <5> HIDE DEF n
          <5> QED BY <3>3, <4>1
        <4>3. m \in Entries'
          BY <2>2, <3>1, <3>3
        <4> QED BY <3>2, <4>2, <4>3 DEF OnItsWay
      <3>4. ASSUME NEW y \in Reindexers, y # x,
                   reindexer[y].pc # "idle", reindexer[y].job = write[m].job
            PROVE  OnItsWay(m)'
        BY <2>3, <3>1, <3>2, <3>4 DEF OnItsWay
      <3> HIDE DEF n, kept, added
      <3> QED BY <2>2, <3>1, <3>3, <3>4 DEF OnItsWay
    <2> HIDE DEF n, kept, added
    <2> QED BY <2>1, <2>9, <2>10, <2>11, <2>12, <2>13 DEF FaqInv
  <1>11. ASSUME NEW x \in Reindexers, ReindexFails(x) \/ ReindexCut(x) PROVE FaqInv'
    <2>1. /\ reindexer' = [reindexer EXCEPT ![x] = AtRest]
          /\ UNCHANGED <<second, write, used, corpora, overlapped>>
          /\ faqBreaks < MaxFaqBreaks /\ faqBreaks' = faqBreaks + 1
      BY <1>11 DEF ReindexFails, ReindexCut
    <2>2. /\ reindexer' \in [Reindexers -> FaqRuns]
          /\ reindexer'[x] = AtRest
          /\ \A y \in Reindexers : y # x => reindexer'[y] = reindexer[y]
      <3>1. AtRest \in FaqRuns
        BY FaqCounts DEF AtRest, FaqRuns
      <3> QED BY <1>1, <2>1, <3>1
    <2>3. /\ ~PastFirstRead(x)' /\ ~HoldsText(x)' /\ reindexer'[x].pc = "idle" /\ reindexer'[x].text = {}
          /\ \A y \in Reindexers : y # x =>
               (PastFirstRead(y)' <=> PastFirstRead(y)) /\ (HoldsText(y)' <=> HoldsText(y))
      BY <2>2 DEF PastFirstRead, HoldsText, AtRest
    <2>4. reindexer[x].pc # "idle" /\ reindexer[x].job \in Seconds
      BY <1>11 DEF ReindexFails, ReindexCut, FaqInv, FaqCommitted
    <2>5. /\ queue \subseteq queue' /\ queue' \subseteq Seconds
          /\ missed \subseteq missed' /\ missed' \subseteq Writes
          /\ \A m \in Writes \ missed' : write[m].job = reindexer[x].job => write[m].job \in queue'
      <3>1. CASE ReindexFails(x)
        BY <3>1 DEF ReindexFails, FaqInv, FaqTypeOK
      <3>2. CASE ReindexCut(x)
        BY <2>4, <3>2 DEF ReindexCut, FaqInv, FaqTypeOK
      <3> QED BY <1>11, <3>1, <3>2
    <2>6. FaqTypeOK'
      <3>1. faqBreaks' \in 0..MaxFaqBreaks
        BY <2>1 DEF FaqInv, FaqTypeOK
      <3> QED BY <2>1, <2>2, <2>5, <3>1 DEF FaqInv, FaqTypeOK, FaqRuns
    <2>7. FaqNumbered'
      <3>1. Founders' \subseteq Founders /\ Founders \subseteq Reindexers
        BY <2>2, <2>3 DEF Founders
      <3>2. Cardinality(Founders') <= Cardinality(Founders)
            /\ Cardinality(Founders') \in Nat /\ Cardinality(Founders) \in Nat
        BY <3>1, FaqCounts, FS_Subset
      <3>3. Cardinality(DOMAIN corpora) \in Nat
        BY FS_CardinalityType DEF FaqInv, FaqNumbered
      <3> QED BY <2>1, <2>2, <2>3, <3>2, <3>3, FaqCounts DEF FaqInv, FaqNumbered
    <2>8. FaqCommitted'
      BY <2>1, <2>2, <2>3 DEF FaqInv, FaqCommitted, Entries
    <2>9. ASSUME FaqAlone PROVE FaqAlone'
      BY <2>1, <2>2, <2>3, <2>9 DEF FaqAlone
    <2>10. ASSUME FaqKept PROVE FaqKept'
      <3> SUFFICES ASSUME NEW m \in Writes \ missed', write'[m].state # "todo" PROVE OnItsWay(m)'
        BY DEF FaqKept
      <3>1. OnItsWay(m) /\ UNCHANGED <<write, corpora>> /\ Entries' = Entries
        BY <2>1, <2>5, <2>10 DEF FaqKept, Entries
      <3>2. CASE write[m].job \in queue
        BY <2>5, <3>1, <3>2 DEF OnItsWay
      <3>3. ASSUME NEW y \in Reindexers,
                   reindexer[y].pc # "idle", reindexer[y].job = write[m].job,
                   HoldsText(y) => m \in reindexer[y].text
            PROVE  OnItsWay(m)'
        <4>1. CASE y = x
          BY <2>5, <3>1, <3>3, <4>1 DEF OnItsWay
        <4>2. CASE y # x
          BY <2>2, <2>3, <3>1, <3>3, <4>2 DEF OnItsWay
        <4> QED BY <4>1, <4>2
      <3>4. CASE /\ m \in Entries
                 /\ \E c \in DOMAIN corpora : \E b \in corpora[c] : m \in b.text
                 /\ \A y \in Reindexers : HoldsText(y) => m \in reindexer[y].text
        BY <2>2, <2>3, <3>1, <3>4 DEF OnItsWay
      <3> QED BY <3>1, <3>2, <3>3, <3>4 DEF OnItsWay
    <2> QED BY <2>1, <2>6, <2>7, <2>8, <2>9, <2>10 DEF FaqInv
  <1> QED BY <1>2, <1>3, <1>4, <1>5, <1>6, <1>7, <1>8, <1>9, <1>10, <1>11 DEF FaqNext

LEMMA FaqInvSafe == FaqInv => FaqSafe
  <1> SUFFICES ASSUME FaqInv PROVE FaqSafe
    OBVIOUS
  <1>1. \A b : b \in InCorpus <=> \E n \in DOMAIN corpora : b \in corpora[n]
    BY DEF InCorpus
  <1>2. ASSUME NEW S, \A b, c \in S : b = c PROVE Cardinality(S) <= 1
    <2>1. CASE S = {}
      BY <2>1, FS_EmptySet
    <2>2. CASE S # {}
      <3>1. PICK b \in S : TRUE
        BY <2>2
      <3>2. S = {b}
        BY <1>2, <3>1
      <3> QED BY <3>2, FS_Singleton
    <2> QED BY <2>1, <2>2
  <1>3. OneCorpus
    <2>1. ASSUME FaqAlone
          PROVE  Cardinality(DOMAIN corpora) <= 1 /\ Cardinality(InCorpus) <= 1
      <3>1. \A m, n \in DOMAIN corpora : m = n
        BY <2>1 DEF FaqAlone
      <3>2. \A b, c \in InCorpus : b = c
        BY <1>1, <2>1 DEF FaqAlone
      <3> QED BY <1>2, <3>1, <3>2
    <2>2. Cardinality(DOMAIN corpora) \in Nat
      BY FS_CardinalityType DEF FaqInv, FaqNumbered
    <2>3. FaqAlone => IsFiniteSet(InCorpus)
      <3> SUFFICES ASSUME FaqAlone PROVE IsFiniteSet(InCorpus)
        OBVIOUS
      <3>1. \A b, c \in InCorpus : b = c
        BY <1>1 DEF FaqAlone
      <3>2. InCorpus = {} \/ \E b : InCorpus = {b}
        BY <3>1
      <3> QED BY <3>2, FS_EmptySet, FS_Singleton
    <2>4. FaqAlone => Cardinality(InCorpus) \in Nat
      BY <2>3, FS_CardinalityType
    <2> QED BY <2>1, <2>2, <2>4 DEF OneCorpus, FaqInv
  <1>4. MissingWasMissed
    <2> SUFFICES ASSUME queue = {}, \A x \in Reindexers : reindexer[x].pc = "idle",
                        NEW k \in Entries, ~overlapped, k \notin missed
                 PROVE  \E b \in InCorpus : k \in b.text
      BY DEF MissingWasMissed
    <2>1. k \in Writes /\ write[k].state # "todo"
      BY DEF Entries
    <2>2. OnItsWay(k)
      BY <2>1 DEF FaqInv, FaqKept
    <2> QED BY <1>1, <2>2 DEF OnItsWay
  <1> QED BY <1>3, <1>4 DEF FaqInv, FaqSafe

\* The corpus has every question once, whatever writes and runs there are: two documents, or
\* the chunks of two runs, mean that two runs overlapped, and at rest an entry is missing only
\* for one of the reasons that MissingWasMissed names (catalog.py, catalog_reindex.py).
THEOREM FaqCorrect == FaqSpec => []FaqSafe
<1>1. FaqInv => FaqSafe
  BY FaqInvSafe
<1> QED BY <1>1, FaqInvInit, FaqInvNext, PTL DEF FaqSpec

-----------------------------------------------------------------------------
(* The chunker: what is cut, whatever the text and wherever it is cut. *)

Covers(w, i) == w.from <= i /\ i < w.to

\* A stretch of the text that is not empty.
Proper(w) == w \in Stretches /\ w.from < w.to

\* The paragraphs are read from one break to the next.
AtParagraph ==
  /\ text \in Texts
  /\ text_at \in 1..Len(text) + 2
  /\ text_at \in 2..Len(text) => text[text_at - 1] = "par"

\* The window that is filled ends where the last paragraph did.
OneWindow ==
  /\ buffer \in Seq(Stretches) /\ Len(buffer) <= 1
  /\ buffer # <<>> => Proper(buffer[1]) /\ buffer[1].to = text_at - 1

ProperWindows ==
  /\ windows \in Seq(Stretches)
  /\ \A k \in 1..Len(windows) : Proper(windows[k])

ProperPieces ==
  /\ pieces \in Seq(Stretches)
  /\ \A k \in 1..Len(pieces) : Proper(pieces[k]) /\ Size(pieces[k]) <= Target

\* A window that is being split is not over, and what was cut last reaches to what is next.
Splitting ==
  /\ start \in Nat
  /\ start # 0 =>
       /\ Done /\ windows # <<>> /\ pieces # <<>>
       /\ windows[1].from < start /\ start < windows[1].to
       /\ pieces[Len(pieces)].from < start /\ start <= pieces[Len(pieces)].to

ChunkerInv == AtParagraph /\ OneWindow /\ ProperWindows /\ ProperPieces /\ Splitting /\ NothingLost

LEMMA FirstOfSet ==
  ASSUME NEW S \in SUBSET Nat, S # {}
  PROVE  FirstOf(S) \in S /\ \A j \in S : FirstOf(S) <= j
  <1>1. PICK i \in S : \A j \in S : <<j, i>> \notin OpToRel(<, Nat)
    BY NatLessThanWellFounded, WFMin
  <1>2. \A j \in S : ~(j < i)
    BY <1>1 DEF OpToRel
  <1>3. \A j \in S : i <= j
    BY <1>2
  <1> QED BY <1>3 DEF FirstOf

LEMMA LastOfSet ==
  ASSUME NEW S \in SUBSET Nat, S # {}, NEW n \in Nat, \A i \in S : i <= n
  PROVE  LastOf(S) \in S
  <1>1. S \in SUBSET (0..n)
    OBVIOUS
  <1>2. \E i \in S : \A j \in S : j <= i
    BY <1>1, LastNumber
  <1> QED BY <1>2 DEF LastOf

LEMMA InAppend ==
  ASSUME NEW S \in Seq(Stretches), NEW w \in Stretches, NEW i \in Nat
  PROVE  In(i, Append(S, w)) <=> In(i, S) \/ Covers(w, i)
  <1>1. /\ Len(Append(S, w)) = Len(S) + 1 /\ Append(S, w)[Len(S) + 1] = w
        /\ \A k \in 1..Len(S) : Append(S, w)[k] = S[k]
        /\ DOMAIN Append(S, w) = 1..Len(S) + 1 /\ DOMAIN S = 1..Len(S) /\ Len(S) \in Nat
    OBVIOUS
  <1> QED BY <1>1 DEF In, Covers

LEMMA InHeadTail ==
  ASSUME NEW S \in Seq(Stretches), S # <<>>, NEW i \in Nat
  PROVE  In(i, S) <=> Covers(Head(S), i) \/ In(i, Tail(S))
  <1>1. /\ Head(S) = S[1] /\ Len(S) \in Nat \ {0} /\ DOMAIN S = 1..Len(S)
        /\ DOMAIN Tail(S) = 1..Len(S) - 1
        /\ \A k \in 1..Len(S) - 1 : Tail(S)[k] = S[k + 1]
    OBVIOUS
  <1>2. ASSUME In(i, S) PROVE Covers(Head(S), i) \/ In(i, Tail(S))
    <2>1. PICK k \in 1..Len(S) : S[k].from <= i /\ i < S[k].to
      BY <1>1, <1>2 DEF In
    <2>2. CASE k = 1
      BY <1>1, <2>1, <2>2 DEF Covers
    <2>3. CASE k # 1
      <3>1. k - 1 \in 1..Len(S) - 1 /\ Tail(S)[k - 1] = S[k]
        BY <1>1, <2>3
      <3> QED BY <1>1, <2>1, <3>1 DEF In
    <2> QED BY <2>2, <2>3
  <1>3. ASSUME In(i, Tail(S)) PROVE In(i, S)
    <2>1. PICK k \in 1..Len(S) - 1 : Tail(S)[k].from <= i /\ i < Tail(S)[k].to
      BY <1>1, <1>3 DEF In
    <2>2. k + 1 \in 1..Len(S) /\ Tail(S)[k] = S[k + 1]
      BY <1>1
    <2> QED BY <1>1, <2>1, <2>2 DEF In
  <1>4. Covers(Head(S), i) => In(i, S)
    BY <1>1 DEF Covers, In
  <1> QED BY <1>2, <1>3, <1>4

LEMMA InNone == \A i : ~In(i, <<>>)
  BY DEF In

\* A paragraph ends behind its start, at a break or with the text.
LEMMA ParagraphEnds ==
  ASSUME AtParagraph, text_at <= Len(text)
  PROVE  /\ ParagraphEnd \in Nat /\ text_at < ParagraphEnd /\ ParagraphEnd <= Len(text) + 1
         /\ ParagraphEnd <= Len(text) => text[ParagraphEnd] = "par" /\ ParagraphEnd < Len(text)
  <1> USE ChunkerAssumption
  <1> DEFINE S == {i \in text_at..Len(text) + 1 : i = Len(text) + 1 \/ text[i] = "par"}
  <1>1. text \in Seq(Marks) /\ text # <<>> /\ Len(text) \in Nat /\ text_at \in Nat \ {0}
    BY DEF AtParagraph
  <1>2. S \in SUBSET Nat /\ Len(text) + 1 \in S
    BY <1>1
  <1>3. ParagraphEnd \in S
    BY <1>2, FirstOfSet DEF ParagraphEnd
  <1>4. text[text_at] # "par"
    <2>1. CASE text_at = 1
      BY <1>1, <2>1 DEF AtParagraph
    <2>2. CASE text_at # 1
      <3>1. text_at - 1 \in 1..Len(text) - 1 /\ (text_at - 1) + 1 = text_at /\ text[text_at - 1] = "par"
        BY <1>1, <2>2 DEF AtParagraph
      <3>2. \A i \in 1..Len(text) - 1 : text[i] = "par" => text[i + 1] # "par"
        BY DEF AtParagraph
      <3> QED BY <3>1, <3>2
    <2> QED BY <2>1, <2>2
  <1>5. ParagraphEnd # text_at
    BY <1>1, <1>3, <1>4
  <1>6. text[Len(text)] # "par"
    BY DEF AtParagraph
  <1> HIDE DEF ChunkerAssumption
  <1> QED BY <1>1, <1>3, <1>5, <1>6

\* A piece ends behind its start and within the size, wherever the boundary is found.
LEMMA BoundaryWithin ==
  ASSUME NEW from \in Nat, NEW hardEnd \in Nat, from < hardEnd
  PROVE  BoundaryBefore(from, hardEnd) \in Nat
         /\ from < BoundaryBefore(from, hardEnd) /\ BoundaryBefore(from, hardEnd) <= hardEnd
  <1> DEFINE lookback == Least(Target \div 4, hardEnd - from - 1)
             window == (hardEnd - lookback)..(hardEnd - 1)
             Two(m) == {i \in window : i + 1 \in window /\ text[i] = "stop" /\ text[i + 1] = m}
             One(m) == {i \in window : text[i] = m}
  <1>1. lookback \in Nat /\ lookback <= hardEnd - from - 1
    <2>1. Target \div 4 \in Nat
      BY ChunkerAssumption
    <2> QED BY <2>1 DEF Least
  <1> HIDE DEF lookback
  <1>2. \A i \in window : i \in Nat /\ from < i /\ i + 1 <= hardEnd /\ i <= hardEnd
    BY <1>1
  <1>3. \A m : Two(m) \in SUBSET Nat /\ One(m) \in SUBSET Nat
    BY <1>2
  <1>4. \A m : Two(m) # {} => LastOf(Two(m)) \in Two(m)
    BY <1>2, <1>3, LastOfSet
  <1>5. \A m : One(m) # {} => LastOf(One(m)) \in One(m)
    BY <1>2, <1>3, LastOfSet
  <1>6. \A m : \A i \in Two(m) : i \in Nat /\ from < i /\ i + 2 <= hardEnd
    BY <1>2
  <1>7. \A m : \A i \in One(m) : i \in Nat /\ from < i /\ i + 1 <= hardEnd
    BY <1>2
  <1>8. BoundaryBefore(from, hardEnd) =
          IF Two("space") # {} THEN LastOf(Two("space")) + 2
          ELSE IF Two("par") # {} THEN LastOf(Two("par")) + 2
          ELSE IF One("par") # {} THEN LastOf(One("par")) + 1
          ELSE IF One("space") # {} THEN LastOf(One("space")) + 1
          ELSE hardEnd
    BY DEF BoundaryBefore, lookback
  <1> HIDE DEF Two, One
  <1> QED BY <1>4, <1>5, <1>6, <1>7, <1>8

\* The next piece begins behind the start of the last one and not behind its end.
LEMMA OverlapWithin ==
  ASSUME NEW from \in Nat, NEW end \in Nat, from < end
  PROVE  OverlapStart(from, end) \in Nat
         /\ from < OverlapStart(from, end) /\ OverlapStart(from, end) <= end
  <1> DEFINE back == Most(end - Least(end, Overlap), from + 1)
             spaces == {i \in back..(end - 1) : text[i] = "space"}
  <1>1. back \in Nat /\ from < back /\ back <= end
    BY ChunkerAssumption DEF Most, Least
  <1> HIDE DEF back
  <1>2. spaces \in SUBSET Nat
    BY <1>1
  <1>3. spaces # {} => FirstOf(spaces) \in Nat /\ back <= FirstOf(spaces) /\ FirstOf(spaces) + 1 <= end
    BY <1>1, <1>2, FirstOfSet
  <1>4. OverlapStart(from, end) =
          IF Overlap = 0 THEN end
          ELSE IF back < end /\ spaces # {} THEN FirstOf(spaces) + 1 ELSE back
    BY DEF OverlapStart, back
  <1> HIDE DEF spaces
  <1> QED BY <1>1, <1>3, <1>4

\* What the windows still hold of the text, when the first is split from s on.
Waits(i, S, s) ==
  S # <<>> /\ (In(i, Tail(S)) \/ (i < Head(S).to /\ i >= (IF s = 0 THEN Head(S).from ELSE s)))

LEMMA PendingIs == \A i : Pending(i) <=> i >= text_at \/ In(i, buffer) \/ Waits(i, windows, start)
  BY DEF Pending, Waits

LEMMA WaitsAppend ==
  ASSUME NEW S \in Seq(Stretches), NEW w \in Stretches, NEW i \in Nat,
         Waits(i, S, 0) \/ Covers(w, i)
  PROVE  Waits(i, Append(S, w), 0)
  <1>1. /\ Append(S, w) # <<>>
        /\ S = <<>> => Head(Append(S, w)) = w
        /\ S # <<>> => Head(Append(S, w)) = Head(S) /\ Tail(Append(S, w)) = Append(Tail(S), w)
                       /\ Tail(S) \in Seq(Stretches)
    OBVIOUS
  <1>2. CASE S = <<>>
    BY <1>1, <1>2 DEF Waits, Covers
  <1>3. CASE S # <<>>
    <2>1. In(i, Append(Tail(S), w)) <=> In(i, Tail(S)) \/ Covers(w, i)
      BY <1>1, <1>3, InAppend
    <2> QED BY <1>1, <1>3, <2>1 DEF Waits
  <1> QED BY <1>2, <1>3

LEMMA WaitsNext ==
  ASSUME NEW S \in Seq(Stretches), S # <<>>, NEW i \in Nat, In(i, Tail(S))
  PROVE  Waits(i, Tail(S), 0)
  <1>1. Tail(S) \in Seq(Stretches) /\ Tail(S) # <<>>
    <2>1. Tail(S) \in Seq(Stretches)
      OBVIOUS
    <2>2. Tail(S) # <<>>
      BY InNone, Zenon
    <2> QED BY <2>1, <2>2
  <1>2. Covers(Head(Tail(S)), i) \/ In(i, Tail(Tail(S)))
    BY <1>1, InHeadTail
  <1> QED BY <1>1, <1>2 DEF Waits, Covers

LEMMA ProperAppend ==
  ASSUME NEW S \in Seq(Stretches), \A k \in 1..Len(S) : Proper(S[k]), NEW w, Proper(w)
  PROVE  /\ Append(S, w) \in Seq(Stretches)
         /\ \A k \in 1..Len(Append(S, w)) : Proper(Append(S, w)[k])
  <1>1. w \in Stretches
    BY DEF Proper
  <1>2. /\ Append(S, w) \in Seq(Stretches)
        /\ Len(Append(S, w)) = Len(S) + 1 /\ Append(S, w)[Len(S) + 1] = w
        /\ \A k \in 1..Len(S) : Append(S, w)[k] = S[k]
        /\ Len(S) \in Nat
    BY <1>1
  <1> QED BY <1>2

LEMMA ProperTail ==
  ASSUME NEW S \in Seq(Stretches), S # <<>>, \A k \in 1..Len(S) : Proper(S[k])
  PROVE  /\ Tail(S) \in Seq(Stretches)
         /\ \A k \in 1..Len(Tail(S)) : Proper(Tail(S)[k])
         /\ Head(S) = S[1] /\ Proper(Head(S))
  <1>1. /\ Tail(S) \in Seq(Stretches) /\ Len(Tail(S)) = Len(S) - 1 /\ Len(S) \in Nat \ {0}
        /\ \A k \in 1..Len(S) - 1 : Tail(S)[k] = S[k + 1]
        /\ Head(S) = S[1]
    OBVIOUS
  <1> QED BY <1>1

LEMMA ChunkerInvInit == ChunkerInit => ChunkerInv
  <1> SUFFICES ASSUME ChunkerInit PROVE ChunkerInv
    OBVIOUS
  <1> USE ChunkerAssumption DEF ChunkerInit
  <1>1. text \in Seq(Marks) /\ Len(text) \in Nat
    OBVIOUS
  <1>2. AtParagraph
    BY <1>1 DEF AtParagraph
  <1>3. OneWindow /\ ProperWindows /\ ProperPieces /\ Splitting
    BY DEF OneWindow, ProperWindows, ProperPieces, Splitting
  <1>4. NothingLost
    BY <1>1 DEF NothingLost, Pending
  <1> QED BY <1>2, <1>3, <1>4 DEF ChunkerInv

\* A step that keeps the text keeps what is said of its stretches.
LEMMA SameText ==
  ASSUME UNCHANGED text
  PROVE  Stretches' = Stretches /\ \A w : Proper(w)' <=> Proper(w)
  BY DEF Stretches, Proper

LEMMA TakeParagraphKeeps == ChunkerInv /\ TakeParagraph => ChunkerInv'
  <1> SUFFICES ASSUME ChunkerInv, TakeParagraph PROVE ChunkerInv'
    OBVIOUS
  <1> DEFINE b == buffer[1]
             e == ParagraphEnd
             tail == IF Overlap > 0 THEN Most(b.from, b.to - Least(b.to, Overlap)) ELSE text_at
  <1>1. /\ text_at <= Len(text) /\ text_at' = e + 1 /\ UNCHANGED <<text, start, pieces>>
        /\ \/ /\ buffer = <<>>
              /\ buffer' = <<[from |-> text_at, to |-> e]>> /\ UNCHANGED windows
           \/ /\ buffer # <<>> /\ e - b.from <= Target
              /\ buffer' = <<[b EXCEPT !.to = e]>> /\ UNCHANGED windows
           \/ /\ buffer # <<>> /\ e - b.from > Target
              /\ windows' = Append(windows, b) /\ buffer' = <<[from |-> tail, to |-> e]>>
    BY DEF TakeParagraph
  <1>2. /\ e \in Nat /\ text_at < e /\ e <= Len(text) + 1
        /\ e <= Len(text) => text[e] = "par" /\ e < Len(text)
        /\ text_at \in Nat \ {0} /\ Len(text) \in Nat
    <2>1. AtParagraph /\ text \in Seq(Marks)
      BY ChunkerAssumption DEF ChunkerInv, AtParagraph
    <2>2. text_at \in Nat \ {0} /\ Len(text) \in Nat
      BY <2>1 DEF AtParagraph
    <2> QED BY <1>1, <2>1, <2>2, ParagraphEnds
  <1>3. buffer # <<>> => /\ b \in Stretches /\ b.from \in Nat \ {0} /\ b.to = text_at - 1
                         /\ b.from < b.to /\ Proper(b)
    BY DEF ChunkerInv, OneWindow, Proper, Stretches
  <1>4. buffer # <<>> => tail \in Nat \ {0} /\ tail <= text_at
    BY <1>2, <1>3, ChunkerAssumption DEF Most, Least
  <1> HIDE DEF e, tail
  <1>5. PICK f \in Nat \ {0} :
          /\ buffer' = <<[from |-> f, to |-> e]>> /\ f <= text_at
          /\ \/ UNCHANGED windows /\ (buffer # <<>> => f = b.from)
             \/ buffer # <<>> /\ windows' = Append(windows, b)
    <2>1. CASE buffer = <<>>
      BY <1>1, <1>2, <2>1
    <2>2. CASE buffer # <<>> /\ UNCHANGED windows /\ buffer' = <<[b EXCEPT !.to = e]>>
      <3>1. [b EXCEPT !.to = e] = [from |-> b.from, to |-> e]
        BY <1>3, <2>2 DEF Stretches
      <3>2. b.from \in Nat \ {0} /\ b.from <= text_at
        BY <1>2, <1>3, <2>2
      <3> QED BY <2>2, <3>1, <3>2
    <2>3. CASE buffer # <<>> /\ windows' = Append(windows, b) /\ buffer' = <<[from |-> tail, to |-> e]>>
      BY <1>4, <2>3
    <2> QED BY <1>1, <2>1, <2>2, <2>3
  <1> DEFINE w == [from |-> f, to |-> e]
  <1>6. w \in Stretches /\ w.from = f /\ w.to = e /\ Proper(w)
    BY <1>2, <1>5 DEF Stretches, Proper
  <1> HIDE DEF w, b
  <1>7. AtParagraph'
    BY <1>1, <1>2 DEF ChunkerInv, AtParagraph
  <1>8. OneWindow'
    <2>1. buffer' = <<w>> /\ <<w>> \in Seq(Stretches) /\ Len(<<w>>) = 1 /\ <<w>>[1] = w
      BY <1>5, <1>6 DEF w
    <2>2. w.to = text_at' - 1
      BY <1>1, <1>2, <1>6
    <2> QED BY <1>1, <1>6, <2>1, <2>2, SameText DEF OneWindow
  <1>9. ProperWindows'
    <2>1. CASE UNCHANGED windows
      BY <1>1, <2>1, SameText DEF ChunkerInv, ProperWindows
    <2>2. CASE buffer # <<>> /\ windows' = Append(windows, b)
      BY <1>1, <1>3, <2>2, SameText, ProperAppend DEF ChunkerInv, ProperWindows
    <2> QED BY <1>5, <2>1, <2>2
  <1>10. ProperPieces'
    BY <1>1, SameText DEF ChunkerInv, ProperPieces
  <1>11. start = 0
    BY <1>1, <1>2 DEF ChunkerInv, Splitting, Done
  <1>12. Splitting'
    BY <1>1, <1>11 DEF ChunkerInv, Splitting
  <1>13. NothingLost'
    <2> SUFFICES ASSUME NEW i \in 1..Len(text), text[i] # "par", ~In(i, pieces) PROVE Pending(i)'
      BY <1>1 DEF NothingLost
    <2>1. Pending(i)' <=> i >= text_at' \/ In(i, buffer') \/ Waits(i, windows', start')
      BY DEF Pending, Waits
    <2>2. Pending(i)
      BY DEF ChunkerInv, NothingLost
    <2>3. i >= text_at \/ In(i, buffer) \/ Waits(i, windows, start)
      BY <2>2, PendingIs
    <2>4. In(i, buffer') <=> f <= i /\ i < e
      BY <1>5 DEF In
    <2>5. CASE i >= text_at
      <3>1. i # e
        BY <1>2
      <3> QED BY <1>1, <1>2, <1>5, <2>1, <2>4, <2>5, <3>1
    <2>6. CASE In(i, buffer)
      <3>1. buffer # <<>> /\ b.from <= i /\ i < b.to
        BY <2>6 DEF In, b, ChunkerInv, OneWindow
      <3>2. CASE f = b.from
        BY <1>2, <1>3, <2>1, <2>4, <3>1, <3>2
      <3>3. CASE windows' = Append(windows, b)
        <4>1. Covers(b, i) /\ b \in Stretches /\ windows \in Seq(Stretches) /\ i \in Nat
          BY <1>3, <3>1 DEF Covers, ChunkerInv, ProperWindows
        <4>2. Waits(i, Append(windows, b), 0)
          BY <4>1, WaitsAppend
        <4> QED BY <1>1, <1>11, <2>1, <3>3, <4>2
      <3> QED BY <1>5, <3>1, <3>2, <3>3
    <2>7. CASE Waits(i, windows, start)
      <3>1. CASE UNCHANGED windows
        BY <1>1, <2>1, <2>7, <3>1
      <3>2. CASE buffer # <<>> /\ windows' = Append(windows, b)
        <4>1. b \in Stretches /\ windows \in Seq(Stretches) /\ i \in Nat
          BY <1>3, <3>2 DEF ChunkerInv, ProperWindows
        <4>2. Waits(i, Append(windows, b), 0)
          BY <1>11, <2>7, <4>1, WaitsAppend
        <4> QED BY <1>1, <1>11, <2>1, <3>2, <4>2
      <3> QED BY <1>5, <3>1, <3>2
    <2> QED BY <2>3, <2>5, <2>6, <2>7
  <1> QED BY <1>7, <1>8, <1>9, <1>10, <1>12, <1>13 DEF ChunkerInv

LEMMA CloseWindowKeeps == ChunkerInv /\ CloseWindow => ChunkerInv'
  <1> SUFFICES ASSUME ChunkerInv, CloseWindow PROVE ChunkerInv'
    OBVIOUS
  <1> DEFINE b == buffer[1]
  <1>1. /\ text_at > Len(text) /\ buffer # <<>>
        /\ windows' = Append(windows, b) /\ buffer' = <<>>
        /\ UNCHANGED <<text, text_at, start, pieces>>
    BY DEF CloseWindow
  <1>2. b \in Stretches /\ Proper(b)
    BY <1>1 DEF ChunkerInv, OneWindow, Proper
  <1>3. start = 0
    BY <1>1 DEF ChunkerInv, Splitting, Done
  <1>4. AtParagraph' /\ ProperPieces'
    BY <1>1, SameText DEF ChunkerInv, AtParagraph, ProperPieces
  <1>5. OneWindow' /\ Splitting'
    BY <1>1, <1>3 DEF OneWindow, Splitting
  <1> HIDE DEF b
  <1>6. ProperWindows'
    BY <1>1, <1>2, SameText, ProperAppend DEF ChunkerInv, ProperWindows
  <1>7. NothingLost'
    <2> SUFFICES ASSUME NEW i \in 1..Len(text), text[i] # "par", ~In(i, pieces) PROVE Pending(i)'
      BY <1>1 DEF NothingLost
    <2>1. Pending(i)' <=> i >= text_at' \/ In(i, buffer') \/ Waits(i, windows', start')
      BY DEF Pending, Waits
    <2>2. i >= text_at \/ In(i, buffer) \/ Waits(i, windows, start)
      BY PendingIs DEF ChunkerInv, NothingLost
    <2>3. In(i, buffer) => Covers(b, i)
      BY DEF In, Covers, b, ChunkerInv, OneWindow
    <2>4. windows \in Seq(Stretches) /\ i \in Nat
      BY DEF ChunkerInv, ProperWindows
    <2>5. In(i, buffer) \/ Waits(i, windows, start) => Waits(i, windows', start')
      BY <1>1, <1>2, <1>3, <2>3, <2>4, WaitsAppend
    <2> QED BY <1>1, <2>1, <2>2, <2>5
  <1> QED BY <1>4, <1>5, <1>6, <1>7 DEF ChunkerInv

LEMMA KeepWindowKeeps == ChunkerInv /\ KeepWindow => ChunkerInv'
  <1> SUFFICES ASSUME ChunkerInv, KeepWindow PROVE ChunkerInv'
    OBVIOUS
  <1> DEFINE h == Head(windows)
  <1>1. /\ Done /\ windows # <<>> /\ start = 0 /\ Size(h) <= Target
        /\ pieces' = Append(pieces, h) /\ windows' = Tail(windows)
        /\ UNCHANGED <<text, text_at, buffer, start>>
    BY DEF KeepWindow
  <1>2. /\ windows \in Seq(Stretches) /\ pieces \in Seq(Stretches)
        /\ \A k \in 1..Len(windows) : Proper(windows[k])
        /\ \A k \in 1..Len(pieces) : Proper(pieces[k]) /\ Size(pieces[k]) <= Target
    BY DEF ChunkerInv, ProperWindows, ProperPieces
  <1>3. Proper(h) /\ h \in Stretches
    BY <1>1, <1>2, ProperTail DEF Proper
  <1>4. ProperWindows'
    BY <1>1, <1>2, SameText, ProperTail DEF ProperWindows
  <1> HIDE DEF h
  <1>5. ProperPieces'
    <2>1. /\ pieces' \in Seq(Stretches)
          /\ \A k \in 1..Len(pieces') : Proper(pieces'[k])
      BY <1>1, <1>2, <1>3, ProperAppend
    <2>2. \A k \in 1..Len(pieces') : Size(pieces'[k]) <= Target
      BY <1>1, <1>2, <1>3
    <2> QED BY <1>1, <2>1, <2>2, SameText DEF ProperPieces, Size
  <1>6. AtParagraph' /\ OneWindow' /\ Splitting'
    BY <1>1, SameText DEF ChunkerInv, AtParagraph, OneWindow, Splitting
  <1>7. NothingLost'
    <2> SUFFICES ASSUME NEW i \in 1..Len(text), text[i] # "par", ~In(i, pieces') PROVE Pending(i)'
      BY <1>1 DEF NothingLost
    <2>1. i \in Nat /\ ~In(i, pieces) /\ ~Covers(h, i)
      BY <1>1, <1>2, <1>3, InAppend
    <2>2. i >= text_at \/ In(i, buffer) \/ Waits(i, windows, start)
      BY <2>1, PendingIs DEF ChunkerInv, NothingLost
    <2>3. Pending(i)' <=> i >= text_at' \/ In(i, buffer') \/ Waits(i, windows', start')
      BY DEF Pending, Waits
    <2>4. ASSUME Waits(i, windows, start) PROVE Waits(i, windows', start')
      <3>1. In(i, Tail(windows))
        BY <1>1, <2>1, <2>4 DEF Waits, Covers, h
      <3> QED BY <1>1, <1>2, <2>1, <3>1, WaitsNext
    <2> QED BY <1>1, <2>2, <2>3, <2>4
  <1> QED BY <1>4, <1>5, <1>6, <1>7 DEF ChunkerInv

LEMMA CutPieceKeeps == ChunkerInv /\ CutPiece => ChunkerInv'
  <1> SUFFICES ASSUME ChunkerInv, CutPiece PROVE ChunkerInv'
    OBVIOUS
  <1> DEFINE h == Head(windows)
             from == IF start = 0 THEN h.from ELSE start
             hardEnd == Least(h.to, from + Target)
             end == IF hardEnd >= h.to THEN hardEnd ELSE BoundaryBefore(from, hardEnd)
             piece == [from |-> from, to |-> end]
  <1>1. /\ Done /\ windows # <<>>
        /\ pieces' = Append(pieces, piece)
        /\ IF end >= h.to THEN windows' = Tail(windows) /\ start' = 0
                          ELSE start' = OverlapStart(from, end) /\ UNCHANGED windows
        /\ UNCHANGED <<text, text_at, buffer>>
    BY DEF CutPiece
  <1>2. /\ windows \in Seq(Stretches) /\ pieces \in Seq(Stretches)
        /\ \A k \in 1..Len(windows) : Proper(windows[k])
        /\ \A k \in 1..Len(pieces) : Proper(pieces[k]) /\ Size(pieces[k]) <= Target
        /\ start \in Nat
    BY DEF ChunkerInv, ProperWindows, ProperPieces, Splitting
  <1>3. /\ Proper(h) /\ h \in Stretches /\ h = windows[1]
        /\ h.from \in Nat \ {0} /\ h.to \in Nat /\ h.from < h.to /\ h.to <= Len(text) + 1
        /\ Len(text) \in Nat
    <2>1. Proper(h) /\ h = windows[1]
      BY <1>1, <1>2, ProperTail
    <2>2. Len(text) \in Nat
      BY ChunkerAssumption DEF ChunkerInv, AtParagraph
    <2> QED BY <2>1, <2>2 DEF Proper, Stretches
  <1>4. from \in Nat \ {0} /\ from < h.to /\ h.from <= from
    BY <1>2, <1>3 DEF ChunkerInv, Splitting
  <1> HIDE DEF from
  <1>5. hardEnd \in Nat /\ from < hardEnd /\ hardEnd <= h.to /\ hardEnd <= from + Target
    BY <1>3, <1>4, ChunkerAssumption DEF Least
  <1> HIDE DEF hardEnd
  <1>6. end \in Nat /\ from < end /\ end <= h.to /\ end <= from + Target
    <2>1. CASE hardEnd >= h.to
      BY <1>3, <1>4, <1>5, <2>1, ChunkerAssumption
    <2>2. CASE ~(hardEnd >= h.to)
      <3>1. /\ BoundaryBefore(from, hardEnd) \in Nat
            /\ from < BoundaryBefore(from, hardEnd) /\ BoundaryBefore(from, hardEnd) <= hardEnd
        BY <1>4, <1>5, BoundaryWithin
      <3>2. end = BoundaryBefore(from, hardEnd)
        BY <2>2
      <3> HIDE DEF end, h
      <3> QED BY <1>3, <1>4, <1>5, <3>1, <3>2, ChunkerAssumption
    <2> QED BY <2>1, <2>2
  <1> HIDE DEF end, h
  <1>7. /\ piece \in Stretches /\ piece.from = from /\ piece.to = end
        /\ Proper(piece) /\ Size(piece) <= Target
    BY <1>3, <1>4, <1>6, ChunkerAssumption DEF Stretches, Proper, Size
  <1> HIDE DEF piece
  <1>8. ProperPieces'
    <2>1. /\ pieces' \in Seq(Stretches)
          /\ \A k \in 1..Len(pieces') : Proper(pieces'[k])
      BY <1>1, <1>2, <1>7, ProperAppend
    <2>2. \A k \in 1..Len(pieces') : Size(pieces'[k]) <= Target
      BY <1>1, <1>2, <1>7
    <2> QED BY <1>1, <2>1, <2>2, SameText DEF ProperPieces, Size
  <1>9. ProperWindows'
    BY <1>1, <1>2, SameText, ProperTail DEF ProperWindows
  <1>10. AtParagraph' /\ OneWindow'
    BY <1>1, SameText DEF ChunkerInv, AtParagraph, OneWindow
  <1>11. end < h.to => OverlapStart(from, end) \in Nat /\ from < OverlapStart(from, end)
                       /\ OverlapStart(from, end) <= end
    BY <1>4, <1>6, OverlapWithin
  <1>12. Splitting'
    <2>1. CASE end >= h.to
      BY <1>1, <2>1 DEF Splitting
    <2>2. CASE end < h.to
      <3>1. /\ start' = OverlapStart(from, end) /\ windows' = windows /\ windows'[1] = h
            /\ start' \in Nat /\ from < start' /\ start' <= end
        BY <1>1, <1>3, <1>6, <1>11, <2>2
      <3>2. pieces' # <<>> /\ pieces'[Len(pieces')] = piece
        BY <1>1, <1>2, <1>7
      <3>3. Done'
        BY <1>1 DEF Done
      <3> QED BY <1>1, <1>3, <1>4, <1>6, <1>7, <2>2, <3>1, <3>2, <3>3 DEF Splitting
    <2> QED BY <1>3, <1>6, <2>1, <2>2
  <1>13. NothingLost'
    <2> SUFFICES ASSUME NEW i \in 1..Len(text), text[i] # "par", ~In(i, pieces') PROVE Pending(i)'
      BY <1>1 DEF NothingLost
    <2>1. i \in Nat /\ ~In(i, pieces) /\ ~(from <= i /\ i < end)
      BY <1>1, <1>2, <1>7, InAppend DEF Covers
    <2>2. i >= text_at \/ In(i, buffer) \/ Waits(i, windows, start)
      BY <2>1, PendingIs DEF ChunkerInv, NothingLost
    <2>3. Pending(i)' <=> i >= text_at' \/ In(i, buffer') \/ Waits(i, windows', start')
      BY DEF Pending, Waits
    <2>4. ASSUME Waits(i, windows, start) PROVE Waits(i, windows', start')
      <3>1. In(i, Tail(windows)) \/ (i < h.to /\ i >= end)
        BY <1>3, <1>6, <2>1, <2>4 DEF Waits, h, from
      <3>2. CASE end >= h.to
        <4>1. In(i, Tail(windows)) /\ windows' = Tail(windows) /\ start' = 0
          BY <1>1, <1>3, <1>6, <2>1, <3>1, <3>2
        <4> QED BY <1>1, <1>2, <2>1, <4>1, WaitsNext
      <3>3. CASE end < h.to
        <4>1. windows' = windows /\ start' \in Nat \ {0} /\ start' <= end
          BY <1>1, <1>3, <1>4, <1>6, <1>11, <3>3
        <4> QED BY <1>1, <1>6, <2>1, <3>1, <4>1 DEF Waits, h
      <3> QED BY <1>3, <1>6, <3>2, <3>3
    <2> QED BY <1>1, <2>2, <2>3, <2>4
  <1> QED BY <1>8, <1>9, <1>10, <1>12, <1>13 DEF ChunkerInv

LEMMA ChunkerInvNext == ChunkerInv /\ [ChunkerNext]_chunkerVars => ChunkerInv'
  <1> SUFFICES ASSUME ChunkerInv, [ChunkerNext]_chunkerVars PROVE ChunkerInv'
    OBVIOUS
  <1>1. CASE UNCHANGED chunkerVars
    BY <1>1 DEF chunkerVars, ChunkerInv, AtParagraph, OneWindow, ProperWindows, ProperPieces,
                Splitting, NothingLost, Pending, Proper, Stretches, Size, Done, In
  <1> QED BY <1>1, TakeParagraphKeeps, CloseWindowKeeps, KeepWindowKeeps, CutPieceKeeps DEF ChunkerNext

LEMMA ChunkerInvSafe == ChunkerInv => ChunkerSafe
  <1> SUFFICES ASSUME ChunkerInv PROVE ChunkerSafe
    OBVIOUS
  <1>1. text \in Seq(Marks)
    BY ChunkerAssumption DEF ChunkerInv, AtParagraph
  <1>2. ChunkerTypeOK
    BY <1>1 DEF ChunkerInv, AtParagraph, OneWindow, ProperWindows, ProperPieces, Splitting, ChunkerTypeOK
  <1>3. WithinBudget
    <2>1. pieces \in Seq(Stretches) /\ DOMAIN pieces = 1..Len(pieces)
      BY DEF ChunkerInv, ProperPieces
    <2>2. \A k \in 1..Len(pieces) :
            pieces[k] \in Stretches /\ pieces[k].from < pieces[k].to /\ Size(pieces[k]) <= Target
      BY DEF ChunkerInv, ProperPieces, Proper
    <2>3. \A p \in Stretches : p.from \in Int /\ p.to \in Int
      BY DEF Stretches
    <2> QED BY <2>1, <2>2, <2>3 DEF WithinBudget
  <1>4. Progress
    BY DEF ChunkerInv, Splitting, Progress
  <1> QED BY <1>2, <1>3, <1>4 DEF ChunkerInv, ChunkerSafe

\* Whatever the text, and however long the windows and their overlap: no character of a
\* paragraph is lost between two pieces, none is longer than the budget, and the splitting
\* makes progress (rag/chunker.py).
THEOREM ChunkerCorrect == ChunkerSpec => []ChunkerSafe
<1>1. ChunkerInv => ChunkerSafe
  BY ChunkerInvSafe
<1> QED BY <1>1, ChunkerInvInit, ChunkerInvNext, PTL DEF ChunkerSpec

-----------------------------------------------------------------------------
(* What the bot has read. *)

KnowledgeInv == KbInv /\ FaqInv /\ ChunkerInv

LEMMA KnowledgeInvNext == KnowledgeInv /\ [KnowledgeNext]_knowledgeVars => KnowledgeInv'
  <1> SUFFICES ASSUME KnowledgeInv, [KnowledgeNext]_knowledgeVars PROVE KnowledgeInv'
    OBVIOUS
  <1>1. [KbNext]_kbVars /\ [FaqNext]_faqVars /\ [ChunkerNext]_chunkerVars
    BY DEF KnowledgeNext, KbStep, FaqStep, ChunkerStep, knowledgeVars
  <1> QED BY <1>1, KbInvNext, FaqInvNext, ChunkerInvNext DEF KnowledgeInv

\* What the bot has read is one copy of the newest text, in pieces that lose nothing, for every
\* number of runs, pages, writes and texts (rag/indexer.py, rag/chunker.py).
THEOREM KnowledgeCorrect == KnowledgeSpec => []KnowledgeSafe
<1>1. KnowledgeInit => KnowledgeInv
  BY KbInvInit, FaqInvInit, ChunkerInvInit DEF KnowledgeInit, KnowledgeInv
<1>2. KnowledgeInv => KnowledgeSafe
  BY KbInvSafe, FaqInvSafe, ChunkerInvSafe DEF KnowledgeInv, KnowledgeSafe
<1> QED BY <1>1, <1>2, KnowledgeInvNext, PTL DEF KnowledgeSpec

-----------------------------------------------------------------------------
(* The hours of a merchant: days, weeks and windows, the search of the      *)
(* agenda, and the panel's saves against the nightly job.                   *)

\* Division with a remainder, and that there is one only.
LEMMA DivMod ==
  ASSUME NEW m \in Int, NEW n \in Nat \ {0}
  PROVE  /\ m \div n \in Int /\ m % n \in 0..n - 1
         /\ m = (m \div n) * n + (m % n)
BY SMT

LEMMA Distributes ==
  ASSUME NEW p \in Int, NEW q \in Int, NEW n \in Nat
  PROVE  (p + q) * n = p * n + q * n /\ p * n \in Int /\ q * n \in Int
OBVIOUS

LEMMA ProductOrder ==
  ASSUME NEW p \in Int, NEW q \in Int, NEW n \in Nat \ {0}, p < q
  PROVE  p * n + n <= q * n
<1>1. PICK k \in Nat : q = p + 1 + k
  OBVIOUS
<1>2. k * n >= 0 /\ k * n \in Int
  OBVIOUS
<1>3. (p + 1 + k) * n = p * n + n + k * n
  OBVIOUS
<1> QED BY <1>1, <1>2, <1>3

LEMMA DivIs ==
  ASSUME NEW n \in Nat \ {0}, NEW q \in Int, NEW r \in 0..n - 1
  PROVE  (q * n + r) \div n = q /\ (q * n + r) % n = r
<1> DEFINE m == q * n + r
           d == m \div n
           e == m % n
<1>1. m \in Int /\ q * n \in Int
  OBVIOUS
<1>2. d \in Int /\ e \in 0..n - 1 /\ m = d * n + e
  BY <1>1, DivMod
<1>3. ~(d < q)
  <2>1. d < q => d * n + n <= q * n
    BY <1>2, ProductOrder
  <2> QED BY <1>2, <1>1, <2>1
<1>4. ~(q < d)
  <2>1. q < d => q * n + n <= d * n
    BY <1>2, ProductOrder
  <2> QED BY <1>2, <1>1, <2>1
<1>5. d = q
  BY <1>2, <1>3, <1>4
<1>6. e = r
  BY <1>2, <1>5, <1>1
<1> QED BY <1>5, <1>6

LEMMA DivExact ==
  ASSUME NEW n \in Nat \ {0}, NEW q \in Int
  PROVE  (q * n) \div n = q /\ (q * n) % n = 0
<1>1. PICK r \in 0..n - 1 : r = 0
  OBVIOUS
<1>2. (q * n + r) \div n = q /\ (q * n + r) % n = r
  BY DivIs
<1>3. q * n \in Int
  OBVIOUS
<1>4. q * n + r = q * n
  BY <1>1, <1>3
<1> QED BY <1>1, <1>2, <1>4

\* The day and the time of day of a moment.
LEMMA DayLengthPos == DayLength \in Nat \ {0}
BY CalendarAssumption DEF DayLength

LEMMA AtSum ==
  ASSUME NEW d \in Int, NEW t \in Int
  PROVE  At(d, t) = At(d, 0) + t /\ At(d, 0) \in Int /\ At(d, t) \in Int
BY DayLengthPos DEF At

LEMMA Clock ==
  ASSUME NEW m \in Int
  PROVE  /\ DayOf(m) \in Int /\ At(DayOf(m), 0) \in Int
         /\ m % DayLength \in Times /\ m % DayLength \in 0..DayLength - 1
         /\ m = At(DayOf(m), 0) + (m % DayLength)
<1>1. DayOf(m) \in Int /\ m % DayLength \in 0..DayLength - 1
  BY DayLengthPos, DivMod DEF DayOf
<1>2. m = DayOf(m) * DayLength + (m % DayLength)
  BY DayLengthPos, DivMod DEF DayOf
<1>3. m = At(DayOf(m), m % DayLength)
  BY <1>2 DEF At
<1>4. m % DayLength \in Int
  BY <1>1, DayLengthPos
<1> QED BY <1>1, <1>3, <1>4, AtSum DEF Times

LEMMA ClockIs ==
  ASSUME NEW d \in Int, NEW t \in Times
  PROVE  At(d, t) \in Int /\ DayOf(At(d, t)) = d /\ At(d, t) % DayLength = t
BY DayLengthPos, DivIs DEF DayOf, Times, At

\* Days come one after the other.
LEMMA AtOrder ==
  ASSUME NEW d \in Int, NEW e \in Int, d < e
  PROVE  /\ At(d, 0) \in Int /\ At(e, 0) \in Int /\ At(d, 0) + DayLength = At(d + 1, 0)
         /\ At(d, 0) + DayLength <= At(e, 0)
<1> DEFINE n == DayLength
<1>1. n \in Nat \ {0} /\ d * n \in Int /\ e * n \in Int
  BY DayLengthPos
<1>2. d * n + n <= e * n
  BY <1>1, ProductOrder
<1>3. (d + 1) * n = d * n + n
  BY <1>1
<1> QED BY <1>1, <1>2, <1>3 DEF At

LEMMA WeekdayIn == ASSUME NEW d \in Int PROVE Weekday(d) \in Weekdays
BY CalendarAssumption, DivMod DEF Weekday, Weekdays

\* The same day of the week comes again after a week.
LEMMA WeekdayAgain ==
  ASSUME NEW d \in Int
  PROVE  Weekday(d + WeekLength) = Weekday(d)
<1> DEFINE q == d \div WeekLength
           r == d % WeekLength
<1>1. q \in Int /\ r \in 0..WeekLength - 1 /\ d = q * WeekLength + r /\ WeekLength \in Nat \ {0}
  BY CalendarAssumption, DivMod
<1>2. PICK p \in Int : p = q + 1
  BY <1>1
<1>3. d + WeekLength = p * WeekLength + r
  BY <1>1, <1>2
<1>4. (p * WeekLength + r) % WeekLength = r
  BY <1>1, <1>2, DivIs
<1> QED BY <1>3, <1>4 DEF Weekday

\* Every weekday comes within a week.
LEMMA WeekdayWithin ==
  ASSUME NEW d \in Int, NEW w \in Weekdays
  PROVE  \E n \in 0..WeekLength - 1 : Weekday(d + n) = w
<1> DEFINE q == d \div WeekLength
           r == d % WeekLength
<1>1. q \in Int /\ r \in 0..WeekLength - 1 /\ d = q * WeekLength + r /\ WeekLength \in Nat \ {0}
  BY CalendarAssumption, DivMod
<1>2. w \in 0..WeekLength - 1
  BY DEF Weekdays
<1>3. CASE r <= w
  <2>1. d + (w - r) = q * WeekLength + w /\ w - r \in 0..WeekLength - 1
    BY <1>1, <1>2, <1>3
  <2>2. (q * WeekLength + w) % WeekLength = w
    BY <1>1, <1>2, DivIs
  <2> QED BY <2>1, <2>2 DEF Weekday
<1>4. CASE w < r
  <2>1. PICK p \in Int : p = q + 1
    BY <1>1
  <2>2. d + (w - r + WeekLength) = p * WeekLength + w /\ w - r + WeekLength \in 0..WeekLength - 1
    BY <1>1, <1>2, <1>4, <2>1
  <2>3. (p * WeekLength + w) % WeekLength = w
    BY <1>1, <1>2, <2>1, DivIs
  <2> QED BY <2>2, <2>3 DEF Weekday
<1> QED BY <1>1, <1>2, <1>3, <1>4

LEMMA DayBounds ==
  ASSUME NEW n \in Int, NEW d \in Int
  PROVE  At(d, 0) <= n <=> d <= DayOf(n)
<1> DEFINE e == DayOf(n)
<1>1. e \in Int /\ n % DayLength \in 0..DayLength - 1 /\ n = At(e, 0) + (n % DayLength)
  BY Clock
<1>2. n % DayLength >= 0 /\ n % DayLength < DayLength /\ DayLength \in Nat /\ n % DayLength \in Int
  BY <1>1, DayLengthPos
<1>3. At(d, 0) \in Int /\ At(e, 0) \in Int
  BY <1>1, AtSum
<1>4. CASE d < e
  BY <1>1, <1>2, <1>3, <1>4, AtOrder
<1>5. CASE d = e
  BY <1>1, <1>2, <1>3, <1>5
<1>6. CASE e < d
  BY <1>1, <1>2, <1>3, <1>6, AtOrder
<1> QED BY <1>1, <1>4, <1>5, <1>6

\* A window of one day, as an interval and on the clock.
Interval(d, w) == <<At(d, w[1]), At(IF WrapsMidnight(w) THEN d + 1 ELSE d, w[2])>>
OnTheClock(d, w, n) ==
  \/ /\ DayOf(n) = d
     /\ w[1] <= n % DayLength /\ (n % DayLength < w[2] \/ w[2] <= w[1])
  \/ DayOf(n) = d + 1 /\ w[2] <= w[1] /\ n % DayLength < w[2]

LEMMA WindowOn ==
  ASSUME NEW d \in Int, NEW w \in Times \X Times, NEW n \in Int
  PROVE  /\ Interval(d, w) \in Int \X Int
         /\ Interval(d, w)[1] < Interval(d, w)[2]
         /\ DayOf(Interval(d, w)[1]) = d
         /\ OnAt(Interval(d, w), n) <=> OnTheClock(d, w, n)
<1> DEFINE i == Interval(d, w)
           L == DayLength
           e == DayOf(n)
           t == n % DayLength
           z == At(d, 0)
           y == At(e, 0)
<1>1. /\ w[1] \in Int /\ w[2] \in Int /\ 0 <= w[1] /\ w[1] < L /\ 0 <= w[2] /\ w[2] < L
      /\ w[1] \in Times /\ w[2] \in Times /\ L \in Nat
  BY DayLengthPos DEF Times
<1>2. /\ e \in Int /\ t \in Int /\ 0 <= t /\ t < L /\ n = y + t
      /\ z \in Int /\ y \in Int
  <2>1. e \in Int /\ t \in 0..L - 1 /\ n = y + t /\ y \in Int
    BY Clock
  <2>2. z \in Int
    BY AtSum
  <2> QED BY <2>1, <2>2, DayLengthPos
<1>3. At(d + 1, 0) = z + L
  BY AtOrder
<1>4. i[1] = z + w[1] /\ i[2] = IF w[2] <= w[1] THEN z + L + w[2] ELSE z + w[2]
  <2>1. At(d, w[1]) = z + w[1] /\ At(d, w[2]) = z + w[2]
    BY <1>1, AtSum
  <2>2. At(d + 1, w[2]) = z + L + w[2]
    BY <1>1, <1>3, AtSum
  <2> QED BY <2>1, <2>2 DEF Interval, WrapsMidnight
<1>5. i = <<i[1], i[2]>>
  BY DEF Interval
<1>6. i \in Int \X Int /\ i[1] < i[2]
  BY <1>1, <1>2, <1>4, <1>5
<1>7. DayOf(i[1]) = d
  BY <1>1, ClockIs DEF Interval
<1>8. OnAt(i, n) <=> i[1] <= n /\ n < i[2]
  BY DEF OnAt
<1>9. OnTheClock(d, w, n) <=> \/ e = d /\ w[1] <= t /\ (t < w[2] \/ w[2] <= w[1])
                              \/ e = d + 1 /\ w[2] <= w[1] /\ t < w[2]
  BY DEF OnTheClock
<1>10. (e < d => y + L <= z) /\ (e = d => y = z) /\ (e = d + 1 => y = z + L)
       /\ (d + 1 < e => z + L + L <= y)
  <2>1. e < d => y + L <= z
    BY <1>2, AtOrder
  <2>2. d + 1 < e => z + L + L <= y
    BY <1>2, <1>3, AtOrder
  <2> QED BY <1>3, <2>1, <2>2
<1>11. e < d \/ e = d \/ e = d + 1 \/ d + 1 < e
  BY <1>2
<1>12. OnAt(i, n) <=> OnTheClock(d, w, n)
  <2> HIDE DEF i, L, e, t, z, y
  <2>1. CASE e < d
    BY <2>1, <1>1, <1>2, <1>4, <1>8, <1>9, <1>10
  <2>2. CASE e = d
    BY <2>2, <1>1, <1>2, <1>4, <1>8, <1>9, <1>10
  <2>3. CASE e = d + 1
    BY <2>3, <1>1, <1>2, <1>4, <1>8, <1>9, <1>10
  <2>4. CASE d + 1 < e
    BY <2>4, <1>1, <1>2, <1>4, <1>8, <1>9, <1>10
  <2> QED BY <1>11, <2>1, <2>2, <2>3, <2>4
<1> QED BY <1>6, <1>7, <1>12

WeeksOfWindows == [Weekdays -> Seq(Times \X Times)]
WindowsOn(d, week, closed) == IF d \in closed THEN {} ELSE ToSet(week[Weekday(d)])
IntervalsOfDays(lo, hi, week, closed) ==
  UNION {IntervalsStartingOn(d, week, closed) : d \in lo..hi}

LEMMA WindowsAre ==
  ASSUME NEW week \in WeeksOfWindows, NEW closed, NEW d \in Int
  PROVE  /\ WindowsOn(d, week, closed) \subseteq Times \X Times
         /\ IntervalsStartingOn(d, week, closed) = {Interval(d, w) : w \in WindowsOn(d, week, closed)}
<1>1. week[Weekday(d)] \in Seq(Times \X Times)
  BY WeekdayIn DEF WeeksOfWindows
<1>2. WindowsOn(d, week, closed) \subseteq Times \X Times
  BY <1>1 DEF WindowsOn, ToSet
<1>3. IntervalsStartingOn(d, week, closed) = {Interval(d, w) : w \in WindowsOn(d, week, closed)}
  BY DEF IntervalsStartingOn, WindowsOn, Interval
<1> QED BY <1>2, <1>3

LEMMA OpenIff ==
  ASSUME NEW week \in WeeksOfWindows, NEW closed, NEW n \in Int
  PROVE  OpenByTheClock(n, week, closed) <=>
           \E d \in Int : \E w \in WindowsOn(d, week, closed) : OnTheClock(d, w, n)
<1> DEFINE t == n % DayLength
<1>1. DayOf(n) \in Int /\ DayOf(n) - 1 \in Int
  BY Clock
<1>2. OpenByTheClock(n, week, closed) <=>
        \/ \E w \in WindowsOn(DayOf(n), week, closed) : w[1] <= t /\ (t < w[2] \/ w[2] <= w[1])
        \/ \E w \in WindowsOn(DayOf(n) - 1, week, closed) : w[2] <= w[1] /\ t < w[2]
  BY DEF OpenByTheClock, WindowsOn
<1>3. \A d \in Int : DayOf(n) = d + 1 <=> d = DayOf(n) - 1
  BY <1>1
<1> QED BY <1>1, <1>2, <1>3 DEF OnTheClock

\* The intervals of the days around a moment are on when the clock says so.
LEMMA IntervalsIff ==
  ASSUME NEW week \in WeeksOfWindows, NEW closed, NEW n \in Int, NEW lo \in Int, NEW hi \in Int,
         lo < DayOf(n), DayOf(n) <= hi
  PROVE  OpenByTheClock(n, week, closed) <=>
           \E i \in IntervalsOfDays(lo, hi, week, closed) : OnAt(i, n)
<1>1. ASSUME NEW d \in Int, NEW w \in WindowsOn(d, week, closed)
      PROVE  w \in Times \X Times /\ (OnAt(Interval(d, w), n) <=> OnTheClock(d, w, n))
  BY WindowsAre, WindowOn
<1>2. ASSUME OpenByTheClock(n, week, closed)
      PROVE  \E i \in IntervalsOfDays(lo, hi, week, closed) : OnAt(i, n)
  <2>0. PICK d \in Int : \E w \in WindowsOn(d, week, closed) : OnTheClock(d, w, n)
    BY <1>2, OpenIff
  <2>1. PICK w \in WindowsOn(d, week, closed) : OnTheClock(d, w, n)
    BY <2>0
  <2>2. d \in lo..hi
    BY <2>1, Clock DEF OnTheClock
  <2>3. Interval(d, w) \in IntervalsStartingOn(d, week, closed)
    BY WindowsAre
  <2> QED BY <2>1, <2>2, <2>3, <1>1 DEF IntervalsOfDays
<1>3. ASSUME NEW i \in IntervalsOfDays(lo, hi, week, closed), OnAt(i, n)
      PROVE  OpenByTheClock(n, week, closed)
  <2>1. PICK d \in lo..hi : i \in IntervalsStartingOn(d, week, closed)
    BY DEF IntervalsOfDays
  <2>2. PICK w \in WindowsOn(d, week, closed) : i = Interval(d, w)
    BY <2>1, WindowsAre
  <2>3. OnTheClock(d, w, n)
    BY <1>1, <1>3, <2>2
  <2> QED BY <2>3, OpenIff
<1> QED BY <1>2, <1>3

LEMMA IsOpenIsExact ==
  ASSUME NEW week \in WeeksOfWindows, NEW closed, NEW m \in Int
  PROVE  IsOpenAt(m, week, closed) <=> OpenByTheClock(m, week, closed)
<1>1. DayOf(m) \in Int
  BY Clock
<1>2. OpenByTheClock(m, week, closed) <=>
        \E i \in IntervalsOfDays(DayOf(m) - 1, DayOf(m) + 1, week, closed) : OnAt(i, m)
  BY <1>1, IntervalsIff
<1> QED BY <1>2 DEF IsOpenAt, IntervalsAround, IntervalsOfDays

\* A set of numbers that is bounded below has a least one.
LEMMA LeastAbove ==
  ASSUME NEW S \in SUBSET Int, S # {}, NEW b \in Int, \A x \in S : b <= x
  PROVE  Min(S) \in S /\ \A x \in S : Min(S) <= x
<1> DEFINE T == {x - b : x \in S}
<1>1. T \in SUBSET Nat /\ T # {}
  <2>1. \A x \in S : x - b \in Nat
    OBVIOUS
  <2>2. T # {}
    OBVIOUS
  <2> QED BY <2>1, <2>2
<1>2. PICK i \in T : \A j \in T : <<j, i>> \notin OpToRel(<, Nat)
  BY <1>1, NatLessThanWellFounded, WFMin
<1>3. \A j \in T : ~(j < i)
  BY <1>1, <1>2 DEF OpToRel
<1>4. PICK x \in S : i = x - b
  OBVIOUS
<1>5. \A y \in S : x <= y
  <2> TAKE y \in S
  <2>1. y - b \in T
    OBVIOUS
  <2>2. ~(y - b < x - b)
    BY <1>3, <1>4, <2>1
  <2> QED BY <2>2
<1> QED BY <1>5 DEF Min

\* A least pair in the order of `Precedes`.
LEMMA FirstInterval ==
  ASSUME NEW S \in SUBSET (Int \X Int), S # {}, NEW b \in Int,
         \A i \in S : b <= i[1] /\ b <= i[2]
  PROVE  \E i \in S : \A j \in S : Precedes(i, j)
<1> DEFINE A == {i[1] : i \in S}
           a == Min(A)
           B == {i[2] : i \in {j \in S : j[1] = a}}
           c == Min(B)
<1>1. A \in SUBSET Int /\ A # {} /\ \A x \in A : b <= x
  OBVIOUS
<1>2. a \in A /\ \A x \in A : a <= x
  <2> HIDE DEF A
  <2> QED BY <1>1, LeastAbove
<1>3. B \in SUBSET Int /\ B # {} /\ \A x \in B : b <= x
  <2> HIDE DEF a
  <2> QED BY <1>2
<1>4. c \in B /\ \A x \in B : c <= x
  <2> HIDE DEF B
  <2> QED BY <1>3, LeastAbove
<1>5. PICK i \in S : i[1] = a /\ i[2] = c
  <2> HIDE DEF a, c
  <2> QED BY <1>4
<1>6. ASSUME NEW j \in S PROVE Precedes(i, j)
  <2>1. a <= j[1] /\ (j[1] = a => c <= j[2])
    <3> HIDE DEF a, c
    <3> QED BY <1>2, <1>4
  <2>2. i[1] \in Int /\ j[1] \in Int /\ i[2] \in Int /\ j[2] \in Int
    OBVIOUS
  <2> HIDE DEF a, c
  <2> QED BY <2>1, <2>2, <1>5 DEF Precedes
<1> QED BY <1>6

\* A question that is put off is put off to the first moment at which the clock says
\* that the assistant may answer.
LEMMA NextOpeningIsExact ==
  ASSUME NEW week \in WeeksOfWindows, NEW closed, NEW m \in Int
  PROVE  NextOpeningAfter(m, week, closed) = FirstOpening(m, week, closed)
<1> DEFINE D == DayOf(m)
           lo == D - 1
           hi == D + LookaheadDays
           all == IntervalsOfDays(lo, hi, week, closed)
           hits == {i \in all : OnAt(i, m) \/ i[1] > m}
           first == CHOOSE i \in hits : \A j \in hits : Precedes(i, j)
           Open(n) == OpenByTheClock(n, week, closed)
           last == At(hi + 1, 0) - 1
           open == {n \in m..last : Open(n)}
<1>1. D \in Int /\ lo \in Int /\ hi \in Int /\ last \in Int /\ D <= hi /\ lo < D
  <2>1. D \in Int /\ LookaheadDays \in Nat
    BY Clock, CalendarAssumption
  <2>2. lo \in Int /\ hi \in Int /\ hi + 1 \in Int /\ D <= hi /\ lo < D
    <3> HIDE DEF D
    <3> QED BY <2>1
  <2>3. At(hi + 1, 0) \in Int
    <3> HIDE DEF hi
    <3> QED BY <2>2, AtSum
  <2> HIDE DEF D, lo, hi
  <2> QED BY <2>1, <2>2, <2>3
<1>2. NextOpeningAfter(m, week, closed) =
        IF hits = {} THEN Never ELSE IF OnAt(first, m) THEN m ELSE first[1]
  BY DEF NextOpeningAfter, IntervalsAround, IntervalsOfDays
<1>3. FirstOpening(m, week, closed) = IF open = {} THEN Never ELSE Min(open)
  BY DEF FirstOpening
<1>4. ASSUME NEW n \in Int, m <= n, n <= last
      PROVE  Open(n) <=> \E i \in all : OnAt(i, n)
  <2>1. DayOf(n) \in Int /\ D <= DayOf(n)
    <3>1. At(D, 0) <= m
      BY <1>1, DayBounds
    <3>2. At(D, 0) <= n
      BY <1>1, <1>4, <3>1, AtSum
    <3>3. DayOf(n) \in Int
      BY Clock
    <3>4. D <= DayOf(n)
      <4>1. D \in Int /\ At(D, 0) <= n
        BY <1>1, <3>2
      <4> HIDE DEF D
      <4> QED BY <4>1, DayBounds
    <3> QED BY <3>3, <3>4
  <2>2. DayOf(n) <= hi
    <3>0. hi + 1 \in Int /\ At(hi + 1, 0) \in Int
      <4> HIDE DEF hi
      <4> QED BY <1>1, AtSum
    <3>1. ~(At(hi + 1, 0) <= n)
      <4> HIDE DEF hi
      <4> QED BY <3>0, <1>4
    <3>2. ~(hi + 1 <= DayOf(n))
      <4> HIDE DEF hi
      <4> QED BY <3>0, <3>1, DayBounds
    <3> QED BY <1>1, <2>1, <3>2
  <2>3. lo < DayOf(n)
    BY <1>1, <2>1
  <2> HIDE DEF lo, hi
  <2> QED BY <1>1, <2>1, <2>2, <2>3, IntervalsIff
<1>5. ASSUME NEW i \in all
      PROVE  /\ i \in Int \X Int /\ i[1] < i[2] /\ lo <= DayOf(i[1]) /\ DayOf(i[1]) <= hi
             /\ OnAt(i, i[1])
  <2>1. PICK d \in lo..hi : i \in IntervalsStartingOn(d, week, closed)
    BY DEF IntervalsOfDays
  <2>2. d \in Int
    BY <1>1
  <2>3. PICK w \in WindowsOn(d, week, closed) : i = Interval(d, w)
    BY <2>1, <2>2, WindowsAre
  <2>4. w \in Times \X Times
    BY <2>2, WindowsAre
  <2>5. i \in Int \X Int /\ i[1] < i[2] /\ DayOf(i[1]) = d
    BY <2>2, <2>3, <2>4, WindowOn
  <2>6. OnAt(i, i[1])
    BY <2>5 DEF OnAt
  <2> QED BY <2>5, <2>6, <1>1
<1>6. ASSUME NEW i \in all PROVE i[1] <= last /\ At(lo, 0) <= i[1]
  <2>1. i[1] \in Int /\ DayOf(i[1]) \in Int /\ lo <= DayOf(i[1]) /\ DayOf(i[1]) <= hi
    BY <1>5, Clock
  <2>2. At(lo, 0) <= i[1]
    BY <2>1, <1>1, DayBounds
  <2>3. ~(hi + 1 <= DayOf(i[1])) /\ hi + 1 \in Int
    BY <2>1, <1>1
  <2>4. ~(At(hi + 1, 0) <= i[1])
    BY <2>1, <2>3, DayBounds
  <2>5. At(hi + 1, 0) \in Int
    BY <2>3, AtSum
  <2> QED BY <2>1, <2>2, <2>4, <2>5
<1> HIDE DEF D, lo, hi, all, Open, last
\* The first hit.
<1>7. ASSUME hits # {}
      PROVE  first \in hits /\ \A j \in hits : Precedes(first, j)
  <2>1. hits \in SUBSET (Int \X Int)
    BY <1>5
  <2>2. \A i \in hits : At(lo, 0) <= i[1] /\ At(lo, 0) <= i[2]
    <3>1. At(lo, 0) \in Int
      BY <1>1, AtSum
    <3> QED BY <1>5, <1>6, <3>1
  <2>3. \E i \in hits : \A j \in hits : Precedes(i, j)
    <3>1. At(lo, 0) \in Int
      BY <1>1, AtSum
    <3> HIDE DEF hits
    <3> QED BY <1>7, <2>1, <2>2, <3>1, FirstInterval
  <2> QED BY <2>3
<1>8. ASSUME NEW n \in open
      PROVE  \E i \in hits : i[1] <= n /\ (i[1] > m \/ OnAt(i, m))
  <2>1. n \in Int /\ m <= n /\ n <= last /\ Open(n)
    BY <1>1
  <2>2. PICK i \in all : OnAt(i, n)
    BY <1>4, <2>1
  <2>3. i[1] \in Int /\ i[2] \in Int /\ i[1] <= n /\ n < i[2]
    BY <1>5, <2>2 DEF OnAt
  <2>4. i[1] > m \/ OnAt(i, m)
    BY <2>1, <2>3 DEF OnAt
  <2> QED BY <2>3, <2>4
<1>9. m <= last
  <2>1. ~(hi + 1 <= DayOf(m)) /\ hi + 1 \in Int
    BY <1>1 DEF D
  <2>2. ~(At(hi + 1, 0) <= m) /\ At(hi + 1, 0) \in Int
    BY <2>1, DayBounds, AtSum
  <2> QED BY <2>2 DEF last
<1>10. CASE hits = {}
  <2>1. open = {}
    BY <1>8, <1>10
  <2> QED BY <1>2, <1>3, <1>10, <2>1
<1>11. CASE hits # {}
  <2> DEFINE best == IF OnAt(first, m) THEN m ELSE first[1]
  <2>1. /\ first \in hits /\ first \in all /\ first \in Int \X Int
        /\ \A j \in hits : Precedes(first, j)
    BY <1>5, <1>7, <1>11
  <2>2. best \in open
    <3>1. CASE OnAt(first, m)
      <4>1. Open(m)
        BY <1>4, <1>1, <1>9, <2>1, <3>1
      <4> QED BY <4>1, <1>1, <1>9, <3>1
    <3>2. CASE ~OnAt(first, m)
      <4>1. first[1] > m /\ first[1] \in Int /\ first[1] <= last
        BY <2>1, <3>2, <1>6
      <4>2. Open(first[1])
        BY <1>4, <1>5, <2>1, <4>1
      <4> QED BY <4>1, <4>2, <1>1, <3>2
    <3> QED BY <3>1, <3>2
  <2>3. ASSUME NEW n \in open PROVE best <= n
    <3>1. n \in Int /\ m <= n
      BY <1>1
    <3>2. CASE OnAt(first, m)
      BY <3>1, <3>2
    <3>3. CASE ~OnAt(first, m)
      <4>1. PICK i \in hits : i[1] <= n /\ (i[1] > m \/ OnAt(i, m))
        BY <1>8
      <4>2. i[1] \in Int /\ first[1] \in Int /\ first[1] <= i[1]
        BY <1>5, <2>1 DEF Precedes
      <4> QED BY <3>1, <3>3, <4>1, <4>2
    <3> QED BY <3>2, <3>3
  <2>4. open \in SUBSET Int /\ open # {} /\ \A x \in open : m <= x
    BY <1>1, <2>2
  <2>5. Min(open) \in open /\ \A x \in open : Min(open) <= x
    <3> HIDE DEF open
    <3> QED BY <2>4, LeastAbove
  <2>6. Min(open) = best
    <3>1. best \in Int /\ Min(open) \in Int
      <4> HIDE DEF open, best
      <4> QED BY <2>2, <2>4, <2>5
    <3>2. best <= Min(open) /\ Min(open) <= best
      <4> HIDE DEF open, best
      <4> QED BY <2>2, <2>3, <2>5
    <3> HIDE DEF open, best
    <3> QED BY <3>1, <3>2
  <2> QED BY <1>2, <1>3, <1>11, <2>2, <2>6
<1> QED BY <1>10, <1>11

\* One window for all days of the week.
LEMMA SameEveryDay ==
  ASSUME NEW w \in Times \X Times, NEW m \in Int
  PROVE  /\ [d \in Weekdays |-> <<w>>] \in WeeksOfWindows
         /\ OpenByTheClock(m, [d \in Weekdays |-> <<w>>], {}) <=>
              \/ w[1] <= m % DayLength /\ (m % DayLength < w[2] \/ w[2] <= w[1])
              \/ w[2] <= w[1] /\ m % DayLength < w[2]
<1> DEFINE week == [d \in Weekdays |-> <<w>>]
<1>1. week \in WeeksOfWindows
  BY DEF WeeksOfWindows
<1>2. ASSUME NEW d \in Int PROVE WindowsOn(d, week, {}) = {w}
  <2>1. week[Weekday(d)] = <<w>>
    BY WeekdayIn
  <2>2. ToSet(<<w>>) = {w}
    BY DEF ToSet
  <2> HIDE DEF week
  <2> QED BY <2>1, <2>2 DEF WindowsOn
<1>3. DayOf(m) \in Int /\ DayOf(m) - 1 \in Int
  BY Clock
<1>4. WindowsOn(DayOf(m), week, {}) = {w} /\ WindowsOn(DayOf(m) - 1, week, {}) = {w}
  BY <1>2, <1>3
<1>5. OpenByTheClock(m, week, {}) <=>
        \/ \E v \in WindowsOn(DayOf(m), week, {}) :
             v[1] <= m % DayLength /\ (m % DayLength < v[2] \/ v[2] <= v[1])
        \/ \E v \in WindowsOn(DayOf(m) - 1, week, {}) : v[2] <= v[1] /\ m % DayLength < v[2]
  BY DEF OpenByTheClock, WindowsOn
<1> HIDE DEF week
<1>6. OpenByTheClock(m, week, {}) <=>
              \/ w[1] <= m % DayLength /\ (m % DayLength < w[2] \/ w[2] <= w[1])
              \/ w[2] <= w[1] /\ m % DayLength < w[2]
  BY <1>4, <1>5
<1> QED BY <1>1, <1>6 DEF week

LEMMA MidnightIn == <<0, 0>> \in Times \X Times
BY DayLengthPos DEF Times

\* A week that was migrated means what the old setting meant.
LEMMA MigratedWeek ==
  ASSUME NEW m \in Int, NEW spec \in {"always"} \union (Times \X Times)
  PROVE  /\ WeeklyFromActiveHours(spec) \in WeeksOfWindows
         /\ IsWithinActiveHours(m, spec) <=> OpenByTheClock(m, WeeklyFromActiveHours(spec), {})
<1> DEFINE t == m % DayLength
<1>1. t \in Int /\ 0 <= t /\ t < DayLength
  BY Clock, DayLengthPos
<1>2. CASE spec = "always" \/ spec[1] = spec[2]
  <2> DEFINE w == <<0, 0>>
  <2>1. WeeklyFromActiveHours(spec) = [d \in Weekdays |-> <<w>>]
    BY <1>2 DEF WeeklyFromActiveHours, AlwaysOpen
  <2>2. IsWithinActiveHours(m, spec)
    BY <1>2 DEF IsWithinActiveHours
  <2>3. w \in Times \X Times /\ w[1] = 0 /\ w[2] = 0
    BY MidnightIn
  <2> HIDE DEF w
  <2>4. w[1] <= t /\ w[2] <= w[1]
    BY <1>1, <2>3
  <2> QED BY <2>1, <2>2, <2>3, <2>4, SameEveryDay
<1>3. CASE spec # "always" /\ spec[1] # spec[2]
  <2>1. WeeklyFromActiveHours(spec) = [d \in Weekdays |-> <<spec>>]
    BY <1>3 DEF WeeklyFromActiveHours
  <2>2. spec \in Times \X Times /\ spec[1] \in Int /\ spec[2] \in Int
    BY <1>3, DayLengthPos DEF Times
  <2>3. IsWithinActiveHours(m, spec) <=>
          \/ spec[1] < spec[2] /\ spec[1] <= t /\ t < spec[2]
          \/ spec[1] > spec[2] /\ (t >= spec[1] \/ t < spec[2])
    BY <1>3 DEF IsWithinActiveHours
  <2>4. IsWithinActiveHours(m, spec) <=>
              \/ spec[1] <= t /\ (t < spec[2] \/ spec[2] <= spec[1])
              \/ spec[2] <= spec[1] /\ t < spec[2]
    <3> HIDE DEF t
    <3> QED BY <1>1, <1>3, <2>2, <2>3
  <2> QED BY <2>1, <2>2, <2>4, SameEveryDay
<1> QED BY <1>2, <1>3

-----------------------------------------------------------------------------
(* The rows of the table, as windows. *)

LEMMA RowIs ==
  ASSUME NEW r \in AcceptedRows
  PROVE  /\ r.is_open \in BOOLEAN
         /\ r.open \in Int /\ r.close \in Int /\ r.bs \in Int /\ r.be \in Int
         /\ r.is_open => 0 <= r.open /\ r.open < r.close /\ r.close < DayLength
BY DayLengthPos DEF AcceptedRows, RowAccepted, Times, NoTime

HasBreak(r) == r.bs # NoTime /\ r.be # NoTime /\ r.open < r.bs /\ r.bs < r.be /\ r.be < r.close

\* No window of a row goes past midnight.
LEMMA WindowsOfRow ==
  ASSUME NEW r \in AcceptedRows
  PROVE  /\ RowWindows(r) \in Seq(Times \X Times)
         /\ \A w \in ToSet(RowWindows(r)) : w[1] < w[2]
         /\ ToSet(RowWindows(r)) =
              IF ~r.is_open THEN {}
              ELSE IF HasBreak(r) THEN {<<r.open, r.bs>>, <<r.be, r.close>>}
              ELSE {<<r.open, r.close>>}
         /\ RowWindows(r) = <<>> <=> ~r.is_open
<1>1. /\ r.is_open \in BOOLEAN
      /\ r.open \in Int /\ r.close \in Int /\ r.bs \in Int /\ r.be \in Int
      /\ r.is_open => 0 <= r.open /\ r.open < r.close /\ r.close < DayLength
  BY RowIs
<1>2. CASE ~r.is_open
  <2>1. RowWindows(r) = <<>>
    BY <1>2 DEF RowWindows
  <2>2. ToSet(<<>>) = {}
    BY DEF ToSet
  <2> QED BY <1>2, <2>1, <2>2
<1>3. CASE r.is_open /\ HasBreak(r)
  <2> DEFINE v == <<r.open, r.bs>>
             w == <<r.be, r.close>>
  <2>1. RowWindows(r) = <<v, w>>
    BY <1>3 DEF RowWindows, HasBreak
  <2>2. v \in Times \X Times /\ w \in Times \X Times
    BY <1>1, <1>3, DayLengthPos DEF Times, HasBreak
  <2>3. v[1] < v[2] /\ w[1] < w[2]
    BY <1>3 DEF HasBreak
  <2> HIDE DEF v, w
  <2>4. ToSet(<<v, w>>) = {v, w} /\ <<v, w>> \in Seq(Times \X Times) /\ <<v, w>> # <<>>
    BY <2>2 DEF ToSet
  <2>5. ToSet(RowWindows(r)) = {v, w}
    BY <2>1, <2>4
  <2> QED BY <1>3, <2>1, <2>3, <2>4, <2>5 DEF v, w
<1>4. CASE r.is_open /\ ~HasBreak(r)
  <2> DEFINE v == <<r.open, r.close>>
  <2>1. RowWindows(r) = <<v>>
    BY <1>4 DEF RowWindows, HasBreak
  <2>2. v \in Times \X Times
    BY <1>1, <1>4, DayLengthPos DEF Times
  <2>3. v[1] < v[2]
    BY <1>1, <1>4
  <2> HIDE DEF v
  <2>4. ToSet(<<v>>) = {v} /\ <<v>> \in Seq(Times \X Times) /\ <<v>> # <<>>
    BY <2>2 DEF ToSet
  <2> QED BY <1>4, <2>1, <2>3, <2>4 DEF v
<1> QED BY <1>1, <1>2, <1>3, <1>4

LEMMA WeeksOfRows ==
  ASSUME NEW given \in [Weekdays -> AcceptedRows]
  PROVE  WeekWindows(given) \in WeeksOfWindows /\ ResolvedWeek(given) \in WeeksOfWindows
<1>1. WeekWindows(given) \in WeeksOfWindows
  BY WindowsOfRow DEF WeekWindows, WeeksOfWindows
<1>2. AlwaysOpen \in WeeksOfWindows
  BY MidnightIn, SameEveryDay, 0 \in Int DEF AlwaysOpen
<1> QED BY <1>1, <1>2 DEF ResolvedWeek, WeekWindows

-----------------------------------------------------------------------------
(* The assistant answers within a week. *)

LEMMA OpensWithinWeek ==
  ASSUME NEW week \in WeeksOfWindows, NEW m \in Int, NEW d \in Weekdays, week[d] # <<>>
  PROVE  \E n \in m..m + WeekLength * DayLength : OpenByTheClock(n, week, {})
<1> DEFINE D == DayOf(m)
           t == m % DayLength
           W == WeekLength
           L == DayLength
<1>1. D \in Int /\ t \in 0..L - 1 /\ m = At(D, 0) + t /\ At(D, 0) \in Int
  BY Clock
<1>2. W \in Nat \ {0} /\ L \in Nat \ {0}
  BY CalendarAssumption, DayLengthPos
<1>3. week[d] \in Seq(Times \X Times)
  BY DEF WeeksOfWindows
<1>4. week[d][1] \in Times \X Times /\ week[d][1] \in ToSet(week[d])
  BY <1>3 DEF ToSet
<1>5. PICK w \in ToSet(week[d]) : w \in Times \X Times
  BY <1>4
<1>6. PICK a \in Times : a = w[1]
  BY <1>5
<1>7. a \in Int /\ 0 <= a /\ a < L /\ w[2] \in Int
  BY <1>2, <1>5, <1>6 DEF Times
<1>8. ASSUME NEW e \in Int, Weekday(e) = d PROVE OpenByTheClock(At(e, a), week, {})
  <2>1. At(e, a) \in Int /\ DayOf(At(e, a)) = e /\ At(e, a) % DayLength = a
    BY ClockIs
  <2>2. w \in WindowsOn(e, week, {})
    BY <1>5, <1>8 DEF WindowsOn
  <2>3. OnTheClock(e, w, At(e, a))
    BY <1>6, <1>7, <2>1 DEF OnTheClock
  <2> QED BY <2>1, <2>2, <2>3, OpenIff
\* The window begins later today, on a day of the week to come, or a week from today.
<1>9. PICK j \in 0..W : Weekday(D + j) = d /\ (j = 0 => t <= a) /\ (j = W => a < t)
  <2>1. PICK k \in 0..W - 1 : Weekday(D + k) = d
    BY <1>1, WeekdayWithin
  <2> HIDE DEF D, t, W
  <2>2. CASE k # 0 \/ t <= a
    <3>1. k \in 0..W /\ k # W
      BY <1>2
    <3> QED BY <2>1, <2>2, <3>1
  <2>3. CASE k = 0 /\ ~(t <= a)
    <3>1. D + k = D
      BY <1>1, <2>3
    <3>2. Weekday(D + W) = d
      BY <1>1, <2>1, <3>1, WeekdayAgain DEF W
    <3>3. a < t /\ W \in 0..W /\ W # 0
      BY <1>1, <1>2, <1>7, <2>3
    <3> QED BY <3>2, <3>3
  <2> QED BY <2>2, <2>3
<1> DEFINE n == At(D + j, a)
           z == At(D, 0)
           q == j * L
           p == W * L
<1>10. j \in Int /\ 0 <= j /\ j <= W /\ W \in Int /\ L \in Int /\ D + j \in Int
  BY <1>1, <1>2
<1>11. q \in Int /\ p \in Int
  BY <1>2, <1>10, Distributes
<1>12. n \in Int /\ n = z + q + a
  <2>1. n = At(D + j, 0) + a /\ At(D + j, 0) \in Int
    BY <1>7, <1>10, AtSum
  <2>2. (D + j) * L = D * L + q /\ D * L \in Int
    <3> HIDE DEF D, L
    <3> QED BY <1>1, <1>2, <1>10, Distributes
  <2>3. At(D + j, 0) = z + q
    <3> DEFINE x == D * L
               y == (D + j) * L
    <3>1. At(D + j, 0) = y + 0 /\ z = x + 0
      BY DEF At
    <3>2. y = x + q /\ x \in Int
      BY <2>2
    <3> HIDE DEF x, y, q, z
    <3> QED BY <1>11, <3>1, <3>2
  <2> DEFINE x == At(D + j, 0)
  <2>4. a \in Int /\ q \in Int /\ z \in Int
    BY <1>1, <1>7, <1>11
  <2>5. n = x + a /\ x = z + q
    BY <2>1, <2>3
  <2> HIDE DEF n, q, z, x
  <2> QED BY <2>4, <2>5
<1>13. j = 0 \/ L <= q
  <2>1. 0 < j => 0 * L + L <= q
    BY <1>2, <1>10, ProductOrder, 0 \in Int
  <2>2. 0 * L + L = L
    BY <1>10
  <2> HIDE DEF q, L
  <2> QED BY <1>10, <2>1, <2>2
<1>14. j = 0 => q = 0
  BY <1>10
<1>15. j = W \/ q + L <= p
  <2>1. j < W => q + L <= p
    BY <1>2, <1>10, ProductOrder
  <2> HIDE DEF q, p, L, W
  <2> QED BY <1>10, <2>1
<1>16. j = W => q = p
  OBVIOUS
<1>17. t \in Int /\ 0 <= t /\ t < L /\ z \in Int /\ m = z + t
  <2> HIDE DEF t, L, z, n, q, p
  <2>1. t \in 0..L - 1 /\ L \in Int
    BY <1>1, <1>10
  <2>2. z \in Int /\ m = z + t
    BY <1>1 DEF z
  <2> QED BY <2>1, <2>2
<1> HIDE DEF n, q, p, z, t, L, W, D
<1>18. a \in Int /\ 0 <= a /\ a < L /\ L \in Int
  BY <1>7, <1>10
<1>19. m <= n /\ n <= m + p
  <2>1. t <= a + q
    <3>1. CASE j = 0
      BY <1>9, <1>11, <1>14, <1>17, <1>18, <3>1
    <3>2. CASE L <= q
      BY <1>11, <1>17, <1>18, <3>2
    <3> QED BY <1>13, <3>1, <3>2
  <2>2. q + a <= t + p
    <3>1. CASE j = W
      BY <1>9, <1>11, <1>16, <1>17, <1>18, <3>1
    <3>2. CASE q + L <= p
      BY <1>11, <1>17, <1>18, <3>2
    <3> QED BY <1>15, <3>1, <3>2
  <2>3. n = z + q + a /\ m = z + t
    BY <1>12, <1>17
  <2> QED BY <1>11, <1>17, <1>18, <2>1, <2>2, <2>3
<1>20. OpenByTheClock(n, week, {})
  BY <1>8, <1>9, <1>10 DEF n
<1>21. n \in m..m + p
  BY <1>11, <1>12, <1>19
<1> QED BY <1>20, <1>21 DEF p, W, L

LEMMA NeverSilencedBy ==
  ASSUME NEW given \in [Weekdays -> AcceptedRows], NEW m \in Int
  PROVE  \E n \in m..m + WeekLength * DayLength : OpenByTheClock(n, ResolvedWeek(given), {})
<1> DEFINE week == ResolvedWeek(given)
<1>1. week \in WeeksOfWindows
  BY WeeksOfRows
<1>2. \E d \in Weekdays : week[d] # <<>>
  <2>1. CASE week = AlwaysOpen
    <3>1. 0 \in Weekdays
      BY CalendarAssumption DEF Weekdays
    <3>2. AlwaysOpen[0] # <<>>
      BY <3>1 DEF AlwaysOpen
    <3> QED BY <2>1, <3>1, <3>2
  <2>2. CASE week # AlwaysOpen
    <3>1. \E d \in Weekdays : RowWindows(given[d]) # <<>>
      BY <2>2 DEF ResolvedWeek
    <3> QED BY <2>2, <3>1 DEF ResolvedWeek
  <2> QED BY <2>1, <2>2
<1> HIDE DEF week
<1>3. \E n \in m..m + WeekLength * DayLength : OpenByTheClock(n, week, {})
  BY <1>1, <1>2, OpensWithinWeek
<1> QED BY <1>3 DEF week

\* Hours, counted from the beginning: hour x is hour x % DayHours of the day x \div DayHours.
LEMMA HourLengths ==
  /\ HourLength \in Nat \ {0} /\ DayHours \in Nat \ {0} /\ DayLength = DayHours * HourLength
BY CalendarAssumption DEF DayLength

LEMMA HourSplit ==
  ASSUME NEW x \in Int
  PROVE  /\ x \div DayHours \in Int /\ x % DayHours \in 0..DayHours - 1
         /\ x = (x \div DayHours) * DayHours + (x % DayHours)
         /\ x * HourLength \in Int
         /\ DayOf(x * HourLength) = x \div DayHours
         /\ (x * HourLength) % DayLength = (x % DayHours) * HourLength
         /\ (x % DayHours) * HourLength + HourLength <= DayLength
         /\ (x % DayHours) * HourLength \in Times
<1> DEFINE H == HourLength
           K == DayHours
           d == x \div K
           k == x % K
<1>1. H \in Nat \ {0} /\ K \in Nat \ {0} /\ DayLength = K * H
  BY HourLengths
<1>2. d \in Int /\ k \in 0..K - 1 /\ x = d * K + k
  BY <1>1, DivMod
<1>3. k \in Int /\ K \in Int /\ k < K /\ 0 <= k
  BY <1>1, <1>2
<1> HIDE DEF d, k, H, K
<1>4. k * H + H <= K * H
  BY <1>1, <1>3, ProductOrder
<1>5. k * H \in Nat /\ K * H \in Nat /\ x * H \in Int
  BY <1>1, <1>2, <1>3
<1>6. k * H < K * H
  BY <1>1, <1>4, <1>5
<1>7. k * H \in Times
  BY <1>1, <1>5, <1>6 DEF Times
<1>8. x * H = d * (K * H) + k * H
  BY <1>1, <1>2, <1>3
<1>9. x * H = At(d, k * H)
  BY <1>1, <1>8 DEF At
<1>10. DayOf(x * H) = d /\ (x * H) % DayLength = k * H
  BY <1>2, <1>7, <1>9, ClockIs
<1> QED BY <1>1, <1>2, <1>4, <1>5, <1>7, <1>10 DEF d, k, H, K

\* The day of a moment is that of its hour.
LEMMA HourOfMoment ==
  ASSUME NEW m \in Int
  PROVE  /\ m \div HourLength \in Int
         /\ (m \div HourLength) * HourLength <= m
         /\ m < (m \div HourLength) * HourLength + HourLength
         /\ DayOf(m) = (m \div HourLength) \div DayHours
<1> DEFINE x == m \div HourLength
           r == m % HourLength
           d == x \div DayHours
           p == (x % DayHours) * HourLength
<1>1. x \in Int /\ r \in 0..HourLength - 1 /\ m = x * HourLength + r /\ HourLength \in Nat \ {0}
  BY HourLengths, DivMod
<1> HIDE DEF x, r
<1>2. /\ d \in Int /\ x * HourLength \in Int /\ DayOf(x * HourLength) = d
      /\ (x * HourLength) % DayLength = p /\ p + HourLength <= DayLength /\ p \in Times
  BY <1>1, HourSplit
<1> HIDE DEF d, p
<1>3. x * HourLength = At(d, 0) + p /\ At(d, 0) \in Int
  BY <1>2, Clock
<1>4. p \in Int /\ 0 <= p /\ DayLength \in Int
  BY <1>2, DayLengthPos DEF Times
<1>5. p + r \in Times /\ p + r \in Int
  BY <1>1, <1>2, <1>4, DayLengthPos DEF Times
<1>6. m = At(d, p + r)
  <2>1. At(d, p + r) = At(d, 0) + (p + r)
    BY <1>2, <1>5, AtSum
  <2>2. m = At(d, 0) + p + r /\ r \in Int
    BY <1>1, <1>3
  <2> QED BY <2>1, <2>2, <1>3, <1>4
<1>7. DayOf(m) = d
  BY <1>2, <1>5, <1>6, ClockIs
<1>8. x * HourLength <= m /\ m < x * HourLength + HourLength
  BY <1>1, <1>2
<1> QED BY <1>1, <1>7, <1>8 DEF x, d

LEMMA HourOrder ==
  ASSUME NEW x \in Int, NEW y \in Int
  PROVE  x * HourLength <= y * HourLength <=> x <= y
<1>1. /\ HourLength \in Nat \ {0} /\ x * HourLength \in Int /\ y * HourLength \in Int
  BY HourLengths
<1>2. CASE x < y
  BY <1>1, <1>2, ProductOrder
<1>3. CASE x = y
  BY <1>1, <1>3
<1>4. CASE y < x
  BY <1>1, <1>4, ProductOrder
<1> QED BY <1>2, <1>3, <1>4

\* Times on the hour.
LEMMA OnTheHour ==
  ASSUME NEW t \in Int, t % HourLength = 0
  PROVE  HourOf(t) \in Int /\ t = HourOf(t) * HourLength
<1>1. HourLength \in Nat \ {0}
  BY HourLengths
<1>2. t \div HourLength \in Int /\ t = (t \div HourLength) * HourLength + 0
  BY <1>1, DivMod
<1>3. (t \div HourLength) * HourLength \in Int
  BY <1>1, <1>2
<1>4. t = (t \div HourLength) * HourLength
  <2> DEFINE p == (t \div HourLength) * HourLength
  <2> HIDE DEF p
  <2>1. p \in Int /\ t = p + 0
    BY <1>2, <1>3 DEF p
  <2>2. t = p
    BY <2>1
  <2> QED BY <2>2 DEF p
<1> QED BY <1>2, <1>4 DEF HourOf

-----------------------------------------------------------------------------
(* A row with hours on the hour. *)

FullHours(r) ==
  r.is_open =>
    /\ \A t \in {r.open, r.close} : t % HourLength = 0
    /\ \/ NoTime \in {r.bs, r.be}
       \/ /\ r.open < r.bs /\ r.bs < r.be /\ r.be < r.close
          /\ r.bs % HourLength = 0 /\ r.be % HourLength = 0

InBreak(r, k) == r.bs # NoTime /\ r.be # NoTime /\ HourOf(r.bs) <= k /\ k < HourOf(r.be)
HourOn(r, k) == r.is_open /\ HourOf(r.open) <= k /\ k < HourOf(r.close) /\ ~InBreak(r, k)

LEMMA HoursOfRow ==
  ASSUME NEW r \in AcceptedRows, FullHours(r), r.is_open
  PROVE  /\ HourOf(r.open) \in Nat /\ HourOf(r.close) \in Int
         /\ r.open = HourOf(r.open) * HourLength /\ r.close = HourOf(r.close) * HourLength
         /\ HourOf(r.open) < HourOf(r.close) /\ HourOf(r.close) < DayHours
         /\ HasBreak(r) <=> r.bs # NoTime /\ r.be # NoTime
         /\ HasBreak(r) =>
              /\ HourOf(r.bs) \in Int /\ HourOf(r.be) \in Int
              /\ r.bs = HourOf(r.bs) * HourLength /\ r.be = HourOf(r.be) * HourLength
              /\ HourOf(r.open) < HourOf(r.bs) /\ HourOf(r.bs) < HourOf(r.be)
              /\ HourOf(r.be) < HourOf(r.close)
<1>1. /\ r.open \in Int /\ r.close \in Int /\ r.bs \in Int /\ r.be \in Int
      /\ 0 <= r.open /\ r.open < r.close /\ r.close < DayLength
  BY RowIs
<1>2. r.open % HourLength = 0 /\ r.close % HourLength = 0
  BY DEF FullHours
<1>3. /\ HourOf(r.open) \in Int /\ HourOf(r.close) \in Int
      /\ r.open = HourOf(r.open) * HourLength /\ r.close = HourOf(r.close) * HourLength
  BY <1>1, <1>2, OnTheHour
<1>4. ASSUME NEW x \in Int, NEW y \in Int, x * HourLength < y * HourLength PROVE x < y
  <2>1. x * HourLength \in Int /\ y * HourLength \in Int
    BY HourLengths
  <2>2. ~(y * HourLength <= x * HourLength)
    BY <1>4, <2>1
  <2>3. ~(y <= x)
    BY <2>2, HourOrder
  <2> QED BY <2>3
<1>5. HourOf(r.open) < HourOf(r.close)
  BY <1>1, <1>3, <1>4
<1>6. HourOf(r.close) < DayHours
  BY <1>1, <1>3, <1>4, HourLengths
<1>7. HourOf(r.open) \in Nat
  <2>1. 0 * HourLength = 0
    BY HourLengths
  <2>2. 0 * HourLength <= HourOf(r.open) * HourLength
    BY <1>1, <1>3, <2>1
  <2>3. 0 <= HourOf(r.open)
    BY <1>3, <2>2, HourOrder
  <2> QED BY <1>3, <2>3
<1>8. HasBreak(r) <=> r.bs # NoTime /\ r.be # NoTime
  BY DEF HasBreak, FullHours
<1>9. ASSUME HasBreak(r)
      PROVE  /\ HourOf(r.bs) \in Int /\ HourOf(r.be) \in Int
              /\ r.bs = HourOf(r.bs) * HourLength /\ r.be = HourOf(r.be) * HourLength
              /\ HourOf(r.open) < HourOf(r.bs) /\ HourOf(r.bs) < HourOf(r.be)
              /\ HourOf(r.be) < HourOf(r.close)
  <2>1. r.open < r.bs /\ r.bs < r.be /\ r.be < r.close
    BY <1>9 DEF HasBreak
  <2>2. r.bs % HourLength = 0 /\ r.be % HourLength = 0
    BY <1>9 DEF HasBreak, FullHours
  <2>3. /\ HourOf(r.bs) \in Int /\ HourOf(r.be) \in Int
        /\ r.bs = HourOf(r.bs) * HourLength /\ r.be = HourOf(r.be) * HourLength
    BY <1>1, <2>2, OnTheHour
  <2>4. HourOf(r.open) < HourOf(r.bs)
    BY <1>3, <1>4, <2>1, <2>3
  <2>5. HourOf(r.bs) < HourOf(r.be)
    BY <1>4, <2>1, <2>3
  <2>6. HourOf(r.be) < HourOf(r.close)
    BY <1>3, <1>4, <2>1, <2>3
  <2> QED BY <2>3, <2>4, <2>5, <2>6
<1> QED BY <1>3, <1>5, <1>6, <1>7, <1>8, <1>9

\* The first hour of a day from h on, if there is one.
LEMMA HourInDayIs ==
  ASSUME NEW r \in AcceptedRows, FullHours(r), NEW h \in Nat
  PROVE  \/ HourInDay(r, h) = Never /\ \A k \in Nat : h <= k => ~HourOn(r, k)
         \/ /\ HourInDay(r, h) \in Nat /\ h <= HourInDay(r, h) /\ HourInDay(r, h) < DayHours
            /\ HourOn(r, HourInDay(r, h))
            /\ \A k \in Nat : h <= k /\ HourOn(r, k) => HourInDay(r, h) <= k
<1> DEFINE o == HourOf(r.open)
           c == HourOf(r.close)
           s == HourOf(r.bs)
           e == HourOf(r.be)
           from == IF h < o THEN o ELSE h
           past == IF HasBreak(r) /\ s <= from /\ from < e THEN e ELSE from
<1>1. CASE ~r.is_open
  BY <1>1 DEF HourInDay, HourOn
<1>2. CASE r.is_open
  <2>1. /\ o \in Nat /\ c \in Int /\ o < c /\ c < DayHours /\ DayHours \in Int
        /\ HasBreak(r) <=> r.bs # NoTime /\ r.be # NoTime
        /\ HasBreak(r) => s \in Int /\ e \in Int /\ o < s /\ s < e /\ e < c
    BY <1>2, HoursOfRow, HourLengths
  <2>2. HourInDay(r, h) = IF past >= c THEN Never ELSE past
    BY <1>2, <2>1 DEF HourInDay
  <2>3. ASSUME NEW k \in Nat
        PROVE  HourOn(r, k) <=> o <= k /\ k < c /\ ~(HasBreak(r) /\ s <= k /\ k < e)
    BY <1>2, <2>1 DEF HourOn, InBreak
  <2> HIDE DEF o, c, s, e
  <2>4. past \in Nat /\ h <= past
    BY <2>1
  <2>5. ASSUME NEW k \in Nat, h <= k, HourOn(r, k) PROVE past <= k
    BY <2>1, <2>3, <2>5
  <2>6. past < c => HourOn(r, past)
    <3>1. o <= past /\ ~(HasBreak(r) /\ s <= past /\ past < e)
      BY <2>1
    <3> HIDE DEF past
    <3> QED BY <2>3, <2>4, <3>1
  <2> HIDE DEF past
  <2>7. CASE past >= c
    <3>1. ASSUME NEW k \in Nat, h <= k PROVE ~HourOn(r, k)
      BY <2>1, <2>3, <2>4, <2>5, <2>7, <3>1
    <3> QED BY <2>2, <2>7, <3>1
  <2>8. CASE ~(past >= c)
    <3>1. past < c /\ past < DayHours
      BY <2>1, <2>4, <2>8
    <3> QED BY <2>2, <2>4, <2>5, <2>6, <2>8, <3>1
  <2> QED BY <2>7, <2>8
<1> QED BY <1>1, <1>2, RowIs

LEMMA HourIsOpen ==
  ASSUME NEW given \in [Weekdays -> AcceptedRows], InHours(given), NEW x \in Int
  PROVE  OpenByTheClock(x * HourLength, WeekWindows(given), {}) <=>
           HourOn(given[Weekday(x \div DayHours)], x % DayHours)
<1> DEFINE n == x * HourLength
           d == x \div DayHours
           k == x % DayHours
           t == k * HourLength
           r == given[Weekday(d)]
           week == WeekWindows(given)
<1>1. /\ d \in Int /\ k \in Int /\ n \in Int /\ DayOf(n) = d /\ n % DayLength = t /\ t \in Int
  <2>1. k \in 0..DayHours - 1 /\ DayHours \in Int
    BY HourSplit, HourLengths
  <2>2. d \in Int /\ n \in Int /\ DayOf(n) = d /\ n % DayLength = t
    BY HourSplit
  <2>3. k \in Int
    BY <2>1
  <2> HIDE DEF k
  <2>4. t \in Int
    BY <2>3, HourLengths
  <2> QED BY <2>2, <2>3, <2>4
<1>2. week \in WeeksOfWindows
  BY WeeksOfRows
<1>3. ASSUME NEW e \in Int
      PROVE  /\ given[Weekday(e)] \in AcceptedRows
             /\ WindowsOn(e, week, {}) = ToSet(RowWindows(given[Weekday(e)]))
             /\ \A w \in WindowsOn(e, week, {}) : w \in Times \X Times /\ w[1] < w[2]
  <2>1. Weekday(e) \in Weekdays
    BY WeekdayIn
  <2>2. given[Weekday(e)] \in AcceptedRows
    BY <2>1
  <2>3. WindowsOn(e, week, {}) = ToSet(RowWindows(given[Weekday(e)]))
    BY <2>1 DEF WindowsOn, WeekWindows
  <2>4. WindowsOn(e, week, {}) \subseteq Times \X Times
    BY <1>2, WindowsAre
  <2> QED BY <2>2, <2>3, <2>4, WindowsOfRow
<1>4. OpenByTheClock(n, week, {}) <=> \E w \in ToSet(RowWindows(r)) : w[1] <= t /\ t < w[2]
  <2>1. ASSUME NEW e \in Int, NEW w \in WindowsOn(e, week, {})
        PROVE  OnTheClock(e, w, n) <=> e = d /\ w[1] <= t /\ t < w[2]
    <3>1. w[1] \in Int /\ w[2] \in Int /\ w[1] < w[2]
      BY <1>3, DayLengthPos DEF Times
    <3> HIDE DEF n, t, d
    <3> QED BY <1>1, <3>1 DEF OnTheClock
  <2> HIDE DEF n, t, d, week
  <2>2. OpenByTheClock(n, week, {}) <=> \E w \in WindowsOn(d, week, {}) : w[1] <= t /\ t < w[2]
    BY <1>1, <1>2, <2>1, OpenIff
  <2> QED BY <1>1, <1>3, <2>2
<1>5. r \in AcceptedRows /\ FullHours(r)
  BY <1>1, <1>3, WeekdayIn DEF InHours, FullHours
<1> HIDE DEF r
<1>6. CASE ~r.is_open
  BY <1>4, <1>5, <1>6, WindowsOfRow DEF HourOn, r
<1>7. ASSUME r.is_open PROVE OpenByTheClock(n, week, {}) <=> HourOn(r, k)
  <2> DEFINE o == HourOf(r.open)
             c == HourOf(r.close)
             s == HourOf(r.bs)
             e == HourOf(r.be)
  <2>1. /\ o \in Int /\ c \in Int
        /\ r.open = o * HourLength /\ r.close = c * HourLength /\ o < c
        /\ HasBreak(r) <=> r.bs # NoTime /\ r.be # NoTime
        /\ HasBreak(r) => /\ s \in Int /\ e \in Int /\ o < s /\ s < e /\ e < c
                          /\ r.bs = s * HourLength /\ r.be = e * HourLength
    BY <1>5, <1>7, HoursOfRow
  <2>2. HourOn(r, k) <=> o <= k /\ k < c /\ ~(HasBreak(r) /\ s <= k /\ k < e)
    BY <1>7, <2>1 DEF HourOn, InBreak
  <2>3. ASSUME NEW y \in Int
        PROVE  /\ y * HourLength <= t <=> y <= k
               /\ t < y * HourLength <=> k < y
    <3>1. y * HourLength <= t <=> y <= k
      BY <1>1, HourOrder
    <3>2. y * HourLength \in Int
      BY HourLengths
    <3> HIDE DEF t, k
    <3> QED BY <1>1, <3>1, <3>2
  <2> HIDE DEF o, c, s, e, t, k, n, week
  <2>4. CASE HasBreak(r)
    <3>1. ToSet(RowWindows(r)) = {<<r.open, r.bs>>, <<r.be, r.close>>}
      BY <1>5, <1>7, <2>4, WindowsOfRow
    <3>2. OpenByTheClock(n, week, {}) <=> \/ r.open <= t /\ t < r.bs
                                          \/ r.be <= t /\ t < r.close
      BY <1>4, <3>1 DEF r
    <3>3. OpenByTheClock(n, week, {}) <=> (o <= k /\ k < s) \/ (e <= k /\ k < c)
      BY <2>1, <2>3, <2>4, <3>2
    <3> QED BY <1>1, <2>1, <2>2, <2>4, <3>3
  <2>5. CASE ~HasBreak(r)
    <3>1. ToSet(RowWindows(r)) = {<<r.open, r.close>>}
      BY <1>5, <1>7, <2>5, WindowsOfRow
    <3>2. OpenByTheClock(n, week, {}) <=> r.open <= t /\ t < r.close
      BY <1>4, <3>1 DEF r
    <3>3. OpenByTheClock(n, week, {}) <=> o <= k /\ k < c
      BY <2>1, <2>3, <3>2
    <3> QED BY <2>2, <2>5, <3>3
  <2> QED BY <2>4, <2>5
<1> QED BY <1>5, <1>6, <1>7, RowIs DEF r

\* The search of the agenda finds the first full hour at which the clock says open.
LEMMA NextBusinessHourIsExact ==
  ASSUME NEW given \in [Weekdays -> AcceptedRows], InHours(given), NEW m \in Nat
  PROVE  NextBusinessHour(m, given) = FirstHour(m, given)
<1> DEFINE H == HourLength
           K == DayHours
           x0 == m \div H + 1
           D == x0 \div K
           h0 == x0 % K
           d0 == DayOf(m)
           hour(n) == HourInDay(given[Weekday(D + n)], IF n = 0 THEN h0 ELSE 0)
           days == {n \in 0..SearchDays - 1 : hour(n) # Never}
           Open(h) == OpenByTheClock(h, WeekWindows(given), {})
           On(x) == HourOn(given[Weekday(x \div K)], x % K)
           last == At(d0 + SearchDays, 0) - 1
           open == {h \in {h \in m + 1..last : h % H = 0} : Open(h)}
           n0 == Min(days)
           best == At(D + n0, hour(n0) * H)
<1>1. NextBusinessHour(m, given) = IF days = {} THEN Never ELSE best
  BY DEF NextBusinessHour
<1>2. FirstHour(m, given) = IF open = {} THEN Never ELSE Min(open)
  BY DEF FirstHour
<1>3. H \in Nat \ {0} /\ K \in Nat \ {0} /\ SearchDays \in Nat /\ WeekLength \in Nat \ {0} /\ SearchDays > WeekLength
  BY CalendarAssumption
<1>4. /\ x0 \in Int /\ D \in Int /\ h0 \in 0..K - 1 /\ x0 = D * K + h0 /\ d0 \in Int
      /\ (x0 - 1) * H <= m /\ m < x0 * H
      /\ d0 = (x0 - 1) \div K
  <2> DEFINE y == m \div H
  <2>1. y \in Int /\ y * H <= m /\ m < y * H + H /\ d0 = y \div K /\ d0 \in Int
    BY HourOfMoment, Clock
  <2>2. x0 = y + 1
    OBVIOUS
  <2> HIDE DEF y, d0
  <2>3. x0 \in Int /\ y = x0 - 1
    BY <2>1, <2>2
  <2>4. (y + 1) * H = y * H + H /\ y * H \in Int
    BY <2>1, <1>3
  <2>5. (x0 - 1) * H <= m /\ m < x0 * H
    BY <2>1, <2>2, <2>3, <2>4
  <2> HIDE DEF x0
  <2>6. D \in Int /\ h0 \in 0..K - 1 /\ x0 = D * K + h0
    BY <2>3, HourSplit
  <2> QED BY <2>1, <2>3, <2>5, <2>6
<1> HIDE DEF x0
\* The day of the first hour is today, or tomorrow if this is the day's last.
<1>5. d0 <= D /\ D <= d0 + 1 /\ (D = d0 + 1 => h0 = 0)
  <2> DEFINE e == (x0 - 1) % K
  <2>1. e \in 0..K - 1 /\ x0 - 1 = d0 * K + e
    <3>1. PICK y \in Int : y = x0 - 1
      BY <1>4
    <3>2. y % K \in 0..K - 1 /\ y = (y \div K) * K + (y % K)
      BY <3>1, HourSplit
    <3> HIDE DEF d0
    <3> QED BY <1>4, <3>1, <3>2
  <2>2. CASE e < K - 1
    <3>1. x0 = d0 * K + (e + 1) /\ e + 1 \in 0..K - 1
      <4> HIDE DEF e, d0
      <4>1. d0 * K \in Int
        BY <1>3, <1>4
      <4> QED BY <1>3, <1>4, <2>1, <2>2, <4>1
    <3>2. D = d0
      <4> HIDE DEF e, d0
      <4>1. (d0 * K + (e + 1)) \div K = d0
        BY <1>3, <1>4, <3>1, DivIs
      <4> QED BY <3>1, <4>1
    <3> HIDE DEF d0, D
    <3> QED BY <1>4, <3>2
  <2>3. CASE e = K - 1
    <3>1. PICK p \in Int : p = d0 + 1
      BY <1>4
    <3>2. p * K = d0 * K + K /\ d0 * K \in Int /\ p * K \in Int
      <4> HIDE DEF d0
      <4>1. (d0 + 1) * K = d0 * K + 1 * K /\ d0 * K \in Int
        BY <1>3, <1>4, Distributes, 1 \in Int
      <4>2. 1 * K = K
        BY <1>3
      <4> QED BY <1>3, <3>1, <4>1, <4>2
    <3>3. x0 = p * K
      <4> DEFINE P == p * K
                 Q == d0 * K
      <4>1. P \in Int /\ Q \in Int /\ P = Q + K /\ x0 - 1 = Q + e
        BY <2>1, <3>2
      <4> HIDE DEF P, Q, e, d0
      <4>2. x0 = P
        BY <1>3, <1>4, <2>3, <4>1
      <4> QED BY <4>2 DEF P
    <3>4. D = p /\ h0 = 0
      <4> DEFINE y == p * K
      <4>1. y \div K = p /\ y % K = 0
        BY <1>3, <3>1, DivExact
      <4>2. x0 = y
        BY <3>3
      <4> HIDE DEF y
      <4> QED BY <4>1, <4>2
    <3> HIDE DEF d0, D, h0
    <3> QED BY <1>4, <3>1, <3>4
  <2> HIDE DEF e
  <2> QED BY <1>3, <2>1, <2>2, <2>3
<1>6. ASSUME NEW n \in Nat
      PROVE  \/ /\ hour(n) = Never
                /\ \A x \in Int : x0 <= x /\ x \div K = D + n => ~On(x)
             \/ /\ hour(n) \in Nat /\ hour(n) < K
                /\ \E x \in Int : /\ x \div K = D + n /\ x % K = hour(n) /\ x0 <= x /\ On(x)
                                  /\ x * H = At(D + n, hour(n) * H)
                /\ \A x \in Int : x0 <= x /\ x \div K = D + n /\ On(x) => hour(n) <= x % K
  <2> DEFINE h == IF n = 0 THEN h0 ELSE 0
             r == given[Weekday(D + n)]
             d == D + n
  <2>1. h \in Nat /\ h \in Int /\ d \in Int
    BY <1>3, <1>4
  <2>2. r \in AcceptedRows
    BY <2>1, WeekdayIn
  <2>3. FullHours(r)
    BY <2>1, WeekdayIn DEF InHours, FullHours
  <2>4. ASSUME NEW x \in Int, x \div K = d
        PROVE  /\ x % K \in Nat /\ x = d * K + (x % K) /\ (x0 <= x => h <= x % K)
               /\ On(x) <=> HourOn(r, x % K)
    <3>1. x % K \in 0..K - 1 /\ x = d * K + (x % K)
      BY <2>4, HourSplit
    <3>2. x0 <= x => h <= x % K
      <4>1. CASE n = 0
        <5>1. x0 = d * K + h0 /\ h = h0 /\ d * K \in Int /\ h0 \in Int /\ x % K \in Int
          BY <1>3, <1>4, <3>1, <4>1
        <5> DEFINE q == x % K
                   p == d * K
        <5>2. x0 = p + h0 /\ x = p + q /\ p \in Int /\ q \in Int /\ h0 \in Int
          BY <3>1, <5>1
        <5> HIDE DEF p, q, h0
        <5>3. x0 <= x => h0 <= q
          BY <5>2
        <5> QED BY <5>1, <5>3 DEF q
      <4>2. CASE n # 0
        BY <1>3, <3>1, <4>2
      <4> QED BY <4>1, <4>2
    <3>3. On(x) <=> HourOn(r, x % K)
      BY <2>4
    <3> QED BY <1>3, <3>1, <3>2, <3>3
  <2>5. hour(n) = HourInDay(r, h)
    OBVIOUS
  <2> HIDE DEF h, r, d, D, On, hour
  <2>6. \/ HourInDay(r, h) = Never /\ \A k \in Nat : h <= k => ~HourOn(r, k)
        \/ /\ HourInDay(r, h) \in Nat /\ h <= HourInDay(r, h) /\ HourInDay(r, h) < K
           /\ HourOn(r, HourInDay(r, h))
           /\ \A k \in Nat : h <= k /\ HourOn(r, k) => HourInDay(r, h) <= k
    BY <2>1, <2>2, <2>3, HourInDayIs
  <2>7. CASE HourInDay(r, h) = Never /\ \A k \in Nat : h <= k => ~HourOn(r, k)
    <3>1. ASSUME NEW x \in Int, x0 <= x, x \div K = D + n PROVE ~On(x)
      BY <2>4, <2>7, <3>1 DEF d
    <3> QED BY <2>5, <2>7, <3>1
  <2>8. CASE /\ HourInDay(r, h) \in Nat /\ h <= HourInDay(r, h) /\ HourInDay(r, h) < K
             /\ HourOn(r, HourInDay(r, h))
             /\ \A k \in Nat : h <= k /\ HourOn(r, k) => HourInDay(r, h) <= k
    <3> DEFINE k == hour(n)
               x == d * K + k
    <3>1. k \in Nat /\ k \in 0..K - 1 /\ h <= k /\ HourOn(r, k) /\ k < K
      BY <1>3, <2>5, <2>8
    <3>2. x \in Int /\ d * K \in Int
      <4> HIDE DEF k
      <4> QED BY <1>3, <2>1, <3>1
    <3>3. x \div K = d /\ x % K = k
      <4> HIDE DEF k
      <4> QED BY <1>3, <2>1, <3>1, DivIs
    <3>4. x0 <= x
      <4>1. CASE n = 0
        <5>1. d = D /\ h = h0
          BY <1>4, <4>1 DEF d, h
        <5>2. x0 = d * K + h0 /\ h0 <= k /\ h0 \in Int
          BY <1>3, <1>4, <3>1, <5>1
        <5> DEFINE p == d * K
        <5> HIDE DEF p, h0, k
        <5>3. x0 = p + h0 /\ x = p + k /\ p \in Int /\ k \in Int
          BY <3>1, <3>2, <5>2 DEF p
        <5> QED BY <5>2, <5>3
      <4>2. CASE n # 0
        <5>1. D < d /\ D \in Int /\ d \in Int
          BY <1>4, <4>2, <2>1 DEF d
        <5>2. D * K + K <= d * K
          BY <1>3, <5>1, ProductOrder
        <5> DEFINE p == d * K
                   q == D * K
        <5>3. /\ p \in Int /\ q \in Int /\ q + K <= p /\ x0 = q + h0 /\ x = p + k
              /\ h0 \in Int /\ h0 < K /\ k \in Nat
          BY <1>3, <1>4, <3>1, <3>2, <5>1, <5>2
        <5> HIDE DEF p, q, h0, k, x
        <5> QED BY <1>3, <5>3
      <4> QED BY <4>1, <4>2
    <3>5. On(x)
      <4> HIDE DEF x
      <4> QED BY <2>4, <3>1, <3>2, <3>3
    <3>6. x * H = At(D + n, hour(n) * H)
      <4>1. DayOf(x * H) = d /\ (x * H) % DayLength = k * H /\ x * H \in Int /\ k * H \in Times
        <5> HIDE DEF x, k
        <5> QED BY <3>2, <3>3, HourSplit
      <4>2. x * H = At(d, 0) + k * H
        <5> HIDE DEF x, k
        <5> QED BY <4>1, Clock
      <4>3. At(d, k * H) = At(d, 0) + k * H
        <5>1. k * H \in Int
          BY <4>1, DayLengthPos DEF Times
        <5> HIDE DEF k
        <5> QED BY <2>1, <5>1, AtSum
      <4> QED BY <4>2, <4>3 DEF d
    <3>7. ASSUME NEW y \in Int, x0 <= y, y \div K = D + n, On(y) PROVE hour(n) <= y % K
      BY <2>4, <2>5, <2>8, <3>7 DEF d
    <3>8. x \div K = D + n
      BY <3>3 DEF d
    <3> HIDE DEF x, k
    <3>9. \E z \in Int : /\ z \div K = D + n /\ z % K = hour(n) /\ x0 <= z /\ On(z)
                         /\ z * H = At(D + n, hour(n) * H)
      BY <3>2, <3>3, <3>4, <3>5, <3>6, <3>8 DEF k
    <3> QED BY <3>1, <3>7, <3>9 DEF k
  <2> QED BY <2>6, <2>7, <2>8
\* Every full hour of the search is hour x \div K of a day that the agenda looks at.
<1>7. ASSUME NEW h \in open
      PROVE  \E x \in Int : /\ h = x * H /\ x0 <= x /\ On(x)
                            /\ x \div K \in Int /\ D <= x \div K /\ x \div K < d0 + SearchDays
  <2>1. last \in Int
    BY <1>3, <1>4, AtSum
  <2>2. h \in Int /\ m < h /\ h <= last /\ h % H = 0 /\ Open(h)
    BY <2>1
  <2>3. PICK x \in Int : h = x * H
    BY <2>2, OnTheHour
  <2>4. On(x)
    BY <2>2, <2>3, HourIsOpen
  <2>5. x0 <= x
    <3>1. ~(x <= x0 - 1)
      <4>1. x <= x0 - 1 => x * H <= (x0 - 1) * H
        BY <1>4, HourOrder
      <4>2. (x0 - 1) * H \in Int /\ x * H \in Int
        BY <1>3, <1>4
      <4> QED BY <1>4, <2>2, <2>3, <4>1, <4>2
    <3> QED BY <1>4, <3>1
  <2>6. DayOf(h) = x \div K /\ x \div K \in Int
    BY <2>3, HourSplit
  <2>7. x \div K < d0 + SearchDays
    <3>1. d0 + SearchDays \in Int /\ At(d0 + SearchDays, 0) \in Int
      BY <1>3, <1>4, AtSum
    <3>2. ~(At(d0 + SearchDays, 0) <= h)
      BY <2>2, <3>1
    <3>3. ~(d0 + SearchDays <= DayOf(h))
      BY <2>2, <3>1, <3>2, DayBounds
    <3> QED BY <2>6, <3>1, <3>3
  <2>8. D <= x \div K
    <3>1. x0 * H <= x * H /\ x0 * H \in Int /\ DayOf(x0 * H) = D
      BY <1>4, <2>5, HourOrder, HourSplit
    <3>2. At(D, 0) <= x0 * H /\ At(D, 0) \in Int
      BY <1>4, <3>1, DayBounds, AtSum
    <3>3. At(D, 0) <= h
      BY <2>2, <2>3, <3>1, <3>2
    <3> QED BY <1>4, <2>2, <2>6, <3>3, DayBounds
  <2> QED BY <2>3, <2>4, <2>5, <2>6, <2>7, <2>8
<1> HIDE DEF D, d0, h0, On, hour, Open, last
<1>8. CASE days = {}
  <2>1. open = {}
    <3> SUFFICES ASSUME NEW h \in open PROVE FALSE
      OBVIOUS
    <3>1. PICK x \in Int : /\ x0 <= x /\ On(x) /\ x \div K \in Int
                           /\ D <= x \div K /\ x \div K < d0 + SearchDays
      BY <1>7
    <3>2. PICK n \in 0..SearchDays - 1 : x \div K = D + n
      <4> DEFINE n == (x \div K) - D
      <4>1. n \in 0..SearchDays - 1
        BY <1>3, <1>4, <1>5, <3>1
      <4>2. x \div K = D + n
        BY <1>4, <3>1
      <4> QED BY <4>1, <4>2
    <3>3. hour(n) = Never
      BY <1>8
    <3> QED BY <1>3, <1>6, <3>1, <3>2, <3>3 DEF Never
  <2> QED BY <1>1, <1>2, <1>8, <2>1
<1>9. CASE days # {}
  <2>1. n0 \in days /\ \A n \in days : n0 <= n
    <3>1. days \in SUBSET Int /\ \A n \in days : 0 <= n
      BY <1>3
    <3> HIDE DEF days
    <3> QED BY <1>9, <3>1, LeastAbove, 0 \in Int
  <2>2. n0 \in 0..SearchDays - 1 /\ n0 \in Nat /\ hour(n0) # Never
    <3> HIDE DEF n0
    <3> QED BY <1>3, <2>1
  <2>3. ASSUME NEW n \in Nat, n < n0 PROVE hour(n) = Never
    <3>1. n \in 0..SearchDays - 1
      <4> HIDE DEF n0, days
      <4> QED BY <1>3, <2>2, <2>3
    <3>2. n \notin days
      <4> HIDE DEF n0, days
      <4> QED BY <2>1, <2>2, <2>3
    <3> QED BY <3>1, <3>2
  <2>4. PICK b \in Int : /\ b \div K = D + n0 /\ b % K = hour(n0) /\ x0 <= b /\ On(b) /\ b * H = best
    <3> HIDE DEF n0, days
    <3> QED BY <1>6, <2>2
  <2>5. hour(n0) \in Nat /\ \A x \in Int : x0 <= x /\ x \div K = D + n0 /\ On(x) => hour(n0) <= x % K
    <3> HIDE DEF n0, days
    <3> QED BY <1>6, <2>2
  <2> HIDE DEF n0
\* The last day that is looked at is a week after another one.
  <2>6. D + n0 < d0 + SearchDays
    <3>1. CASE D = d0
      BY <1>3, <1>4, <2>2, <3>1
    <3>2. CASE D = d0 + 1
      <4>1. n0 # SearchDays - 1
        <5> SUFFICES ASSUME n0 = SearchDays - 1 PROVE FALSE
          OBVIOUS
        <5> DEFINE n == n0 - WeekLength
        <5>1. n \in Nat /\ n < n0 /\ n0 # 0
          BY <1>3, <2>2
        <5>2. D + n0 = (D + n) + WeekLength /\ D + n \in Int
          BY <1>3, <1>4, <2>2
        <5>3. Weekday(D + n0) = Weekday(D + n)
          <6> HIDE DEF n
          <6> QED BY <5>2, WeekdayAgain
        <5>4. hour(n) = hour(n0)
          <6> HIDE DEF n
          <6> QED BY <1>5, <3>2, <5>1, <5>3 DEF hour
        <5> HIDE DEF n
        <5> QED BY <2>2, <2>3, <5>1, <5>4
      <4> QED BY <1>3, <1>4, <2>2, <3>2, <4>1
    <3> QED BY <1>4, <1>5, <3>1, <3>2
  <2> HIDE DEF best, days
  <2>7. best \in open
    <3>1. best \in Int /\ best % H = 0
      <4>1. b * H \in Int
        BY <1>3
      <4>2. (b * H) % H = 0
        BY <1>3, DivExact
      <4> QED BY <2>4, <4>1, <4>2
    <3>2. m < best
      <4>1. x0 * H <= b * H /\ x0 * H \in Int
        BY <1>3, <1>4, <2>4, HourOrder
      <4> QED BY <1>4, <2>4, <3>1, <4>1
    <3>3. best <= last
      <4>1. DayOf(best) = D + n0
        BY <2>4, HourSplit
      <4>2. d0 + SearchDays \in Int /\ ~(d0 + SearchDays <= DayOf(best))
        BY <1>3, <1>4, <2>2, <2>6, <4>1
      <4>3. ~(At(d0 + SearchDays, 0) <= best)
        BY <3>1, <4>2, DayBounds
      <4>4. At(d0 + SearchDays, 0) \in Int
        BY <4>2, AtSum
      <4> QED BY <3>1, <4>3, <4>4 DEF last
    <3>4. Open(best)
      BY <2>4, HourIsOpen DEF Open, On
    <3>5. last \in Int
      BY <1>3, <1>4, AtSum DEF last
    <3> QED BY <3>1, <3>2, <3>3, <3>4, <3>5
  <2>8. ASSUME NEW h \in open PROVE best <= h /\ h \in Int
    <3>1. PICK x \in Int : /\ h = x * H /\ x0 <= x /\ On(x) /\ x \div K \in Int
                           /\ D <= x \div K /\ x \div K < d0 + SearchDays
      BY <1>7
    <3>2. PICK n \in Nat : x \div K = D + n
      <4> DEFINE n == (x \div K) - D
      <4>1. n \in Nat /\ x \div K = D + n
        BY <1>4, <3>1
      <4> QED BY <4>1
    <3>3. ~(n < n0)
      BY <1>6, <2>3, <3>1, <3>2 DEF Never
    <3>4. b <= x
      <4> DEFINE p == (D + n0) * K
                 q == (D + n) * K
                 i == b % K
                 j == x % K
      <4>1. /\ p \in Int /\ q \in Int /\ i \in 0..K - 1 /\ j \in 0..K - 1
            /\ b = p + i /\ x = q + j
        <5>1. i \in 0..K - 1 /\ j \in 0..K - 1 /\ b = p + i /\ x = q + j
          BY <2>4, <3>1, <3>2, HourSplit
        <5>2. D + n0 \in Int /\ D + n \in Int
          BY <1>4, <2>2
        <5>3. p \in Int /\ q \in Int
          BY <1>3, <5>2
        <5> QED BY <5>1, <5>3
      <4>2. CASE n = n0
        <5>1. i <= j /\ p = q
          BY <2>4, <2>5, <3>1, <3>2, <4>2
        <5> HIDE DEF p, q, i, j
        <5> QED BY <1>3, <4>1, <5>1
      <4>3. CASE n0 < n
        <5>1. p + K <= q
          <6>1. D + n0 \in Int /\ D + n \in Int /\ D + n0 < D + n
            BY <1>4, <2>2, <4>3
          <6> QED BY <1>3, <6>1, ProductOrder
        <5> HIDE DEF p, q, i, j
        <5> QED BY <1>3, <4>1, <5>1
      <4> QED BY <2>2, <3>2, <3>3, <4>2, <4>3
    <3> QED BY <1>3, <2>4, <3>1, <3>4, HourOrder
  <2>9. Min(open) = best
    <3>1. open \in SUBSET Int /\ open # {} /\ m \in Int /\ \A h \in open : m <= h
      <4>1. last \in Int
        BY <1>3, <1>4, AtSum DEF last
      <4> QED BY <2>7, <4>1
    <3> HIDE DEF open
    <3>2. Min(open) \in open /\ \A h \in open : Min(open) <= h
      BY <3>1, LeastAbove
    <3>3. best <= Min(open) /\ Min(open) <= best /\ best \in Int /\ Min(open) \in Int
      BY <2>7, <2>8, <3>2
    <3> QED BY <3>3
  <2> QED BY <1>1, <1>2, <1>9, <2>7, <2>9
<1> QED BY <1>8, <1>9

-----------------------------------------------------------------------------
(* To GHL and back. *)

LEMMA GhlDays ==
  ASSUME NEW d \in Weekdays
  PROVE  /\ GhlDay(d) \in Weekdays /\ OurDay(d) \in Weekdays
         /\ OurDay(GhlDay(d)) = d
<1> DEFINE W == WeekLength
<1>1. W \in Nat \ {0} /\ d \in 0..W - 1
  BY CalendarAssumption DEF Weekdays
<1>2. ASSUME NEW x \in Int PROVE x % W \in Weekdays
  BY <1>1, <1>2, DivMod DEF Weekdays
<1>3. GhlDay(d) \in Weekdays /\ OurDay(d) \in Weekdays
  <2>1. d + 1 \in Int /\ d + W - 1 \in Int
    BY <1>1
  <2> QED BY <2>1, <1>2 DEF GhlDay, OurDay
<1>4. ASSUME NEW q \in Int, NEW r \in 0..W - 1 PROVE (q * W + r) % W = r
  BY <1>1, DivIs
<1>5. CASE d < W - 1
  <2>1. d + 1 = 0 * W + (d + 1) /\ d + 1 \in 0..W - 1
    BY <1>1, <1>5
  <2>2. GhlDay(d) = d + 1
    <3>1. (0 * W + (d + 1)) % W = d + 1
      BY <1>4, <2>1, 0 \in Int
    <3> QED BY <2>1, <3>1 DEF GhlDay
  <2>3. (d + 1) + W - 1 = 1 * W + d
    BY <1>1
  <2>4. (1 * W + d) % W = d
    BY <1>1, <1>4, 1 \in Int
  <2>5. OurDay(d + 1) = d
    BY <2>3, <2>4 DEF OurDay
  <2> QED BY <1>3, <2>2, <2>5
<1>6. CASE d = W - 1
  <2>1. d + 1 = 1 * W + 0 /\ 0 \in 0..W - 1
    BY <1>1, <1>6
  <2>2. GhlDay(d) = 0
    <3>1. (1 * W + 0) % W = 0
      BY <1>4, <2>1, 1 \in Int
    <3> QED BY <2>1, <3>1 DEF GhlDay
  <2>3. 0 + W - 1 = 0 * W + d
    BY <1>1, <1>6
  <2>4. (0 * W + d) % W = d
    BY <1>1, <1>4, 0 \in Int
  <2>5. OurDay(0) = d
    BY <2>3, <2>4 DEF OurDay
  <2> QED BY <1>3, <2>2, <2>5
<1> QED BY <1>1, <1>5, <1>6

LEMMA RowOfSlots ==
  ASSUME NEW s \in Seq(Times \X Times), RowAccepted(FromSlots(s))
  PROVE  FromSlots(s) \in AcceptedRows
<1> DEFINE n == Len(s)
           r == FromSlots(s)
<1>1. n \in Nat /\ \A i \in 1..n : s[i] \in Times \X Times /\ s[i][1] \in Times /\ s[i][2] \in Times
  OBVIOUS
<1>2. CASE n = 0
  <2>1. r = Shut
    BY <1>2 DEF FromSlots
  <2> QED BY <2>1 DEF AcceptedRows, RowAccepted, Shut
<1>3. CASE n = 1
  <2>1. r = OpenRow(s[1][1], s[1][2])
    BY <1>3 DEF FromSlots
  <2>2. s[1][1] \in Times /\ s[1][2] \in Times
    BY <1>1, <1>3
  <2> QED BY <2>1, <2>2 DEF AcceptedRows, OpenRow
<1>4. CASE n > 1
  <2> DEFINE h == n \div 2
  <2>1. h \in 1..n /\ h + 1 \in 1..n /\ 1 \in 1..n /\ n \in 1..n
    BY <1>1, <1>4
  <2>2. r = BreakRow(s[1][1], s[h][2], s[h + 1][1], s[n][2])
    BY <1>4 DEF FromSlots
  <2>3. s[1][1] \in Times /\ s[h][2] \in Times /\ s[h + 1][1] \in Times /\ s[n][2] \in Times
    BY <1>1, <2>1
  <2>4. r = [is_open |-> TRUE, open |-> s[1][1], close |-> s[n][2], bs |-> s[h][2], be |-> s[h + 1][1]]
    <3> HIDE DEF n, h, r
    <3> QED BY <2>2 DEF BreakRow, OpenRow
  <2>5. r.is_open /\ r.open = s[1][1] /\ RowAccepted(r)
    BY <2>4
  <2>6. r \in AcceptedRows
    <3> HIDE DEF n, h, r
    <3> QED BY <2>3, <2>4, <2>5 DEF AcceptedRows
  <2> QED BY <2>6
<1>5. n = 0 \/ n = 1 \/ n > 1
  <2>1. n \in Nat
    BY <1>1
  <2> HIDE DEF n
  <2> QED BY <2>1
<1> QED BY <1>2, <1>3, <1>4, <1>5

LEMMA SlotsOfRow ==
  ASSUME NEW r \in AcceptedRows
  PROVE  /\ ToSlots(r) \in Seq(Times \X Times)
         /\ RowWindows(FromSlots(ToSlots(r))) = RowWindows(r)
<1>1. /\ r.is_open \in BOOLEAN
      /\ r.open \in Times \union {NoTime} /\ r.close \in Times \union {NoTime}
      /\ r.bs \in Times \union {NoTime} /\ r.be \in Times \union {NoTime}
      /\ r.is_open => r.open \in Times
  BY DEF AcceptedRows
<1>2. r.is_open => r.close \in Times
  BY <1>1, RowIs DEF NoTime
<1>3. CASE ~r.is_open
  <2>1. ToSlots(r) = <<>>
    BY <1>3 DEF ToSlots
  <2>2. FromSlots(<<>>) = Shut
    BY DEF FromSlots
  <2> QED BY <1>3, <2>1, <2>2 DEF RowWindows, Shut
<1>4. CASE r.is_open /\ r.bs # NoTime /\ r.be # NoTime
  <2> DEFINE s == << <<r.open, r.bs>>, <<r.be, r.close>> >>
  <2>1. ToSlots(r) = s
    BY <1>4 DEF ToSlots
  <2>2. s \in Seq(Times \X Times) /\ Len(s) = 2
    BY <1>1, <1>2, <1>4
  <2>3. Len(s) \div 2 = 1 /\ Len(s) \div 2 + 1 = 2
    BY <2>2
  <2>4. FromSlots(s) = BreakRow(r.open, r.bs, r.be, r.close)
    BY <2>2, <2>3 DEF FromSlots
  <2>5. RowWindows(BreakRow(r.open, r.bs, r.be, r.close)) = RowWindows(r)
    BY <1>4 DEF RowWindows, BreakRow, OpenRow
  <2> QED BY <2>1, <2>2, <2>4, <2>5
<1>5. CASE r.is_open /\ (r.bs = NoTime \/ r.be = NoTime)
  <2> DEFINE s == << <<r.open, r.close>> >>
  <2>1. ToSlots(r) = s
    BY <1>5 DEF ToSlots
  <2>2. s \in Seq(Times \X Times) /\ Len(s) = 1
    BY <1>1, <1>2, <1>5
  <2>3. FromSlots(s) = OpenRow(r.open, r.close)
    BY <2>2 DEF FromSlots
  <2>4. RowWindows(OpenRow(r.open, r.close)) = RowWindows(r)
    BY <1>5 DEF RowWindows, OpenRow
  <2> QED BY <2>1, <2>2, <2>3, <2>4
<1> QED BY <1>1, <1>3, <1>4, <1>5

AcceptedWeeks == [Weekdays -> AcceptedRows]
OpenHours == [Weekdays -> Seq(Times \X Times)]

\* What is sent to GHL comes back as the same hours.
LEMMA RoundTrip ==
  ASSUME NEW given \in AcceptedWeeks
  PROVE  /\ ToGhlOpenHours(given) \in OpenHours
         /\ WeekWindows(FromGhlOpenHours(ToGhlOpenHours(given))) = WeekWindows(given)
<1>1. ASSUME NEW d \in Weekdays PROVE given[d] \in AcceptedRows
  BY DEF AcceptedWeeks
<1>2. ToGhlOpenHours(given) \in OpenHours
  BY <1>1, GhlDays, SlotsOfRow DEF ToGhlOpenHours, OpenHours
<1>3. ASSUME NEW d \in Weekdays
      PROVE  RowWindows(FromGhlOpenHours(ToGhlOpenHours(given))[d]) = RowWindows(given[d])
  <2>1. GhlDay(d) \in Weekdays /\ OurDay(GhlDay(d)) = d
    BY GhlDays
  <2>2. ToGhlOpenHours(given)[GhlDay(d)] = ToSlots(given[d])
    BY <2>1 DEF ToGhlOpenHours
  <2>3. FromGhlOpenHours(ToGhlOpenHours(given))[d] = FromSlots(ToSlots(given[d]))
    BY <2>2 DEF FromGhlOpenHours
  <2> QED BY <1>1, <2>3, SlotsOfRow
<1> QED BY <1>2, <1>3 DEF WeekWindows

LEMMA AcceptedFromGhl ==
  ASSUME NEW o \in OpenHours, \A d \in Weekdays : RowAccepted(FromGhlOpenHours(o)[d])
  PROVE  FromGhlOpenHours(o) \in AcceptedWeeks
<1>1. ASSUME NEW d \in Weekdays PROVE FromSlots(o[GhlDay(d)]) \in AcceptedRows
  <2>1. o[GhlDay(d)] \in Seq(Times \X Times)
    BY GhlDays DEF OpenHours
  <2>2. RowAccepted(FromSlots(o[GhlDay(d)]))
    BY DEF FromGhlOpenHours
  <2> QED BY <2>1, <2>2, RowOfSlots
<1> QED BY <1>1 DEF FromGhlOpenHours, AcceptedWeeks

-----------------------------------------------------------------------------
(* The panel's saves against the nightly job. *)

CalendarOK == calendar \in [open : GhlHours, overrides : SUBSET Days]

\* A save waits only for a night that has written, and a night does not write over a save
\* that has pushed.
SaverOK ==
  /\ saver.pc = "waiting" => saver.rows \in Weeks /\ night.pc = "written"
  /\ saver.pc = "pushed" => saver.rows \in Weeks /\ saver.ok \in BOOLEAN /\ night.pc # "written"
NightOK ==
  /\ night.pc = "read" => night.read \in [open : GhlHours, overrides : SUBSET Days]
  /\ night.pc = "written" => night.rows \in KnownRows /\ night.rows \in AcceptedWeeks /\ night.new \subseteq Days
ToCome == \A d \in wanted_closures : d >= Today

\* Until something of `why` comes between, the rows, GHL and what the night has in hand
\* say what the merchant gave last; the calendar of GHL runs ahead of the rows under a push.
SameHours(o) == WeekWindows(FromGhlOpenHours(o)) = WeekWindows(wanted)
InStep ==
  why = {} /\ (saver.pc = "pushed" => ~saver.ok) =>
    /\ WeekWindows(hours) = WeekWindows(wanted) /\ told \subseteq closures
    /\ SameHours(calendar.open) /\ told \subseteq calendar.overrides
    /\ night.pc = "read" => SameHours(night.read.open) /\ told \subseteq night.read.overrides
    /\ night.pc = "written" => /\ WeekWindows(night.rows) = WeekWindows(wanted)
                               /\ told \intersect night.gone = {}
PushedInStep ==
  why = {} /\ saver.pc = "pushed" /\ saver.ok =>
    /\ WeekWindows(FromGhlOpenHours(calendar.open)) = WeekWindows(saver.rows)
    /\ \A d \in saver.closed \intersect wanted_closures : d \in closures /\ d \in calendar.overrides

HoursInv ==
  /\ HoursTypeOK /\ hours \in AcceptedWeeks
  /\ CalendarOK /\ SaverOK /\ NightOK /\ ToCome
  /\ InStep /\ PushedInStep

LEMMA HoursConst ==
  /\ Weeks \subseteq AcceptedWeeks /\ Weeks \subseteq KnownRows
  /\ GhlHours \subseteq OpenHours /\ \A o \in GhlHours : FromGhlOpenHours(o) \in KnownRows
  /\ \A w \in Weeks : /\ ToGhlOpenHours(w) \in GhlHours
                      /\ WeekWindows(FromGhlOpenHours(ToGhlOpenHours(w))) = WeekWindows(w)
  /\ Days \subseteq Nat /\ MaxEdits \in Nat /\ MaxSlips \in Nat
<1>1. Weeks \subseteq AcceptedWeeks /\ GhlWeeks \subseteq OpenHours
      /\ Days \subseteq Nat /\ MaxEdits \in Nat /\ MaxSlips \in Nat
  BY HoursAssumption DEF AcceptedWeeks, OpenHours
<1>2. \A w \in Weeks : /\ ToGhlOpenHours(w) \in OpenHours
                       /\ WeekWindows(FromGhlOpenHours(ToGhlOpenHours(w))) = WeekWindows(w)
  BY <1>1, RoundTrip
<1> QED BY <1>1, <1>2 DEF GhlHours, KnownRows

LEMMA DaysBounds ==
  /\ Min(Days) \in Nat /\ Max(Days) \in Nat /\ Min(Days) <= Max(Days)
  /\ \A d \in Days : Min(Days) <= d /\ d <= Max(Days)
  /\ At(Today0, 0) \in Nat /\ At(Max(Days) + 1, 0) \in Nat /\ At(Today0, 0) < At(Max(Days) + 1, 0)
<1>1. Days \in SUBSET Int /\ Days \subseteq Nat /\ Days # {} /\ \A d \in Days : 0 <= d
  BY HoursAssumption
<1>2. Min(Days) \in Days /\ \A d \in Days : Min(Days) <= d
  BY <1>1, LeastAbove, 0 \in Int
<1>3. Max(Days) \in Days /\ \A d \in Days : d <= Max(Days)
  <2>1. \E x \in Days : \A y \in Days : x >= y
    BY <1>1, HoursAssumption
  <2>2. Max(Days) \in Days /\ \A y \in Days : Max(Days) >= y
    BY <2>1 DEF Max
  <2> QED BY <1>1, <2>2
<1>4. Min(Days) \in Nat /\ Max(Days) \in Nat /\ Min(Days) <= Max(Days)
  BY <1>1, <1>2, <1>3
<1>5. ASSUME NEW d \in Nat PROVE At(d, 0) \in Nat
  BY DayLengthPos DEF At
<1>6. At(Min(Days), 0) \in Nat /\ At(Max(Days) + 1, 0) \in Nat
  BY <1>4, <1>5
<1>7. At(Min(Days), 0) < At(Max(Days) + 1, 0)
  <2>1. At(Min(Days), 0) + DayLength <= At(Max(Days) + 1, 0)
    BY <1>4, AtOrder
  <2> QED BY <2>1, <1>6, DayLengthPos
<1> QED BY <1>2, <1>3, <1>4, <1>6, <1>7 DEF Today0

LEMMA HoursInvInit == SyncInit => HoursInv
<1> SUFFICES ASSUME SyncInit PROVE HoursInv
  OBVIOUS
<1>1. hours \in Weeks /\ wanted = hours
  BY DEF SyncInit
<1>2. calendar = [open |-> ToGhlOpenHours(hours), overrides |-> {}] /\ CalendarOK
  BY <1>1, HoursConst DEF SyncInit, CalendarOK
<1>3. now \in At(Today0, 0)..At(Max(Days) + 1, 0) - 1
  BY DaysBounds DEF SyncInit
<1>4. saver.pc = "idle" /\ night.pc = "idle"
  BY DEF SyncInit, NoSave, NoNight
<1>5. HoursTypeOK
  BY <1>1, <1>2, <1>3, <1>4, HoursConst DEF SyncInit, HoursTypeOK, CalendarOK, GhlHours
<1>6. InStep
  BY <1>1, <1>2, <1>4, HoursConst DEF InStep, SameHours, SyncInit
<1>7. SaverOK /\ NightOK /\ ToCome /\ PushedInStep
  BY <1>4 DEF SaverOK, NightOK, ToCome, PushedInStep, SyncInit
<1> QED BY <1>1, <1>2, <1>5, <1>6, <1>7, HoursConst DEF HoursInv

\* A push that GHL takes is in step with the save that made it.
LEMMA PushKeeps ==
  ASSUME HoursInv, NEW given \in Weeks, UpsertAndPush(given),
         saver.pc # "pushed", night'.pc # "written",
         night' = night \/ night'.pc = "idle",
         edits' \in 0..MaxEdits,
         UNCHANGED <<now, hours, closures, wanted, wanted_closures, told>>
  PROVE  HoursInv'
<1> USE HoursConst
<1>1. HoursTypeOK /\ CalendarOK /\ NightOK /\ ToCome /\ InStep /\ hours \in AcceptedWeeks
  BY DEF HoursInv
<1>2. night'.pc \in {"idle", "read"} /\ (night'.pc = "read" => night' = night)
  BY <1>1 DEF HoursTypeOK
<1>3. Today' = Today
  BY DEF Today
<1>4. CASE /\ calendar' = Pushed(given, closures)
           /\ saver' = [pc |-> "pushed", rows |-> given, ok |-> TRUE, closed |-> closures]
           /\ why' = {} /\ UNCHANGED slips
  <2>1. calendar' = [open |-> ToGhlOpenHours(given), overrides |-> {d \in closures : d >= Today}]
    BY <1>4 DEF Pushed
  <2>2. CalendarOK'
    BY <1>1, <2>1 DEF CalendarOK, HoursTypeOK
  <2>3. HoursTypeOK'
    BY <1>1, <1>2, <1>4, <2>2 DEF HoursTypeOK, CalendarOK, GhlHours, KnownRows
  <2>4. SaverOK' /\ NightOK' /\ ToCome'
    BY <1>1, <1>2, <1>3, <1>4 DEF SaverOK, NightOK, ToCome
  <2>5. InStep'
    BY <1>4 DEF InStep
  <2>6. PushedInStep'
    <3>1. ASSUME NEW d \in closures \intersect wanted_closures PROVE d \in calendar'.overrides
      BY <1>1, <2>1 DEF ToCome
    <3> QED BY <1>4, <2>1, <3>1 DEF PushedInStep
  <2> QED BY <1>1, <2>2, <2>3, <2>4, <2>5, <2>6 DEF HoursInv
<1>5. CASE /\ Slip
           /\ saver' = [pc |-> "pushed", rows |-> given, ok |-> FALSE, closed |-> {}]
           /\ UNCHANGED <<calendar, why>>
  <2>1. HoursTypeOK'
    BY <1>1, <1>2, <1>5 DEF HoursTypeOK, Slip, KnownRows
  <2>2. CalendarOK' /\ SaverOK' /\ NightOK' /\ ToCome'
    BY <1>1, <1>2, <1>3, <1>5 DEF CalendarOK, SaverOK, NightOK, ToCome
  <2>3. InStep'
    BY <1>1, <1>2, <1>5 DEF InStep, SameHours
  <2>4. PushedInStep'
    BY <1>5 DEF PushedInStep
  <2> QED BY <1>1, <2>1, <2>2, <2>3, <2>4 DEF HoursInv
<1> QED BY <1>4, <1>5 DEF UpsertAndPush

LEMMA SavingKeeps == ASSUME HoursInv, SaveHours \/ Saved \/ SaveLost PROVE HoursInv'
<1> USE HoursConst
<1>1. /\ HoursTypeOK /\ CalendarOK /\ SaverOK /\ NightOK /\ ToCome /\ InStep /\ PushedInStep
      /\ hours \in AcceptedWeeks
  BY DEF HoursInv
<1>2. Today' = Today
  BY DEF Today, SaveHours, Saved, SaveLost
<1>3. CASE SaveHours
  <2>1. PICK given \in Weeks :
          IF night.pc = "written"
          THEN saver' = [pc |-> "waiting", rows |-> given] /\ UNCHANGED <<calendar, why, slips>>
          ELSE UpsertAndPush(given)
    BY <1>3 DEF SaveHours
  <2>2. /\ saver.pc = "idle" /\ edits' \in 0..MaxEdits
        /\ UNCHANGED <<now, hours, closures, night, wanted, wanted_closures, told>>
    BY <1>1, <1>3 DEF SaveHours, Edit, HoursTypeOK
  <2>3. CASE night.pc # "written"
    <3>1. UpsertAndPush(given)
      BY <2>1, <2>3
    <3> QED BY <2>2, <2>3, <3>1, PushKeeps
  <2>4. CASE night.pc = "written"
    <3>1. saver' = [pc |-> "waiting", rows |-> given] /\ UNCHANGED <<calendar, why, slips>>
      BY <2>1, <2>4
    <3>2. HoursTypeOK'
      BY <1>1, <2>2, <3>1 DEF HoursTypeOK, KnownRows
    <3>3. CalendarOK' /\ SaverOK' /\ NightOK' /\ ToCome'
      BY <1>1, <1>2, <2>2, <2>4, <3>1 DEF CalendarOK, SaverOK, NightOK, ToCome
    <3>4. InStep' /\ PushedInStep'
      BY <1>1, <2>2, <3>1 DEF InStep, SameHours, PushedInStep
    <3> QED BY <1>1, <2>2, <3>2, <3>3, <3>4 DEF HoursInv
  <2> QED BY <2>3, <2>4
<1>4. CASE Saved
  <2>1. /\ saver.pc = "pushed" /\ saver.rows \in Weeks /\ saver.ok \in BOOLEAN /\ night.pc # "written"
        /\ hours' = saver.rows /\ wanted' = saver.rows /\ saver'.pc = "idle"
        /\ UNCHANGED <<now, closures, calendar, wanted_closures, edits, slips>>
    BY <1>1, <1>4 DEF Saved, SaverOK, NoSave
  <2>2. night'.pc \in {"idle", "read"} /\ (night'.pc = "read" => night' = night)
    BY <1>1, <1>4, <2>1 DEF Saved, NoNight, HoursTypeOK
  <2>3. told' \subseteq wanted_closures /\ why' \subseteq Reasons
    BY <1>1, <1>4 DEF Saved, HoursTypeOK, Reasons
  <2>4. HoursTypeOK'
    BY <1>1, <2>1, <2>2, <2>3 DEF HoursTypeOK, KnownRows
  <2>5. CalendarOK' /\ SaverOK' /\ NightOK' /\ ToCome'
    BY <1>1, <1>2, <2>1, <2>2 DEF CalendarOK, SaverOK, NightOK, ToCome
  <2>6. PushedInStep'
    BY <2>1 DEF PushedInStep
  <2>7. InStep'
    <3> SUFFICES ASSUME why' = {} PROVE InStep'
      BY DEF InStep
    <3>1. saver.ok /\ why = {} /\ night.pc = "idle"
      BY <1>1, <1>4, <2>1 DEF Saved, HoursTypeOK
    <3>2. told' = saver.closed \intersect wanted_closures /\ night'.pc = "idle"
      BY <1>4, <3>1 DEF Saved, NoNight
    <3>3. /\ WeekWindows(FromGhlOpenHours(calendar.open)) = WeekWindows(saver.rows)
          /\ \A d \in saver.closed \intersect wanted_closures : d \in closures /\ d \in calendar.overrides
      BY <1>1, <2>1, <3>1 DEF PushedInStep
    <3> QED BY <2>1, <3>2, <3>3 DEF InStep, SameHours
  <2> QED BY <2>1, <2>4, <2>5, <2>6, <2>7 DEF HoursInv
<1>5. CASE SaveLost
  <2>1. /\ saver.pc = "pushed" /\ saver.ok \in BOOLEAN /\ saver'.pc = "idle" /\ night.pc # "written"
        /\ UNCHANGED <<now, hours, closures, calendar, night, wanted, wanted_closures, told, edits>>
    BY <1>1, <1>5 DEF SaveLost, SaverOK, NoSave
  <2>2. why' \subseteq Reasons /\ slips' \in 0..MaxSlips
    BY <1>1, <1>5 DEF SaveLost, Slip, HoursTypeOK, Reasons
  <2>3. HoursTypeOK'
    BY <1>1, <2>1, <2>2 DEF HoursTypeOK, KnownRows
  <2>4. CalendarOK' /\ SaverOK' /\ NightOK' /\ ToCome'
    BY <1>1, <1>2, <2>1 DEF CalendarOK, SaverOK, NightOK, ToCome
  <2>5. why' = {} => why = {} /\ ~saver.ok
    BY <1>5 DEF SaveLost
  <2>6. InStep' /\ PushedInStep'
    BY <1>1, <2>1, <2>5 DEF InStep, SameHours, PushedInStep
  <2> QED BY <1>1, <2>1, <2>3, <2>4, <2>6 DEF HoursInv
<1> QED BY <1>3, <1>4, <1>5

LEMMA NightKeeps ==
  ASSUME HoursInv, NightReads \/ NightWrites \/ NightCommits \/ NightFails
  PROVE  HoursInv'
<1> USE HoursConst
<1>1. /\ HoursTypeOK /\ CalendarOK /\ SaverOK /\ NightOK /\ ToCome /\ InStep /\ PushedInStep
      /\ hours \in AcceptedWeeks
  BY DEF HoursInv
<1>2. Today' = Today
  BY DEF Today, NightReads, NightWrites, NightCommits, NightFails
<1>3. CASE NightReads
  <2>1. /\ night' = [pc |-> "read", read |-> calendar] /\ night.pc = "idle"
        /\ UNCHANGED <<now, hours, closures, calendar, saver, wanted, wanted_closures, told, edits, slips>>
    BY <1>3 DEF NightReads
  <2>2. why' \subseteq Reasons /\ (why' = {} => why = {} /\ saver.pc # "pushed")
    BY <1>1, <1>3 DEF NightReads, HoursTypeOK, Reasons
  <2>3. HoursTypeOK'
    BY <1>1, <2>1, <2>2 DEF HoursTypeOK, KnownRows
  <2>4. CalendarOK' /\ SaverOK' /\ NightOK' /\ ToCome'
    BY <1>1, <1>2, <2>1 DEF CalendarOK, SaverOK, NightOK, ToCome
  <2>5. InStep' /\ PushedInStep'
    BY <1>1, <2>1, <2>2 DEF InStep, SameHours, PushedInStep
  <2> QED BY <1>1, <2>1, <2>3, <2>4, <2>5 DEF HoursInv
<1>4. CASE NightWrites
  <2> DEFINE incoming == {d \in night.read.overrides : d >= Today}
             existing == {d \in closures : d >= Today}
             given == FromGhlOpenHours(night.read.open)
  <2>1. /\ night' = [pc |-> "written", rows |-> given,
                     gone |-> existing \ incoming, new |-> incoming \ existing]
        /\ night.pc = "read" /\ saver.pc # "pushed"
        /\ \A d \in Weekdays : RowAccepted(given[d])
        /\ UNCHANGED <<now, hours, closures, calendar, saver, wanted, wanted_closures, told, why,
                       edits, slips>>
    BY <1>4 DEF NightWrites, GoneClosures
  <2>2. night.read.open \in GhlHours /\ night.read.overrides \subseteq Days
    BY <1>1, <2>1 DEF NightOK
  <2>3. given \in KnownRows /\ given \in AcceptedWeeks
    BY <2>1, <2>2, AcceptedFromGhl
  <2>4. HoursTypeOK'
    BY <1>1, <2>1 DEF HoursTypeOK, KnownRows
  <2>5. CalendarOK' /\ SaverOK' /\ ToCome'
    BY <1>1, <1>2, <2>1 DEF CalendarOK, SaverOK, ToCome
  <2>6. NightOK'
    BY <2>1, <2>2, <2>3 DEF NightOK
  <2>7. InStep'
    <3> SUFFICES ASSUME why' = {} PROVE InStep'
      BY DEF InStep
    <3>1. /\ WeekWindows(hours) = WeekWindows(wanted) /\ told \subseteq closures
          /\ SameHours(calendar.open) /\ told \subseteq calendar.overrides
          /\ SameHours(night.read.open) /\ told \subseteq night.read.overrides
      BY <1>1, <2>1 DEF InStep
    <3>2. \A d \in told : d >= Today
      BY <1>1 DEF ToCome, HoursTypeOK
    <3>3. told \intersect (existing \ incoming) = {}
      BY <3>1, <3>2
    <3> QED BY <2>1, <3>1, <3>3 DEF InStep, SameHours
  <2>8. PushedInStep'
    BY <2>1 DEF PushedInStep
  <2> QED BY <1>1, <2>1, <2>4, <2>5, <2>6, <2>7, <2>8 DEF HoursInv
<1>5. CASE NightCommits
  <2>1. /\ night.pc = "written" /\ night'.pc = "idle" /\ hours' = night.rows
        /\ closures' = (closures \ night.gone) \union night.new
        /\ saver' = IF saver.pc = "waiting" THEN NoSave ELSE saver
        /\ UNCHANGED <<now, calendar, wanted, wanted_closures, told, why, edits, slips>>
    BY <1>5 DEF NightCommits, NoNight
  <2>2. saver'.pc = "idle"
    BY <1>1, <2>1 DEF HoursTypeOK, SaverOK, NoSave
  <2>3. hours' \in KnownRows /\ hours' \in AcceptedWeeks /\ closures' \subseteq Days
    BY <1>1, <2>1 DEF NightOK, HoursTypeOK
  <2>4. HoursTypeOK'
    BY <1>1, <2>1, <2>2, <2>3 DEF HoursTypeOK, KnownRows
  <2>5. CalendarOK' /\ SaverOK' /\ NightOK' /\ ToCome'
    BY <1>1, <1>2, <2>1, <2>2 DEF CalendarOK, SaverOK, NightOK, ToCome
  <2>6. saver.pc # "pushed"
    BY <1>1, <2>1 DEF SaverOK
  <2>7. InStep' /\ PushedInStep'
    BY <1>1, <2>1, <2>2, <2>6 DEF InStep, SameHours, PushedInStep
  <2> QED BY <2>3, <2>4, <2>5, <2>7 DEF HoursInv
<1>6. CASE NightFails
  <2>1. /\ night'.pc = "idle"
        /\ UNCHANGED <<now, hours, closures, wanted, wanted_closures, told, edits>>
    BY <1>6 DEF NightFails, NoNight
  <2>2. CASE night.pc = "written" /\ saver.pc = "waiting" /\ UpsertAndPush(saver.rows)
    <3>1. saver.rows \in Weeks /\ edits' \in 0..MaxEdits
      BY <1>1, <2>1, <2>2 DEF SaverOK, HoursTypeOK
    <3> QED BY <2>1, <2>2, <3>1, PushKeeps
  <2>3. CASE /\ UNCHANGED <<saver, calendar, why>> /\ slips' \in 0..MaxSlips
             /\ (night.pc = "read" \/ saver.pc # "waiting")
    <3>1. HoursTypeOK'
      BY <1>1, <2>1, <2>3 DEF HoursTypeOK, KnownRows
    <3>2. CalendarOK' /\ SaverOK' /\ NightOK' /\ ToCome'
      BY <1>1, <1>2, <2>1, <2>3 DEF CalendarOK, SaverOK, NightOK, ToCome
    <3>3. InStep' /\ PushedInStep'
      BY <1>1, <2>1, <2>3 DEF InStep, SameHours, PushedInStep
    <3> QED BY <1>1, <2>1, <3>1, <3>2, <3>3 DEF HoursInv
  <2>4. slips \in 0..MaxSlips /\ (Slip => slips' \in 0..MaxSlips)
    BY <1>1 DEF HoursTypeOK, Slip
  <2> QED BY <1>6, <2>2, <2>3, <2>4 DEF NightFails
<1> QED BY <1>3, <1>4, <1>5, <1>6

LEMMA OthersKeep ==
  ASSUME HoursInv, AddClosure \/ DeleteClosure \/ EditInGhl \/ Tick
  PROVE  HoursInv'
<1> USE HoursConst
<1>1. /\ HoursTypeOK /\ CalendarOK /\ SaverOK /\ NightOK /\ ToCome /\ InStep /\ PushedInStep
      /\ hours \in AcceptedWeeks
  BY DEF HoursInv
<1>2. saver.pc \in {"idle", "waiting", "pushed"} /\ night.pc \in {"idle", "read", "written"}
  BY <1>1 DEF HoursTypeOK
<1>3. CASE AddClosure
  <2>1. PICK d \in Days : /\ d >= Today /\ closures' = closures \union {d}
                          /\ wanted_closures' = wanted_closures \union {d}
    BY <1>3 DEF AddClosure
  <2>2. /\ UNCHANGED <<now, hours, calendar, saver, night, wanted, told, slips>>
        /\ edits' \in 0..MaxEdits /\ Today' = Today
    BY <1>1, <1>3 DEF AddClosure, Edit, HoursTypeOK, Today
  <2>3. why' \subseteq Reasons
        /\ (why' = {} => why = {} /\ night.pc = "idle" /\ saver.pc = "idle")
    BY <1>1, <1>2, <1>3 DEF AddClosure, HoursTypeOK, Reasons
  <2>4. HoursTypeOK'
    BY <1>1, <2>1, <2>2, <2>3 DEF HoursTypeOK, KnownRows
  <2>5. CalendarOK' /\ SaverOK' /\ NightOK' /\ ToCome'
    BY <1>1, <2>1, <2>2 DEF CalendarOK, SaverOK, NightOK, ToCome
  <2>6. InStep' /\ PushedInStep'
    BY <1>1, <2>1, <2>2, <2>3 DEF InStep, SameHours, PushedInStep
  <2> QED BY <1>1, <2>2, <2>4, <2>5, <2>6 DEF HoursInv
<1>4. CASE DeleteClosure
  <2>1. PICK d \in closures : /\ closures' = closures \ {d} /\ told' = told \ {d}
                              /\ wanted_closures' = wanted_closures \ {d}
    BY <1>4 DEF DeleteClosure
  <2>2. /\ UNCHANGED <<now, hours, calendar, saver, night, wanted, why, slips>>
        /\ edits' \in 0..MaxEdits /\ Today' = Today
    BY <1>1, <1>4 DEF DeleteClosure, Edit, HoursTypeOK, Today
  <2>3. HoursTypeOK'
    BY <1>1, <2>1, <2>2 DEF HoursTypeOK, KnownRows
  <2>4. CalendarOK' /\ SaverOK' /\ NightOK' /\ ToCome'
    BY <1>1, <2>1, <2>2 DEF CalendarOK, SaverOK, NightOK, ToCome
  <2>5. InStep'
    BY <1>1, <2>1, <2>2 DEF InStep, SameHours
  <2>6. PushedInStep'
    BY <1>1, <2>1, <2>2 DEF PushedInStep
  <2> QED BY <1>1, <2>2, <2>3, <2>4, <2>5, <2>6 DEF HoursInv
<1>5. CASE EditInGhl
  <2>1. /\ UNCHANGED <<now, hours, closures, saver, night, wanted, wanted_closures, told, slips>>
        /\ edits' \in 0..MaxEdits /\ Today' = Today
        /\ why' = why \union {"edited"}
    BY <1>1, <1>5 DEF EditInGhl, Edit, HoursTypeOK, Today
  <2>2. CalendarOK'
    BY <1>1, <1>5 DEF EditInGhl, CalendarOK, GhlHours
  <2>3. HoursTypeOK'
    BY <1>1, <2>1, <2>2 DEF HoursTypeOK, KnownRows, CalendarOK, GhlHours, Reasons
  <2>4. SaverOK' /\ NightOK' /\ ToCome'
    BY <1>1, <2>1 DEF SaverOK, NightOK, ToCome
  <2>5. InStep' /\ PushedInStep'
    BY <2>1 DEF InStep, PushedInStep
  <2> QED BY <1>1, <2>1, <2>2, <2>3, <2>4, <2>5 DEF HoursInv
<1>6. CASE Tick
  <2>1. /\ UNCHANGED <<hours, closures, calendar, saver, night, wanted, why, edits, slips>>
        /\ wanted_closures' = {d \in wanted_closures : d >= Today'}
        /\ told' = {d \in told : d >= Today'}
    BY <1>6 DEF Tick, Today
  <2>2. now' \in At(Today0, 0)..At(Max(Days) + 1, 0) - 1
    <3> DEFINE a == At(Today0, 0)
               b == At(Max(Days) + 1, 0)
    <3>1. a \in Nat /\ b \in Nat /\ now \in a..b - 1 /\ now < b - 1 /\ now' = now + 1
      BY <1>1, <1>6, DaysBounds DEF Tick, HoursTypeOK
    <3> HIDE DEF a, b
    <3>2. now' \in a..b - 1
      BY <3>1
    <3> QED BY <3>2 DEF a, b
  <2>3. HoursTypeOK'
    BY <1>1, <2>1, <2>2 DEF HoursTypeOK, KnownRows
  <2>4. CalendarOK' /\ SaverOK' /\ NightOK' /\ ToCome'
    BY <1>1, <2>1 DEF CalendarOK, SaverOK, NightOK, ToCome
  <2>5. InStep'
    <3>1. told' \subseteq told
      BY <2>1
    <3> QED BY <1>1, <2>1, <3>1 DEF InStep, SameHours
  <2>6. PushedInStep'
    <3>1. wanted_closures' \subseteq wanted_closures
      BY <2>1
    <3> QED BY <1>1, <2>1, <3>1 DEF PushedInStep
  <2> QED BY <1>1, <2>1, <2>3, <2>4, <2>5, <2>6 DEF HoursInv
<1> QED BY <1>3, <1>4, <1>5, <1>6

LEMMA HoursInvNext == HoursInv /\ [SyncNext]_syncVars => HoursInv'
<1> SUFFICES ASSUME HoursInv, [SyncNext]_syncVars PROVE HoursInv'
  OBVIOUS
<1>1. CASE SyncNext
  BY <1>1, SavingKeeps, NightKeeps, OthersKeep DEF SyncNext
<1>2. CASE UNCHANGED syncVars
  <2>1. UNCHANGED <<now, hours, closures, calendar, saver, night, wanted, wanted_closures, told, why,
                    edits, slips>>
    BY <1>2 DEF syncVars
  <2> QED BY <2>1 DEF HoursInv, HoursTypeOK, KnownRows, CalendarOK, SaverOK, NightOK, ToCome, InStep,
                      SameHours, PushedInStep, Today
<1> QED BY <1>1, <1>2

LEMMA HoursAlways == SyncSpec => []HoursInv
BY HoursInvInit, HoursInvNext, PTL DEF SyncSpec

LEMMA NowIs == HoursInv => now \in Nat /\ now \in Int /\ hours \in [Weekdays -> AcceptedRows]
BY DaysBounds DEF HoursInv, HoursTypeOK, AcceptedWeeks

\* What a merchant saves is lost only for the reasons that `why` names, however saves and
\* nights overlap and fail.
THEOREM LostOnlyIfCorrect == SyncSpec => []LostOnlyIf
<1>1. HoursInv => LostOnlyIf
  BY DEF HoursInv, InStep, LostOnlyIf
<1> QED BY <1>1, HoursAlways, PTL

\* The intervals of the code are the hours on the clock, for weeks and closures of every
\* form and length: windows that touch, nest or cross midnight, at every moment.
THEOREM HoursAreExactCorrect == SyncSpec => []HoursAreExact
<1>1. ASSUME HoursInv PROVE HoursAreExact
  <2>1. now \in Int
    BY <1>1, NowIs
  <2>2. ASSUME NEW week \in CustomWeeks \union {ResolvedWeek(hours)}
        PROVE  /\ IsOpenAt(now, week, closures) = OpenByTheClock(now, week, closures)
               /\ NextOpeningAfter(now, week, closures) = FirstOpening(now, week, closures)
    <3>1. week \in WeeksOfWindows
      BY <1>1, NowIs, WeeksOfRows, HoursAssumption DEF WeeksOfWindows
    <3>2. IsOpenAt(now, week, closures) <=> OpenByTheClock(now, week, closures)
      BY <2>1, <3>1, IsOpenIsExact
    <3>3. IsOpenAt(now, week, closures) \in BOOLEAN /\ OpenByTheClock(now, week, closures) \in BOOLEAN
      BY DEF IsOpenAt, OpenByTheClock
    <3> QED BY <2>1, <3>1, <3>2, <3>3, NextOpeningIsExact
  <2>3. ASSUME NEW spec \in {"always"} \union (SpecTimes \X SpecTimes)
        PROVE  IsWithinActiveHours(now, spec) = IsOpenAt(now, WeeklyFromActiveHours(spec), {})
    <3>1. spec \in {"always"} \union (Times \X Times)
      BY HoursAssumption
    <3>2. /\ WeeklyFromActiveHours(spec) \in WeeksOfWindows
          /\ IsWithinActiveHours(now, spec) <=> OpenByTheClock(now, WeeklyFromActiveHours(spec), {})
      BY <2>1, <3>1, MigratedWeek
    <3>3. IsWithinActiveHours(now, spec) <=> IsOpenAt(now, WeeklyFromActiveHours(spec), {})
      BY <2>1, <3>2, IsOpenIsExact
    <3>4. /\ IsWithinActiveHours(now, spec) \in BOOLEAN
          /\ IsOpenAt(now, WeeklyFromActiveHours(spec), {}) \in BOOLEAN
      BY DEF IsOpenAt, IsWithinActiveHours
    <3> QED BY <3>3, <3>4
  <2> QED BY <2>2, <2>3 DEF HoursAreExact
<1> QED BY <1>1, HoursAlways, PTL

\* The agenda's search, which counts hours and looks at a bounded number of days, finds the
\* first full hour at which the shop is open, for every length of day and week.
THEOREM AgendaHourCorrect == SyncSpec => []AgendaHourIsOpen
<1>1. HoursInv => AgendaHourIsOpen
  BY NowIs, NextBusinessHourIsExact DEF AgendaHourIsOpen
<1> QED BY <1>1, HoursAlways, PTL

\* Whatever the rows are, the assistant answers within a week.
THEOREM NeverSilencedCorrect == SyncSpec => []NeverSilenced
<1>1. HoursInv => NeverSilenced
  BY NowIs, NeverSilencedBy DEF NeverSilenced
<1> QED BY <1>1, HoursAlways, PTL

\* What the table says, what the bot and the agenda make of it and what GHL says of it
\* agree, whatever saves, nights and changes in GHL do to each other.
THEOREM OpeningCorrect == SyncSpec => []OpeningSafe
<1>1. HoursAreExact /\ AgendaHourIsOpen /\ NeverSilenced /\ LostOnlyIf => OpeningSafe
  BY DEF OpeningSafe
<1> QED BY <1>1, HoursAreExactCorrect, AgendaHourCorrect, NeverSilencedCorrect, LostOnlyIfCorrect, PTL

=============================================================================
