---- MODULE ConfigCascade ----
(***************************************************************************)
(* One key of one merchant's configuration (config_resolver/resolver.py):  *)
(* conversation profile over merchant over agency template over system     *)
(* default, read through a cache that every writer (routers/bot_config.py, *)
(* statistics.py, playground.py) invalidates before its session commits.   *)
(* A value is the number of the write that set it, 0 if none.              *)
(***************************************************************************)
EXTENDS Naturals, FiniteSets

CONSTANTS AgencyTemplates,   \* bot_templates of the tenant
          Writers,           \* requests that write at a time
          Readers,           \* resolve() calls at a time
          TTL,               \* CACHE_TTL_SECONDS
          ReadLag,           \* bound: how long a resolve() takes
          MaxChanges,        \* bound: writes
          MaxClock,          \* bound: ticks
          MaxRedisFaults     \* bound: Redis calls that fail

VARIABLES clock,
          levels,      \* the committed rows
          writer,      \* the open transactions: what each will change
          changes,     \* writes so far
          cache,       \* per cache key: the value and when it was set
          reader,      \* the resolve() calls
          was,         \* history: when each value was last the right one
          redisFaults,
          crossed      \* history: two template writes have overlapped

cascadeVars == <<clock, levels, writer, changes, cache, reader, was, redisFaults, crossed>>

Values == 0..MaxChanges                   \* 0: the system default
Keys == {"plain", "profiled"}             \* cfg:{merchant}, cfg:{merchant}:p:{profile}
NoLink == "none"

\* A template has a name of its own.
ASSUME CascadeAssumption ==
  /\ {TTL, ReadLag, MaxChanges, MaxClock, MaxRedisFaults} \subseteq Nat
  /\ IsFiniteSet(AgencyTemplates) /\ NoLink \notin AgencyTemplates

Uncached == [value |-> 0, set |-> 0, torn |-> FALSE, on |-> FALSE]
NoChange == [kind |-> "none", value |-> 0, tmpl |-> NoLink, default |-> FALSE, clears |-> {}]
IdleWriter == [pc |-> "idle", change |-> NoChange]
IdleReader == [pc |-> "idle", key |-> "plain", since |-> 0, found |-> 0, link |-> NoLink, torn |-> FALSE]

Template == [there : BOOLEAN, value : Values, default : BOOLEAN]
Changes == [kind : {"none", "profile", "override", "link", "template", "delete"}, value : Values,
            tmpl : AgencyTemplates \cup {NoLink}, default : BOOLEAN, clears : SUBSET AgencyTemplates]

CascadeTypeOK ==
  /\ clock \in 0..MaxClock /\ changes \in Values /\ redisFaults \in 0..MaxRedisFaults
  /\ levels \in [profile : Values, override : Values, link : AgencyTemplates \cup {NoLink},
                 tmpl : [AgencyTemplates -> Template]]
  /\ writer \in [Writers -> [pc : {"idle", "flushed", "invalidated"}, change : Changes]]
  /\ cache \in [Keys -> [value : Values, set : 0..MaxClock, torn : BOOLEAN, on : BOOLEAN]]
  /\ reader \in [Readers -> [pc : {"idle", "missed", "config", "resolved"}, key : Keys,
                             since : 0..MaxClock, found : Values,
                             link : AgencyTemplates \cup {NoLink}, torn : BOOLEAN]]
  /\ was \in [Keys -> [Values -> 0..MaxClock]] /\ crossed \in BOOLEAN

CascadeInit ==
  /\ clock = 0 /\ changes = 0 /\ redisFaults = 0 /\ crossed = FALSE
  /\ levels = [profile |-> 0, override |-> 0, link |-> NoLink,
               tmpl |-> [t \in AgencyTemplates |-> [there |-> FALSE, value |-> 0, default |-> FALSE]]]
  /\ writer = [w \in Writers |-> IdleWriter] /\ reader = [r \in Readers |-> IdleReader]
  /\ cache = [k \in Keys |-> Uncached]
  /\ was = [k \in Keys |-> [v \in Values |-> 0]]

Defaults(l) == {t \in AgencyTemplates : l.tmpl[t].there /\ l.tmpl[t].default}

(* The template in force: the one linked, else the tenant's default; two   *)
(* defaults and scalar_one_or_none raises.                                 *)
InForce(l, link) ==
  IF link # NoLink THEN {t \in {link} : l.tmpl[t].there} ELSE Defaults(l)

(* What the cascade means, in one read of committed rows.                  *)
Effective(l, k) ==
  LET agency == InForce(l, l.link) IN
  IF k = "profiled" /\ l.profile # 0 THEN l.profile
  ELSE IF l.override # 0 THEN l.override
  ELSE IF Cardinality(agency) = 1 THEN l.tmpl[CHOOSE t \in agency : TRUE].value
  ELSE 0

Observed == was' = [k \in Keys |-> [was[k] EXCEPT ![Effective(levels', k)] = clock']]

(* Mutant: the values are cached for good. *)
TimeOnlyPasses ==
  /\ clock < MaxClock /\ clock' = clock + 1
  /\ \A r \in Readers : reader[r].pc = "idle" \/ clock - reader[r].since < ReadLag
  /\ cache' = cache
  /\ UNCHANGED <<levels, writer, changes, reader, redisFaults, crossed>>
  /\ Observed

(* Time passes; a cached value is gone when its time is up.                *)
TimePasses ==
  /\ clock < MaxClock /\ clock' = clock + 1
  /\ \A r \in Readers : reader[r].pc = "idle" \/ clock - reader[r].since < ReadLag
  /\ cache' = [k \in Keys |-> IF cache[k].on /\ clock' - cache[k].set >= TTL
                              THEN Uncached ELSE cache[k]]
  /\ UNCHANGED <<levels, writer, changes, reader, redisFaults, crossed>>
  /\ Observed

(* The rows a change has flushed stay locked until it commits.             *)
Rows(c) == CASE c.kind \in {"template", "delete"} -> {c.tmpl} \cup c.clears
             [] c.kind \in {"override", "link"} -> {"bot_config"}
             [] c.kind = "profile" -> {"profile"}
             [] OTHER -> {}

Locked == UNION {Rows(writer[w].change) : w \in Writers}

Flush(w, c) ==
  /\ writer[w].pc = "idle" /\ changes < MaxChanges /\ Rows(c) \cap Locked = {}
  /\ changes' = changes + 1
  /\ writer' = [writer EXCEPT ![w] = [pc |-> "flushed", change |-> c]]
  /\ crossed' = (crossed \/ (/\ c.kind = "template"
                          /\ \E v \in Writers : writer[v].change.kind = "template"))
  /\ UNCHANGED <<clock, levels, cache, reader, was, redisFaults>>

(* update_overrides, playground's apply; set_merchant_template,            *)
(* bulk_apply_template; update_profile: they set a value or clear it.      *)
WriteOverride(w) == \E v \in {0, changes + 1} :
  Flush(w, [NoChange EXCEPT !.kind = "override", !.value = v])
LinkTemplate(w) == \E t \in {u \in AgencyTemplates : levels.tmpl[u].there} \cup {NoLink} :
  Flush(w, [NoChange EXCEPT !.kind = "link", !.tmpl = t])
WriteProfile(w) == \E v \in {0, changes + 1} :
  Flush(w, [NoChange EXCEPT !.kind = "profile", !.value = v])

(* Mutant: a new default leaves the one before as it is. *)
ClearsNone(d) == {}

(* _clear_default: the committed defaults lose the flag.                   *)
Clears(d) == IF d THEN Defaults(levels) ELSE {}

(* create_template and update_template. *)
WriteTemplate(w) == \E t \in AgencyTemplates, d \in BOOLEAN :
  Flush(w, [kind |-> "template", value |-> changes + 1, tmpl |-> t, default |-> d,
            clears |-> Clears(d)])

DeleteTemplate(w) == \E t \in AgencyTemplates :
  /\ levels.tmpl[t].there
  /\ Flush(w, [NoChange EXCEPT !.kind = "delete", !.tmpl = t])

(* invalidate: every key of the merchant, profiles' too; a Redis that does *)
(* not answer is passed over.                                              *)
Invalidate(w) ==
  /\ writer[w].pc = "flushed"
  /\ \/ cache' = [k \in Keys |-> Uncached] /\ UNCHANGED redisFaults
     \/ redisFaults < MaxRedisFaults /\ redisFaults' = redisFaults + 1 /\ UNCHANGED cache
  /\ writer' = [writer EXCEPT ![w].pc = "invalidated"]
  /\ UNCHANGED <<clock, levels, changes, reader, was, crossed>>

After(c) ==
  CASE c.kind = "override" -> [levels EXCEPT !.override = c.value]
    [] c.kind = "link" -> [levels EXCEPT !.link = c.tmpl]
    [] c.kind = "profile" -> [levels EXCEPT !.profile = c.value]
    [] c.kind = "template" ->
         [levels EXCEPT !.tmpl = [t \in AgencyTemplates |->
            IF t = c.tmpl THEN [there |-> TRUE, value |-> c.value, default |-> c.default]
            ELSE IF t \in c.clears THEN [levels.tmpl[t] EXCEPT !.default = FALSE]
            ELSE levels.tmpl[t]]]
    [] c.kind = "delete" ->        \* the link follows by ON DELETE SET NULL
         [levels EXCEPT !.tmpl[c.tmpl] = [there |-> FALSE, value |-> 0, default |-> FALSE],
                        !.link = IF levels.link = c.tmpl THEN NoLink ELSE levels.link]
    [] OTHER -> levels

(* The request's session commits when its handler has returned.            *)
CommitWrite(w) ==
  /\ writer[w].pc = "invalidated"
  /\ levels' = After(writer[w].change)
  /\ writer' = [writer EXCEPT ![w] = IdleWriter]
  /\ reader' = [r \in Readers |-> IF reader[r].pc = "config" THEN [reader[r] EXCEPT !.torn = TRUE]
                                  ELSE reader[r]]
  /\ UNCHANGED <<clock, changes, cache, redisFaults, crossed>>
  /\ Observed

(* resolve: a hit ends here; a miss, or a Redis that fails, reads the rows.*)
CacheMiss(r) == \E k \in Keys :
  /\ reader[r].pc = "idle"
  /\ \/ ~cache[k].on /\ UNCHANGED redisFaults
     \/ redisFaults < MaxRedisFaults /\ redisFaults' = redisFaults + 1
  /\ reader' = [reader EXCEPT ![r] = [IdleReader EXCEPT !.pc = "missed", !.key = k, !.since = clock]]
  /\ UNCHANGED <<clock, levels, writer, changes, cache, was, crossed>>

(* Mutant: the merchant's override is looked up before the profile's. *)
OverrideFirst(r) ==
  LET x == reader[r]
      profile == IF x.key = "profiled" THEN levels.profile ELSE 0
      found == IF levels.override # 0 THEN levels.override ELSE profile IN
  /\ x.pc = "missed"
  /\ reader' = [reader EXCEPT ![r].pc = IF found # 0 THEN "resolved" ELSE "config",
                              ![r].found = found, ![r].link = levels.link]
  /\ UNCHANGED <<clock, levels, writer, changes, cache, was, redisFaults, crossed>>

(* The profile's bag, then the merchant's: the first that has the key.     *)
ReadConfig(r) ==
  LET x == reader[r]
      found == IF x.key = "profiled" /\ levels.profile # 0 THEN levels.profile ELSE levels.override IN
  /\ x.pc = "missed"
  /\ reader' = [reader EXCEPT ![r].pc = IF found # 0 THEN "resolved" ELSE "config",
                              ![r].found = found, ![r].link = levels.link]
  /\ UNCHANGED <<clock, levels, writer, changes, cache, was, redisFaults, crossed>>

(* The template the config row named, else the default, else the system's. *)
ReadTemplate(r) ==
  LET agency == InForce(levels, reader[r].link) IN
  /\ reader[r].pc = "config"
  /\ reader' = [reader EXCEPT ![r] =
       IF Cardinality(agency) > 1 THEN IdleReader       \* MultipleResultsFound
       ELSE [reader[r] EXCEPT !.pc = "resolved",
               !.found = IF agency = {} THEN 0 ELSE levels.tmpl[CHOOSE t \in agency : TRUE].value]]
  /\ UNCHANGED <<clock, levels, writer, changes, cache, was, redisFaults, crossed>>

CacheValue(r) ==
  /\ reader[r].pc = "resolved"
  /\ \/ /\ cache' = [cache EXCEPT ![reader[r].key] =
             [value |-> reader[r].found, set |-> clock, torn |-> reader[r].torn, on |-> TRUE]]
        /\ UNCHANGED redisFaults
     \/ redisFaults < MaxRedisFaults /\ redisFaults' = redisFaults + 1 /\ UNCHANGED cache
  /\ reader' = [reader EXCEPT ![r] = IdleReader]
  /\ UNCHANGED <<clock, levels, writer, changes, was, crossed>>

CascadeNext ==
  \/ TimePasses
  \/ \E w \in Writers : \/ WriteOverride(w) \/ LinkTemplate(w) \/ WriteProfile(w)
                        \/ WriteTemplate(w) \/ DeleteTemplate(w) \/ Invalidate(w) \/ CommitWrite(w)
  \/ \E r \in Readers : CacheMiss(r) \/ ReadConfig(r) \/ ReadTemplate(r) \/ CacheValue(r)

CascadeSpec == CascadeInit /\ [][CascadeNext]_cascadeVars

(* Whatever Redis loses and however writers, readers and the cache cross,  *)
(* a value is served no longer than a read and a TTL after it has stopped  *)
(* being what the cascade says; only a read that straddles a commit may    *)
(* have put one together that never was.                                   *)
StaleIsBounded ==
  \A k \in Keys : cache[k].on /\ ~cache[k].torn
                    => clock <= was[k][cache[k].value] + ReadLag + TTL

(* A tenant has two defaults, and each resolve() of its merchants fails,   *)
(* only if two requests that write templates overlapped.                   *)
OneDefault == Cardinality(Defaults(levels)) <= 1 \/ crossed

CascadeSafe == CascadeTypeOK /\ StaleIsBounded /\ OneDefault

(* bot_config.py:371-372: the cache is invalidated "so the new values take *)
(* effect immediately instead of after the ~60s TTL".                      *)
TakesEffectAtOnce ==
  \A k \in Keys :
     /\ cache[k].on /\ redisFaults = 0
     /\ \A w \in Writers : writer[w].pc = "idle"
     /\ \A r \in Readers : reader[r].pc = "idle"
     => cache[k].value = Effective(levels, k)
====
