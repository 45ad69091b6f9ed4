-------------------------------- MODULE Config --------------------------------
(***************************************************************************)
(* Where a manager's configuration comes from (internal/config, NewManager  *)
(* in internal/cache/manager.go, pkg/rentfree/rentfree.go): the defaults, a *)
(* JSON file, environment variables, the options of NewManager.  A program  *)
(* may build several managers from one *Config, which NewManager writes to. *)
(*                                                                         *)
(* Of the settings that are treated alike, some stand for all.  A number is *)
(* "usual", "other", or "outOfRange", what Validate looks for.              *)
(***************************************************************************)
EXTENDS Naturals, Sequences, FiniteSets

CONSTANTS Resilience,  \* the circuit breaker, retry and bulkhead, or some of them
          MaxGiven     \* bound: settings that the file and the environment give together

ASSUME ConfigAssumption ==
  Resilience \subseteq {"breaker", "retry", "bulkhead"} /\ MaxGiven \in Nat

Parts == {"memory", "redis", "datadog"} \cup Resilience

Enabled(part) == <<part, "enabled">>
Limit(part)   == <<part, "limit">>   \* failureThreshold, maxAttempts, maxConcurrent,
                                     \* poolSize, maxSizeMB
Shards        == <<"memory", "shards">>
Address       == <<"redis", "address">>
Level         == <<"defaults", "level">>
AgentHost     == <<"datadog", "agentHost">>
Prefix        == <<"datadog", "prefix">>

Flags    == {Enabled(part) : part \in Parts}
Numbers  == {Limit(part) : part \in Parts \ {"datadog"}} \cup {Shards}
Texts    == {Address, Level, AgentHost, Prefix}
Settings == Flags \cup Numbers \cup Texts

Valued(s) ==
  CASE s \in Flags   -> {"on", "off"}
    [] s \in Numbers -> {"usual", "other", "outOfRange"}
    [] s \in Texts   -> {"usual", "other", ""}

\* The variables: RENTFREE_<setting>, and some of DataDog's own.
DDAgentHost == <<"DD", "AGENT_HOST">>
DDService   == <<"DD", "SERVICE">>
Variables   == (Settings \ {Shards, AgentHost}) \cup {DDAgentHost, DDService}

\* An empty variable is as good as none.
Texted(v) == (IF v \in Settings THEN Valued(v) \ {""} ELSE {"usual", "other"}) \cup {"garbage"}

\* The functions from up to n members of S to the values that V gives for them.
Choices(S, V(_), n) ==
  UNION {{f \in [D -> UNION {V(s) : s \in D}] : \A s \in D : f[s] \in V(s)} :
           D \in {D \in SUBSET S : Cardinality(D) <= n}}

-----------------------------------------------------------------------------
(* internal/config                                                         *)

DefaultConfig ==
  [s \in Settings |-> IF s \in Flags
                      THEN IF s[1] \in {"redis", "datadog"} THEN "off" ELSE "on"
                      ELSE "usual"]

ForTesting ==
  [s \in Settings |-> IF s \in Flags THEN IF s[1] = "memory" THEN "on" ELSE "off"
                      ELSE IF s \in {AgentHost, Prefix} THEN ""
                      ELSE IF s = Address THEN "usual" ELSE "other"]

MemoryOnly == [DefaultConfig EXCEPT ![Enabled("redis")] = "off", ![Level] = "memoryOnly"]

Set(cfg, values) ==
  [s \in Settings |-> IF s \in DOMAIN values THEN values[s] ELSE cfg[s]]

On(cfg, part) == cfg[Enabled(part)] = "on"

Validate(cfg) ==
  /\ \A part \in Parts \ {"datadog"} : On(cfg, part) => cfg[Limit(part)] # "outOfRange"
  /\ On(cfg, "memory") => cfg[Shards] # "outOfRange"
  /\ On(cfg, "redis") => cfg[Address] # ""

\* parseBool takes garbage for false, parseInt keeps what was there.
Parse(s, text, old) ==
  CASE s \in Flags   -> IF text = "on" THEN "on" ELSE "off"
    [] s \in Numbers -> IF text = "garbage" THEN old ELSE text
    [] s \in Texts   -> text

DataDogOverrides(cfg, env) ==
  LET host == DDAgentHost \in DOMAIN env
  IN  [cfg EXCEPT
         ![AgentHost]          = IF host THEN env[DDAgentHost] ELSE @,
         ![Enabled("datadog")] = IF host THEN "on" ELSE @,
         ![Prefix]             = IF DDService \in DOMAIN env THEN env[DDService] ELSE @]

OursCountToo(cfg, env) ==
  LET c == DataDogOverrides(cfg, env)
  IN  [s \in Settings |-> IF s \in DOMAIN env THEN Parse(s, env[s], c[s]) ELSE c[s]]

applyEnvOverrides(cfg, env) ==
  LET c == DataDogOverrides(cfg, env)
      ours == (DOMAIN env \cap Settings)
                \ ((IF DDAgentHost \in DOMAIN env THEN {Enabled("datadog")} ELSE {})
                     \cup (IF DDService \in DOMAIN env THEN {Prefix} ELSE {}))
  IN  [s \in Settings |-> IF s \in ours THEN Parse(s, env[s], c[s]) ELSE c[s]]

-----------------------------------------------------------------------------
VARIABLES base,     \* the configuration the program starts from
          file,     \* what the JSON file sets
          env,      \* the variables that are set
          state,    \* "start", "ready" or "refused"
          cfg,      \* the *Config the program holds, and builds managers from
          given     \* the options that NewManager was given, for any manager so far
configVars == <<base, file, env, state, cfg, given>>

Nothing == <<>>

ConfigInit ==
  /\ base = DefaultConfig /\ file = Nothing /\ env = Nothing
  /\ state = "start" /\ cfg = DefaultConfig /\ given = {}

\* New, NewMemoryOnly, NewFromConfig(TestConfig()).
Start(b) ==
  /\ state = "start"
  /\ state' = "ready" /\ base' = b /\ cfg' = b
  /\ UNCHANGED <<file, env, given>>

ValidatedOnce(f, e, parses) ==
  LET c == applyEnvOverrides(Set(DefaultConfig, f), e)
  IN
  /\ state = "start"
  /\ file' = f /\ env' = e
  /\ IF parses /\ Validate(Set(DefaultConfig, f))
     THEN state' = "ready" /\ cfg' = c
     ELSE state' = "refused" /\ UNCHANGED cfg
  /\ UNCHANGED <<base, given>>

\* What Load refuses is refused, even if the environment would put it right.
LoadWithEnv(f, e, parses) ==
  LET c == applyEnvOverrides(Set(DefaultConfig, f), e)
  IN
  /\ state = "start"
  /\ file' = f /\ env' = e
  /\ IF parses /\ Validate(Set(DefaultConfig, f)) /\ Validate(c)
     THEN state' = "ready" /\ cfg' = c
     ELSE state' = "refused" /\ UNCHANGED cfg
  /\ UNCHANGED <<base, given>>

Options == {"redisAddress", "withoutRedis", "withoutResilience"}

ResilienceFlags == {Enabled(part) : part \in Resilience}

WithOptions(c, options) ==
  [s \in Settings |->
     CASE s = Address /\ "redisAddress" \in options                   -> "option"
       [] s = Enabled("redis") /\ "withoutRedis" \in options           -> "off"
       [] s \in ResilienceFlags /\ "withoutResilience" \in options     -> "off"
       [] OTHER                                                        -> c[s]]

\* cfg is a pointer: the next manager finds these options in it.
NewManager(options) ==
  /\ state = "ready"
  /\ cfg' = WithOptions(cfg, options)
  /\ given' = given \cup options
  /\ UNCHANGED <<base, file, env, state>>

ConfigNext ==
  \/ \E b \in {DefaultConfig, MemoryOnly, ForTesting} : Start(b)
  \/ \E n \in 0..MaxGiven :
       \E f \in Choices(Settings, Valued, n), e \in Choices(Variables, Texted, MaxGiven - n) :
         LoadWithEnv(f, e, TRUE)
  \/ LoadWithEnv(Nothing, Nothing, FALSE)
  \/ \E options \in SUBSET Options : NewManager(options)

ConfigSpec == ConfigInit /\ [][ConfigNext]_configVars

-----------------------------------------------------------------------------
(***************************************************************************)
(* A manager is only built from a configuration that passes Validate,       *)
(* whatever the file, the environment and the options of this and earlier   *)
(* managers add up to (Load, LoadWithEnv, NewManager).                      *)
(***************************************************************************)
BuiltFromValid == state = "ready" => Validate(cfg)

(***************************************************************************)
(* Who says what a setting is: the options of managers built so far from    *)
(* this configuration, DataDog's own variables, ours, the file, the         *)
(* defaults.                                                               *)
(***************************************************************************)
FromOptions(s) ==
  CASE s = Address /\ "redisAddress" \in given               -> {"option"}
    [] s = Enabled("redis") /\ "withoutRedis" \in given       -> {"off"}
    [] s \in ResilienceFlags /\ "withoutResilience" \in given -> {"off"}
    [] OTHER                                                  -> {}

FromDataDog(s) ==
  CASE s = AgentHost /\ DDAgentHost \in DOMAIN env          -> {env[DDAgentHost]}
    [] s = Enabled("datadog") /\ DDAgentHost \in DOMAIN env -> {"on"}
    [] s = Prefix /\ DDService \in DOMAIN env               -> {env[DDService]}
    [] OTHER                                                -> {}

FromOurs(s) ==
  IF s \in DOMAIN env /\ ~(s \in Numbers /\ env[s] = "garbage")
  THEN {IF s \in Flags /\ env[s] = "garbage" THEN "off" ELSE env[s]} ELSE {}

FromFile(s) == IF s \in DOMAIN file THEN {file[s]} ELSE {}

Sources(s) == <<FromOptions(s), FromDataDog(s), FromOurs(s), FromFile(s), {base[s]}>>

(***************************************************************************)
(* Every setting comes from the strongest source that says anything about   *)
(* it (Load, applyEnvOverrides, NewManager).                               *)
(***************************************************************************)
StrongestSourceCounts ==
  state = "ready" =>
    \A s \in Settings :
      \E n \in 1..5 :
        cfg[s] \in Sources(s)[n] /\ \A k \in 1..(n - 1) : Sources(s)[k] = {}
=============================================================================
