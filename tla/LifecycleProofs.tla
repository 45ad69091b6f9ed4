--------------------------- MODULE LifecycleProofs ---------------------------
(***************************************************************************)
(* Theorems of Config and of ManagerShutdown: what a Manager is built from, *)
(* and how it closes.                                                      *)
(*                                                                         *)
(* Config: the configuration is followed setting by setting through         *)
(* DataDogOverrides, applyEnvOverrides and WithOptions, each time according *)
(* to who decides the setting.  Inductive are that nobody has spoken before *)
(* the configuration is loaded (Untouched), and that every setting has its  *)
(* value from the strongest source (SourcesInv): NewManager writes its      *)
(* options into the configuration that the next Manager is built from.      *)
(*                                                                         *)
(* ManagerShutdown: ShutdownInv, below, for any number of goroutines that   *)
(* use and close the Manager.                                              *)
(***************************************************************************)
EXTENDS Config, ManagerShutdown, FiniteSetTheorems, TLAPS

-----------------------------------------------------------------------------
(* The configuration                                                       *)

\* The settings told apart.
LEMMA Kinds ==
  /\ Flags \cap Numbers = {} /\ Flags \cap Texts = {} /\ Numbers \cap Texts = {}
  /\ ResilienceFlags \subseteq Flags /\ Enabled("redis") \in Flags /\ Enabled("datadog") \in Flags
  /\ Enabled("redis") \notin ResilienceFlags /\ Enabled("datadog") \notin ResilienceFlags
  /\ Enabled("redis") # Enabled("datadog")
  /\ {Address, AgentHost, Prefix, Level} \subseteq Texts
  /\ Address # AgentHost /\ Address # Prefix /\ AgentHost # Prefix
  /\ Settings = Flags \cup Numbers \cup Texts
<1>1. /\ \A s \in Flags : s[2] = "enabled"
      /\ \A s \in Numbers : s[2] \in {"limit", "shards"}
      /\ \A s \in Texts : s[2] \in {"address", "level", "agentHost", "prefix"}
  BY DEF Flags, Numbers, Texts, Enabled, Limit, Shards, Address, Level, AgentHost, Prefix
<1>2. Flags \cap Numbers = {} /\ Flags \cap Texts = {} /\ Numbers \cap Texts = {}
  BY <1>1
<1>3. ResilienceFlags \subseteq Flags /\ Enabled("redis") \in Flags /\ Enabled("datadog") \in Flags
  BY DEF ResilienceFlags, Flags, Parts
<1>4. Enabled("redis") \notin ResilienceFlags /\ Enabled("datadog") \notin ResilienceFlags
  BY ConfigAssumption DEF ResilienceFlags, Enabled
<1>5. /\ Enabled("redis") # Enabled("datadog")
      /\ Address # AgentHost /\ Address # Prefix /\ AgentHost # Prefix
  BY DEF Enabled, Address, AgentHost, Prefix
<1>6. {Address, AgentHost, Prefix, Level} \subseteq Texts
  BY DEF Texts
<1> QED
  BY <1>2, <1>3, <1>4, <1>5, <1>6 DEF Settings

\* What Validate looks at.
LEMMA Validated ==
  /\ \A part \in Parts : Enabled(part) \in Flags
  /\ \A part \in Parts \ {"datadog"} : Limit(part) \in Numbers
  /\ Shards \in Numbers /\ "memory" \in Parts /\ "redis" \in Parts
BY DEF Flags, Numbers, Parts

-----------------------------------------------------------------------------
\* The setting s is decided by one of the options.
ByAddress(s, options)    == s = Address /\ "redisAddress" \in options
ByNoRedis(s, options)    == s = Enabled("redis") /\ "withoutRedis" \in options
ByNoResilience(s, options) == s \in ResilienceFlags /\ "withoutResilience" \in options
Undecided(s, options) ==
  ~ByAddress(s, options) /\ ~ByNoRedis(s, options) /\ ~ByNoResilience(s, options)

\* No two options decide the same setting.
LEMMA OneOption ==
  ASSUME NEW s, NEW options
  PROVE  /\ ByAddress(s, options) => ~ByNoRedis(s, options) /\ ~ByNoResilience(s, options)
         /\ ByNoRedis(s, options) => ~ByNoResilience(s, options)
BY Kinds DEF ByAddress, ByNoRedis, ByNoResilience

\* WithOptions, setting by setting.
LEMMA OptionsApplied ==
  ASSUME NEW c, NEW options, NEW s \in Settings
  PROVE  /\ ByAddress(s, options) => WithOptions(c, options)[s] = "option"
         /\ ByNoRedis(s, options) \/ ByNoResilience(s, options)
              => WithOptions(c, options)[s] = "off"
         /\ Undecided(s, options) => WithOptions(c, options)[s] = c[s]
<1>1. ASSUME ByAddress(s, options) PROVE WithOptions(c, options)[s] = "option"
  BY <1>1, OneOption, Zenon DEF WithOptions, ByAddress, ByNoRedis, ByNoResilience
<1>2. ASSUME ByNoRedis(s, options) PROVE WithOptions(c, options)[s] = "off"
  BY <1>2, OneOption, Zenon DEF WithOptions, ByAddress, ByNoRedis, ByNoResilience
<1>3. ASSUME ByNoResilience(s, options) PROVE WithOptions(c, options)[s] = "off"
  BY <1>3, OneOption, Zenon DEF WithOptions, ByAddress, ByNoRedis, ByNoResilience
<1>4. ASSUME Undecided(s, options) PROVE WithOptions(c, options)[s] = c[s]
  BY <1>4, Zenon DEF WithOptions, Undecided, ByAddress, ByNoRedis, ByNoResilience
<1> QED
  BY <1>1, <1>2, <1>3, <1>4

\* What the options given so far say of a setting.
LEMMA OptionsSay ==
  ASSUME NEW s
  PROVE  /\ ByAddress(s, given) => FromOptions(s) = {"option"}
         /\ ByNoRedis(s, given) \/ ByNoResilience(s, given) => FromOptions(s) = {"off"}
         /\ Undecided(s, given) => FromOptions(s) = {}
<1>1. ASSUME ByAddress(s, given) PROVE FromOptions(s) = {"option"}
  BY <1>1, OneOption, Zenon DEF FromOptions, ByAddress, ByNoRedis, ByNoResilience
<1>2. ASSUME ByNoRedis(s, given) PROVE FromOptions(s) = {"off"}
  BY <1>2, OneOption, Zenon DEF FromOptions, ByAddress, ByNoRedis, ByNoResilience
<1>3. ASSUME ByNoResilience(s, given) PROVE FromOptions(s) = {"off"}
  BY <1>3, OneOption, Zenon DEF FromOptions, ByAddress, ByNoRedis, ByNoResilience
<1>4. ASSUME Undecided(s, given) PROVE FromOptions(s) = {}
  BY <1>4, Zenon DEF FromOptions, Undecided, ByAddress, ByNoRedis, ByNoResilience
<1> QED
  BY <1>1, <1>2, <1>3, <1>4

\* The same after a step.
LEMMA OptionsSayNext ==
  ASSUME NEW s
  PROVE  /\ ByAddress(s, given') => FromOptions(s)' = {"option"}
         /\ ByNoRedis(s, given') \/ ByNoResilience(s, given') => FromOptions(s)' = {"off"}
         /\ Undecided(s, given') => FromOptions(s)' = {}
<1>1. ASSUME ByAddress(s, given') PROVE FromOptions(s)' = {"option"}
  BY <1>1, OneOption, Zenon DEF FromOptions, ByAddress, ByNoRedis, ByNoResilience
<1>2. ASSUME ByNoRedis(s, given') PROVE FromOptions(s)' = {"off"}
  BY <1>2, OneOption, Zenon DEF FromOptions, ByAddress, ByNoRedis, ByNoResilience
<1>3. ASSUME ByNoResilience(s, given') PROVE FromOptions(s)' = {"off"}
  BY <1>3, OneOption, Zenon DEF FromOptions, ByAddress, ByNoRedis, ByNoResilience
<1>4. ASSUME Undecided(s, given') PROVE FromOptions(s)' = {}
  BY <1>4, Zenon DEF FromOptions, Undecided, ByAddress, ByNoRedis, ByNoResilience
<1> QED
  BY <1>1, <1>2, <1>3, <1>4

\* The three configurations a program can start from pass Validate.
LEMMA StartsValid ==
  ASSUME NEW b \in {DefaultConfig, MemoryOnly, ForTesting}
  PROVE  Validate(b)
<1>1. ASSUME NEW s \in Numbers PROVE DefaultConfig[s] = "usual" /\ ForTesting[s] = "other"
  <2>1. s \in Settings /\ s \notin Flags /\ s \notin {AgentHost, Prefix} /\ s # Address
    BY Kinds
  <2> QED
    BY <2>1, Zenon DEF DefaultConfig, ForTesting
<1>2. ASSUME NEW s \in Numbers PROVE MemoryOnly[s] = "usual"
  <2>1. s \in Settings /\ s # Enabled("redis") /\ s # Level
    BY Kinds
  <2> QED
    BY <1>1, <2>1 DEF MemoryOnly, DefaultConfig
<1>3. DefaultConfig[Address] = "usual" /\ ForTesting[Address] = "usual"
  <2>1. Address \in Settings /\ Address \notin Flags /\ Address \notin {AgentHost, Prefix}
    BY Kinds
  <2> QED
    BY <2>1, Zenon DEF DefaultConfig, ForTesting
<1>4. MemoryOnly[Address] = "usual"
  <2>1. Address \in Settings /\ Address # Enabled("redis") /\ Address # Level
    BY Kinds DEF Address, Level
  <2> QED
    BY <1>3, <2>1 DEF MemoryOnly, DefaultConfig
<1>5. \A s \in Numbers : b[s] # "outOfRange"
  BY <1>1, <1>2
<1>6. b[Address] # ""
  BY <1>3, <1>4
<1> QED
  BY <1>5, <1>6, Validated DEF Validate

\* The options turn parts off and give Redis an address: what passed Validate
\* still passes.
LEMMA OptionsKeepValid ==
  ASSUME NEW c, NEW options, Validate(c)
  PROVE  Validate(WithOptions(c, options))
<1> DEFINE w == WithOptions(c, options)
<1>1. ASSUME NEW s \in Numbers PROVE w[s] = c[s]
  <2>1. s \in Settings /\ Undecided(s, options)
    BY Kinds DEF Undecided, ByAddress, ByNoRedis, ByNoResilience
  <2> QED
    BY <2>1, OptionsApplied
<1>2. ASSUME NEW s \in Flags PROVE w[s] \in {c[s], "off"}
  <2>1. s \in Settings /\ ~ByAddress(s, options)
    BY Kinds DEF ByAddress
  <2> HIDE DEF w
  <2>2. w[s] = c[s] \/ w[s] = "off"
    BY <2>1, OptionsApplied DEF Undecided, w
  <2> QED
    BY <2>2
<1>3. w[Address] \in {c[Address], "option"}
  <2>1. Address \in Settings /\ ~ByNoRedis(Address, options) /\ ~ByNoResilience(Address, options)
    BY Kinds DEF ByNoRedis, ByNoResilience
  <2>2. w[Address] = c[Address] \/ w[Address] = "option"
    BY <2>1, OptionsApplied DEF Undecided
  <2> QED
    BY <2>2
<1> HIDE DEF w
<1>4. \A part \in Parts : On(w, part) => On(c, part)
  BY <1>2, Validated DEF On
<1>5. \A part \in Parts \ {"datadog"} : On(w, part) => w[Limit(part)] # "outOfRange"
  BY <1>1, <1>4, Validated DEF Validate
<1>6. On(w, "memory") => w[Shards] # "outOfRange"
  BY <1>1, <1>4, Validated DEF Validate
<1>7. On(w, "redis") => w[Address] # ""
  BY <1>3, <1>4, Validated DEF Validate
<1> QED
  BY <1>5, <1>6, <1>7 DEF Validate, w
-----------------------------------------------------------------------------
\* Before the configuration is loaded nobody has said anything.
Untouched ==
  state = "start" => base = DefaultConfig /\ file = Nothing /\ env = Nothing /\ given = {}

\* The configuration of a manager passes Validate.
ConfigInv == Untouched /\ BuiltFromValid

\* A manager is built from a configuration that passed Validate when it was loaded,
\* or is one of those to start from; options keep it valid.
LEMMA ConfigInvariance == ConfigSpec => []ConfigInv
<1>1. ConfigInit => ConfigInv
  BY DEF ConfigInit, ConfigInv, Untouched, BuiltFromValid
<1>2. ConfigInv /\ [ConfigNext]_configVars => ConfigInv'
  <2> SUFFICES ASSUME ConfigInv, [ConfigNext]_configVars PROVE ConfigInv'
    OBVIOUS
  <2>1. ASSUME NEW b \in {DefaultConfig, MemoryOnly, ForTesting}, Start(b) PROVE ConfigInv'
    <3>1. state' = "ready" /\ cfg' = b /\ Validate(b)
      BY <2>1, StartsValid DEF Start
    <3> QED
      BY <3>1, Zenon DEF ConfigInv, Untouched, BuiltFromValid
  <2>2. ASSUME NEW f, NEW e, NEW parses, LoadWithEnv(f, e, parses) PROVE ConfigInv'
    <3>1. \/ state' = "refused"
          \/ state' = "ready" /\ Validate(cfg')
      <4> DEFINE c == applyEnvOverrides(Set(DefaultConfig, f), e)
      <4>1. \/ state' = "ready" /\ Validate(c) /\ cfg' = c
            \/ state' = "refused"
        BY <2>2, Zenon DEF LoadWithEnv
      <4> HIDE DEF c
      <4> QED
        BY <4>1, Zenon
    <3> QED
      BY <3>1 DEF ConfigInv, Untouched, BuiltFromValid
  <2>3. ASSUME NEW options, NewManager(options) PROVE ConfigInv'
    <3>1. state = "ready" /\ state' = "ready" /\ cfg' = WithOptions(cfg, options)
      BY <2>3 DEF NewManager
    <3>2. Validate(cfg')
      BY <3>1, OptionsKeepValid, Zenon DEF ConfigInv, BuiltFromValid
    <3> QED
      BY <3>1, <3>2 DEF ConfigInv, Untouched, BuiltFromValid
  <2>4. CASE UNCHANGED configVars
    BY <2>4, Zenon DEF configVars, ConfigInv, Untouched, BuiltFromValid
  <2> QED
    BY <2>1, <2>2, <2>3, <2>4 DEF ConfigNext
<1> QED
  BY <1>1, <1>2, PTL DEF ConfigSpec

\* Whatever the file, the environment and the options of any number of managers say,
\* a manager is built from a configuration that passes Validate (Load, LoadWithEnv,
\* NewManager).
THEOREM OnlyValidIsBuilt == ConfigSpec => []BuiltFromValid
BY ConfigInvariance, PTL DEF ConfigInv

-----------------------------------------------------------------------------
\* The value v comes from the strongest of the five sources that says anything.
Strongest(v, s) ==
  \/ v \in FromOptions(s)
  \/ FromOptions(s) = {} /\ v \in FromDataDog(s)
  \/ FromOptions(s) = {} /\ FromDataDog(s) = {} /\ v \in FromOurs(s)
  \/ FromOptions(s) = {} /\ FromDataDog(s) = {} /\ FromOurs(s) = {} /\ v \in FromFile(s)
  \/ /\ FromOptions(s) = {} /\ FromDataDog(s) = {} /\ FromOurs(s) = {} /\ FromFile(s) = {}
     /\ v = base[s]

\* Strongest, in the words of StrongestSourceCounts.
LEMMA StrongestIsFirst ==
  ASSUME NEW v, NEW s, Strongest(v, s)
  PROVE  \E n \in 1..5 : v \in Sources(s)[n] /\ \A k \in 1..(n - 1) : Sources(s)[k] = {}
<1> DEFINE q == Sources(s)
<1>1. /\ q[1] = FromOptions(s) /\ q[2] = FromDataDog(s) /\ q[3] = FromOurs(s)
      /\ q[4] = FromFile(s) /\ q[5] = {base[s]}
  BY DEF Sources
<1> HIDE DEF q
<1>2. /\ \A k \in 1..(1 - 1) : FALSE
      /\ \A k \in 1..(2 - 1) : k = 1
      /\ \A k \in 1..(3 - 1) : k = 1 \/ k = 2
      /\ \A k \in 1..(4 - 1) : k = 1 \/ k = 2 \/ k = 3
      /\ \A k \in 1..(5 - 1) : k = 1 \/ k = 2 \/ k = 3 \/ k = 4
  OBVIOUS
<1>3. 1 \in 1..5 /\ 2 \in 1..5 /\ 3 \in 1..5 /\ 4 \in 1..5 /\ 5 \in 1..5
  OBVIOUS
<1>4. \E n \in 1..5 : v \in q[n] /\ \A k \in 1..(n - 1) : q[k] = {}
  <2>1. CASE v \in q[1]
    BY <1>2, <1>3, <2>1, Zenon
  <2>2. CASE q[1] = {} /\ v \in q[2]
    BY <1>2, <1>3, <2>2, Zenon
  <2>3. CASE q[1] = {} /\ q[2] = {} /\ v \in q[3]
    BY <1>2, <1>3, <2>3, Zenon
  <2>4. CASE q[1] = {} /\ q[2] = {} /\ q[3] = {} /\ v \in q[4]
    BY <1>2, <1>3, <2>4, Zenon
  <2>5. CASE q[1] = {} /\ q[2] = {} /\ q[3] = {} /\ q[4] = {} /\ v \in q[5]
    BY <1>2, <1>3, <2>5, Zenon
  <2>6. v = base[s] => v \in q[5]
    BY <1>1
  <2> QED
    BY <1>1, <2>1, <2>2, <2>3, <2>4, <2>5, <2>6, Zenon DEF Strongest
<1> QED
  BY <1>4 DEF q

\* The environment sets known variables, to texts that are not empty.
IsEnvironment(e) == \A s \in DOMAIN e : s \in Variables /\ e[s] \in Texted(s)

\* The environments that a program is run in are such.
LEMMA ChosenEnvironments ==
  ASSUME NEW n, NEW e \in Choices(Variables, Texted, n)
  PROVE  IsEnvironment(e)
BY DEF Choices, IsEnvironment

\* What DataDog's variables make of a configuration, setting by setting.
ByHost(s, e)    == s = AgentHost /\ DDAgentHost \in DOMAIN e
ByHostToo(s, e) == s = Enabled("datadog") /\ DDAgentHost \in DOMAIN e
ByService(s, e) == s = Prefix /\ DDService \in DOMAIN e
NotDataDog(s, e) == ~ByHost(s, e) /\ ~ByHostToo(s, e) /\ ~ByService(s, e)

\* No two of DataDog's variables decide the same setting.
LEMMA OneDataDog ==
  ASSUME NEW s, NEW e
  PROVE  /\ ByHost(s, e) => ~ByHostToo(s, e) /\ ~ByService(s, e)
         /\ ByHostToo(s, e) => ~ByService(s, e)
BY Kinds DEF ByHost, ByHostToo, ByService

\* DataDogOverrides, setting by setting.
LEMMA DataDogApplied ==
  ASSUME NEW f, NEW e, NEW s \in Settings
  PROVE  LET d == Set(DefaultConfig, f)  c == DataDogOverrides(d, e)
         IN  /\ ByHost(s, e) => c[s] = e[DDAgentHost]
             /\ ByHostToo(s, e) => c[s] = "on"
             /\ ByService(s, e) => c[s] = e[DDService]
             /\ NotDataDog(s, e) => c[s] = d[s]
<1> DEFINE d == Set(DefaultConfig, f)
           c == DataDogOverrides(d, e)
<1>1. d = [t \in Settings |-> d[t]]
  BY DEF Set
<1> HIDE DEF d
<1>2. c = [d EXCEPT
             ![AgentHost]          = IF DDAgentHost \in DOMAIN e THEN e[DDAgentHost] ELSE @,
             ![Enabled("datadog")] = IF DDAgentHost \in DOMAIN e THEN "on" ELSE @,
             ![Prefix]             = IF DDService \in DOMAIN e THEN e[DDService] ELSE @]
  BY Zenon DEF DataDogOverrides
<1>3. /\ AgentHost # Enabled("datadog") /\ AgentHost # Prefix /\ Prefix # Enabled("datadog")
      /\ AgentHost \in Settings /\ Enabled("datadog") \in Settings /\ Prefix \in Settings
  BY Kinds
<1> DEFINE x == IF DDAgentHost \in DOMAIN e THEN e[DDAgentHost] ELSE d[AgentHost]
           y == IF DDAgentHost \in DOMAIN e THEN "on" ELSE d[Enabled("datadog")]
           z == IF DDService \in DOMAIN e THEN e[DDService] ELSE d[Prefix]
<1>4. c = [[[d EXCEPT ![AgentHost] = x] EXCEPT ![Enabled("datadog")] = y] EXCEPT ![Prefix] = z]
  BY <1>1, <1>2, <1>3
<1> HIDE DEF x, y, z, c
<1>5. /\ c[AgentHost] = x /\ c[Enabled("datadog")] = y /\ c[Prefix] = z
      /\ s \notin {AgentHost, Enabled("datadog"), Prefix} => c[s] = d[s]
  BY <1>1, <1>3, <1>4
<1> QED
  BY <1>3, <1>5 DEF c, d, x, y, z, ByHost, ByHostToo, ByService, NotDataDog

\* What DataDog's variables say of a setting once the program has started.
LEMMA DataDogSaysNext ==
  ASSUME NEW s
  PROVE  /\ ByHost(s, env') => FromDataDog(s)' = {env'[DDAgentHost]}
         /\ ByHostToo(s, env') => FromDataDog(s)' = {"on"}
         /\ ByService(s, env') => FromDataDog(s)' = {env'[DDService]}
         /\ NotDataDog(s, env') => FromDataDog(s)' = {}
<1>1. ASSUME ByHost(s, env') PROVE FromDataDog(s)' = {env'[DDAgentHost]}
  BY <1>1, OneDataDog, Zenon DEF FromDataDog, ByHost, ByHostToo, ByService
<1>2. ASSUME ByHostToo(s, env') PROVE FromDataDog(s)' = {"on"}
  BY <1>2, OneDataDog, Zenon DEF FromDataDog, ByHost, ByHostToo, ByService
<1>3. ASSUME ByService(s, env') PROVE FromDataDog(s)' = {env'[DDService]}
  BY <1>3, OneDataDog, Zenon DEF FromDataDog, ByHost, ByHostToo, ByService
<1>4. ASSUME NotDataDog(s, env') PROVE FromDataDog(s)' = {}
  BY <1>4, Zenon DEF FromDataDog, NotDataDog, ByHost, ByHostToo, ByService
<1> QED
  BY <1>1, <1>2, <1>3, <1>4

\* Parse, kind by kind.
LEMMA Parsed ==
  ASSUME NEW s \in Settings, NEW text, NEW old
  PROVE  /\ s \in Flags => Parse(s, text, old) = IF text = "on" THEN "on" ELSE "off"
         /\ s \in Numbers => Parse(s, text, old) = IF text = "garbage" THEN old ELSE text
         /\ s \in Texts => Parse(s, text, old) = text
<1>1. CASE s \in Flags
  <2>1. s \notin Numbers /\ s \notin Texts
    BY <1>1, Kinds
  <2> QED
    BY <1>1, <2>1, Zenon DEF Parse
<1>2. CASE s \in Numbers
  <2>1. s \notin Flags /\ s \notin Texts
    BY <1>2, Kinds
  <2> QED
    BY <1>2, <2>1, Zenon DEF Parse
<1>3. CASE s \in Texts
  <2>1. s \notin Flags /\ s \notin Numbers
    BY <1>3, Kinds
  <2> QED
    BY <1>3, <2>1, Zenon DEF Parse
<1> QED
  BY <1>1, <1>2, <1>3, Kinds

\* A flag's variable is "on", "off" or garbage.
LEMMA TextedFlags ==
  ASSUME NEW s \in Flags
  PROVE  Texted(s) \subseteq {"on", "off", "garbage"}
<1>1. s \in Settings /\ s \notin Numbers /\ s \notin Texts
  BY Kinds
<1>2. Valued(s) = {"on", "off"}
  BY <1>1, Zenon DEF Valued
<1> QED
  BY <1>1, <1>2 DEF Texted

\* applyEnvOverrides, setting by setting.
LEMMA EnvironmentApplied ==
  ASSUME NEW f, NEW e, IsEnvironment(e), NEW s \in Settings
  PROVE  LET d == Set(DefaultConfig, f)
             c == DataDogOverrides(d, e)
             a == applyEnvOverrides(d, e)
         IN  /\ ~NotDataDog(s, e) => a[s] = c[s]
             /\ NotDataDog(s, e) /\ s \notin DOMAIN e => a[s] = d[s]
             /\ NotDataDog(s, e) /\ s \in DOMAIN e => a[s] = Parse(s, e[s], d[s])
<1> DEFINE d == Set(DefaultConfig, f)
           c == DataDogOverrides(d, e)
           a == applyEnvOverrides(d, e)
           mine == (DOMAIN e \cap Settings)
                     \ ((IF DDAgentHost \in DOMAIN e THEN {Enabled("datadog")} ELSE {})
                          \cup (IF DDService \in DOMAIN e THEN {Prefix} ELSE {}))
<1>1. a = [t \in Settings |-> IF t \in mine THEN Parse(t, e[t], c[t]) ELSE c[t]]
  BY Zenon DEF applyEnvOverrides
<1>2. NotDataDog(s, e) => c[s] = d[s]
  BY DataDogApplied
<1>3. AgentHost \notin DOMAIN e
  <2>1. AgentHost \notin Variables
    <3>1. AgentHost # DDAgentHost /\ AgentHost # DDService
      BY DEF AgentHost, DDAgentHost, DDService
    <3> QED
      BY <3>1 DEF Variables
  <2> QED
    BY <2>1 DEF IsEnvironment
<1>4. s \in mine <=> s \in DOMAIN e /\ NotDataDog(s, e)
  BY <1>3 DEF NotDataDog, ByHost, ByHostToo, ByService
<1> HIDE DEF mine, c, d, a
<1>5. a[s] = IF s \in mine THEN Parse(s, e[s], c[s]) ELSE c[s]
  BY <1>1
<1> QED
  BY <1>2, <1>4, <1>5 DEF a, c, d


-----------------------------------------------------------------------------
\* Every setting of a configuration that is ready has its value from the strongest
\* source.
SourcesInv == state = "ready" => \A s \in Settings : Strongest(cfg[s], s)

\* Nobody but the file, the environment and the defaults has spoken yet.
LEMMA NoOptions ==
  ASSUME given' = {}, NEW s
  PROVE  FromOptions(s)' = {}
<1>1. Undecided(s, given')
  BY DEF Undecided, ByAddress, ByNoRedis, ByNoResilience
<1> QED
  BY <1>1, OptionsSayNext

\* A configuration to start from is the only source.
LEMMA StartSources ==
  ASSUME ConfigInv, NEW b, Start(b), NEW s \in Settings
  PROVE  Strongest(cfg[s], s)'
<1>1. /\ given' = {} /\ env' = <<>> /\ file' = <<>> /\ cfg' = b /\ base' = b
  BY DEF Start, ConfigInv, Untouched, Nothing
<1>2. DOMAIN env' = {} /\ DOMAIN file' = {}
  BY <1>1
<1>3. FromOptions(s)' = {}
  BY <1>1, NoOptions
<1>4. FromDataDog(s)' = {}
  <2>1. NotDataDog(s, env')
    BY <1>2 DEF NotDataDog, ByHost, ByHostToo, ByService
  <2> QED
    BY <2>1, DataDogSaysNext
<1>5. FromOurs(s)' = {} /\ FromFile(s)' = {}
  BY <1>2 DEF FromOurs, FromFile
<1>6. cfg'[s] = base'[s]
  BY <1>1
<1> QED
  BY <1>3, <1>4, <1>5, <1>6 DEF Strongest

\* LoadWithEnv: DataDog's variables count before ours, ours before the file, the file
\* before the defaults; a number that is garbage leaves the word to the file.
LEMMA LoadSources ==
  ASSUME ConfigInv, NEW f, NEW e, NEW parses, IsEnvironment(e), LoadWithEnv(f, e, parses),
         state' = "ready", NEW s \in Settings
  PROVE  Strongest(cfg[s], s)'
<1> DEFINE d == Set(DefaultConfig, f)
           c == DataDogOverrides(d, e)
           a == applyEnvOverrides(d, e)
<1>1. /\ given' = {} /\ env' = e /\ file' = f /\ cfg' = a /\ base' = DefaultConfig
  <2>1. /\ file' = f /\ env' = e /\ base' = base /\ given' = given /\ state = "start"
        /\ \/ state' = "refused"
           \/ cfg' = a
    BY Zenon DEF LoadWithEnv
  <2> HIDE DEF a
  <2> QED
    BY <2>1 DEF ConfigInv, Untouched
<1>2. FromOptions(s)' = {}
  BY <1>1, NoOptions
<1>3. /\ ~NotDataDog(s, e) => a[s] = c[s]
      /\ NotDataDog(s, e) /\ s \notin DOMAIN e => a[s] = d[s]
      /\ NotDataDog(s, e) /\ s \in DOMAIN e => a[s] = Parse(s, e[s], d[s])
  BY EnvironmentApplied
<1>4. /\ s \in DOMAIN f => d[s] = f[s]
      /\ s \notin DOMAIN f => d[s] = DefaultConfig[s]
  BY DEF Set
<1>5. /\ ByHost(s, e) => c[s] = e[DDAgentHost]
      /\ ByHostToo(s, e) => c[s] = "on"
      /\ ByService(s, e) => c[s] = e[DDService]
  BY DataDogApplied
<1> HIDE DEF a, c, d
<1>6. CASE ~NotDataDog(s, e)
  <2>1. cfg'[s] \in FromDataDog(s)'
    BY <1>1, <1>3, <1>5, <1>6, DataDogSaysNext DEF NotDataDog
  <2> QED
    BY <1>2, <2>1 DEF Strongest
<1>7. CASE NotDataDog(s, e)
  <2>1. FromDataDog(s)' = {}
    BY <1>1, <1>7, DataDogSaysNext
  <2>2. ASSUME FromOurs(s)' = {}, cfg'[s] = d[s] PROVE Strongest(cfg[s], s)'
    <3>1. CASE s \in DOMAIN f
      <4>1. cfg'[s] \in FromFile(s)'
        BY <1>1, <1>4, <2>2, <3>1 DEF FromFile
      <4> QED
        BY <1>2, <2>1, <2>2, <4>1 DEF Strongest
    <3>2. CASE s \notin DOMAIN f
      <4>1. FromFile(s)' = {} /\ cfg'[s] = base'[s]
        BY <1>1, <1>4, <2>2, <3>2 DEF FromFile
      <4> QED
        BY <1>2, <2>1, <2>2, <4>1 DEF Strongest
    <3> QED
      BY <3>1, <3>2
  <2>3. CASE s \notin DOMAIN e
    <3>1. FromOurs(s)' = {} /\ cfg'[s] = d[s]
      BY <1>1, <1>3, <1>7, <2>3 DEF FromOurs
    <3> QED
      BY <2>2, <3>1
  <2>4. CASE s \in DOMAIN e /\ s \in Numbers /\ e[s] = "garbage"
    <3>1. cfg'[s] = d[s]
      BY <1>1, <1>3, <1>7, <2>4, Parsed
    <3>2. FromOurs(s)' = {}
      BY <1>1, <2>4 DEF FromOurs
    <3> QED
      BY <2>2, <3>1, <3>2
  <2>5. CASE s \in DOMAIN e /\ ~(s \in Numbers /\ e[s] = "garbage")
    <3>1. FromOurs(s)' = {IF s \in Flags /\ e[s] = "garbage" THEN "off" ELSE e[s]}
      BY <1>1, <2>5 DEF FromOurs
    <3>2. cfg'[s] = Parse(s, e[s], d[s])
      BY <1>1, <1>3, <1>7, <2>5
    <3>3. cfg'[s] \in FromOurs(s)'
      <4>1. CASE s \in Flags
        <5>1. e[s] \in {"on", "off", "garbage"}
          BY <2>5, <4>1, TextedFlags DEF IsEnvironment
        <5> QED
          BY <3>1, <3>2, <4>1, <5>1, Parsed
      <4>2. CASE s \in Numbers
        <5>1. s \notin Flags
          BY <4>2, Kinds
        <5> QED
          BY <2>5, <3>1, <3>2, <4>2, <5>1, Parsed
      <4>3. CASE s \in Texts
        <5>1. s \notin Flags
          BY <4>3, Kinds
        <5> QED
          BY <3>1, <3>2, <4>3, <5>1, Parsed
      <4> QED
        BY <4>1, <4>2, <4>3, Kinds
    <3> QED
      BY <1>2, <2>1, <3>3 DEF Strongest
  <2> QED
    BY <2>3, <2>4, <2>5
<1> QED
  BY <1>6, <1>7

\* NewManager: an option counts before all other sources, in this manager and in those
\* built from the same configuration later.
LEMMA OptionSources ==
  ASSUME SourcesInv, NEW options, NewManager(options), NEW s \in Settings
  PROVE  Strongest(cfg[s], s)'
<1>1. /\ state = "ready" /\ cfg' = WithOptions(cfg, options) /\ given' = given \cup options
      /\ UNCHANGED <<base, file, env>>
  BY DEF NewManager
<1>2. Strongest(cfg[s], s)
  BY <1>1 DEF SourcesInv
<1>3. CASE ByAddress(s, options)
  <2>1. cfg'[s] = "option" /\ ByAddress(s, given')
    BY <1>1, <1>3, OptionsApplied DEF ByAddress
  <2> QED
    BY <2>1, OptionsSayNext DEF Strongest
<1>4. CASE ByNoRedis(s, options) \/ ByNoResilience(s, options)
  <2>1. cfg'[s] = "off" /\ (ByNoRedis(s, given') \/ ByNoResilience(s, given'))
    BY <1>1, <1>4, OptionsApplied DEF ByNoRedis, ByNoResilience
  <2> QED
    BY <2>1, OptionsSayNext DEF Strongest
<1>5. CASE Undecided(s, options)
  <2>1. cfg'[s] = cfg[s]
    BY <1>1, <1>5, OptionsApplied
  <2>2. FromOptions(s)' = FromOptions(s)
    <3>1. /\ ByAddress(s, given') <=> ByAddress(s, given)
          /\ ByNoRedis(s, given') <=> ByNoRedis(s, given)
          /\ ByNoResilience(s, given') <=> ByNoResilience(s, given)
      BY <1>1, <1>5 DEF Undecided, ByAddress, ByNoRedis, ByNoResilience
    <3> QED
      BY <3>1, OptionsSay, OptionsSayNext DEF Undecided
  <2>3. /\ FromDataDog(s)' = FromDataDog(s) /\ FromOurs(s)' = FromOurs(s)
        /\ FromFile(s)' = FromFile(s)
    BY <1>1, Zenon DEF FromDataDog, FromOurs, FromFile
  <2> QED
    BY <1>1, <1>2, <2>1, <2>2, <2>3 DEF Strongest
<1> QED
  BY <1>3, <1>4, <1>5 DEF Undecided

\* No variable at all is an environment, too.
LEMMA NothingIsSet == IsEnvironment(Nothing)
BY DEF IsEnvironment, Nothing

\* Every step keeps the sources in their order.
LEMMA SourcesStep ==
  ConfigInv /\ SourcesInv /\ [ConfigNext]_configVars => SourcesInv'
<1> SUFFICES ASSUME ConfigInv, SourcesInv, [ConfigNext]_configVars,
                    state' = "ready", NEW s \in Settings
             PROVE  Strongest(cfg[s], s)'
  BY DEF SourcesInv
<1>1. ASSUME NEW b \in {DefaultConfig, MemoryOnly, ForTesting}, Start(b)
      PROVE  Strongest(cfg[s], s)'
  BY <1>1, StartSources
<1>2. ASSUME NEW n \in 0..MaxGiven, NEW f \in Choices(Settings, Valued, n),
             NEW e \in Choices(Variables, Texted, MaxGiven - n), LoadWithEnv(f, e, TRUE)
      PROVE  Strongest(cfg[s], s)'
  <2>1. IsEnvironment(e)
    BY ChosenEnvironments
  <2> QED
    BY <1>2, <2>1, LoadSources
<1>3. CASE LoadWithEnv(Nothing, Nothing, FALSE)
  BY <1>3, NothingIsSet, LoadSources
<1>4. ASSUME NEW options, NewManager(options) PROVE Strongest(cfg[s], s)'
  BY <1>4, OptionSources
<1>5. CASE UNCHANGED configVars
  <2>1. UNCHANGED <<base, file, env, state, cfg, given>>
    BY <1>5 DEF configVars
  <2>2. Strongest(cfg[s], s)
    BY <2>1 DEF SourcesInv
  <2>3. /\ FromDataDog(s)' = FromDataDog(s) /\ FromOurs(s)' = FromOurs(s)
        /\ FromFile(s)' = FromFile(s) /\ FromOptions(s)' = FromOptions(s)
    BY <2>1, Zenon DEF FromDataDog, FromOurs, FromFile, FromOptions
  <2> QED
    BY <2>1, <2>2, <2>3 DEF Strongest
<1> QED
  BY <1>1, <1>2, <1>3, <1>4, <1>5, Zenon DEF ConfigNext

\* For any choice of settings in the file and the environment: every setting a manager
\* is built with comes from the strongest source that says anything about it (Load,
\* applyEnvOverrides, NewManager).
THEOREM StrongestSource == ConfigSpec => []StrongestSourceCounts
<1>1. ConfigInit => SourcesInv
  BY DEF ConfigInit, SourcesInv
<1>2. SourcesInv => StrongestSourceCounts
  BY StrongestIsFirst DEF SourcesInv, StrongestSourceCounts
<1> QED
  BY <1>1, <1>2, ConfigInvariance, SourcesStep, PTL DEF ConfigSpec

-----------------------------------------------------------------------------
(* Closing the Manager                                                     *)

(***************************************************************************)
(* The inductive invariant: the mutex is held by whoever is between Lock   *)
(* and Unlock; once closed is set nobody is about to Add, and once Wait    *)
(* has returned nothing runs; one goroutine at most leads the close, and   *)
(* the layers it has not come to are open.                                 *)
(***************************************************************************)
Critical == {"check", "add", "unlock", "swap", "cancel", "leave"}
Leading  == {"cancel", "wait", "closeMemory", "closeRedis"}

MutexIsHeld == \A g \in Goroutines : pc[g] \in Critical <=> bgMu = g

ClosedIsFinal ==
  /\ closed => \A u \in Users : pc[u] # "add"
  /\ \A k \in Closers : pc[k] \in Leading => closed
  /\ waited => closed /\ bgWg = 0
  /\ \A k \in Closers : pc[k] = "closeMemory" => waited \/ timedOut
  /\ memoryCloses > 0 => waited \/ timedOut

OneLeads ==
  /\ \A k, l \in Closers : pc[k] \in Leading /\ pc[l] \in Leading => k = l
  /\ ~closed => memoryCloses = 0 /\ redisCloses = 0
  /\ \A k \in Closers : pc[k] \in {"cancel", "wait", "closeMemory"} => memoryCloses = 0
  /\ \A k \in Closers : pc[k] \in Leading => redisCloses = 0
  /\ memoryCloses <= 1 /\ redisCloses <= 1

ShutdownInv == TypeOK /\ MutexIsHeld /\ WorkIsCounted /\ ClosedIsFinal /\ OneLeads

LEMMA StartingFinite == IsFiniteSet(Starting) /\ Cardinality(Starting) \in Nat
<1>1. Starting \in SUBSET Users
  BY DEF Starting
<1>2. IsFiniteSet(Starting)
  BY <1>1, FS_Subset, ShutdownAssumption
<1> QED
  BY <1>2, FS_CardinalityType

(***************************************************************************)
(* Only Add and Go change the work that is about to start.                 *)
(***************************************************************************)
LEMMA StartingMoves ==
  ASSUME TypeOK, NEW g \in Goroutines, NEW from, NEW to, Step(g, from, to)
  PROVE  /\ g \in Closers \/ (from # "go" /\ to # "go") => Starting' = Starting
         /\ g \in Users /\ from # "go" /\ to = "go" =>
              Cardinality(Starting') = Cardinality(Starting) + 1
         /\ g \in Users /\ from = "go" /\ to # "go" =>
              Cardinality(Starting') = Cardinality(Starting) - 1
<1>1. /\ pc[g] = from /\ pc'[g] = to
      /\ \A h \in Goroutines : h # g => pc'[h] = pc[h]
  BY DEF Step, TypeOK
<1>2. ASSUME g \in Closers \/ (from # "go" /\ to # "go")
      PROVE  Starting' = Starting
  <2>1. \A u \in Users : pc'[u] = "go" <=> pc[u] = "go"
    BY <1>1, <1>2, ShutdownAssumption DEF Goroutines
  <2> QED
    BY <2>1 DEF Starting
<1>3. ASSUME g \in Users, from # "go", to = "go"
      PROVE  Cardinality(Starting') = Cardinality(Starting) + 1
  <2>1. Starting' = Starting \cup {g} /\ g \notin Starting
    BY <1>1, <1>3 DEF Starting, Goroutines
  <2> QED
    BY <2>1, StartingFinite, FS_AddElement
<1>4. ASSUME g \in Users, from = "go", to # "go"
      PROVE  Cardinality(Starting') = Cardinality(Starting) - 1
  <2>1. Starting' = Starting \ {g} /\ g \in Starting
    BY <1>1, <1>4 DEF Starting, Goroutines
  <2> QED
    BY <2>1, StartingFinite, FS_RemoveElement
<1> QED
  BY <1>2, <1>3, <1>4

LEMMA ShutdownInit == Init => ShutdownInv
<1> SUFFICES ASSUME Init PROVE ShutdownInv
  OBVIOUS
<1>1. Starting = {}
  BY DEF Init, Starting, Goroutines
<1>2. WorkIsCounted
  BY <1>1, FS_EmptySet DEF WorkIsCounted, Init
<1>3. \A g \in Goroutines : pc[g] \in {"idle", "open"} /\ g # "free"
  BY ShutdownAssumption DEF Init, Goroutines
<1>4. TypeOK
  BY ShutdownAssumption DEF Init, TypeOK, Goroutines, UserPlaces, CloserPlaces
<1>5. MutexIsHeld
  BY <1>3 DEF MutexIsHeld, Init, Critical
<1>6. ClosedIsFinal /\ OneLeads
  BY <1>3 DEF ClosedIsFinal, OneLeads, Init, Leading, Goroutines
<1> QED
  BY <1>2, <1>4, <1>5, <1>6 DEF ShutdownInv

-----------------------------------------------------------------------------
LEMMA StepMoves ==
  ASSUME TypeOK, NEW g \in Goroutines, NEW from, NEW to, Step(g, from, to)
  PROVE  /\ pc[g] = from /\ pc'[g] = to
         /\ \A h \in Goroutines : h # g => pc'[h] = pc[h]
         /\ to \in UserPlaces \cup CloserPlaces =>
              pc' \in [Goroutines -> UserPlaces \cup CloserPlaces]
BY DEF Step, TypeOK

LEMMA UserInv ==
  ASSUME ShutdownInv, NEW u \in Users, Call(u) \/ UserStep(u)
  PROVE  ShutdownInv'
<1>0. /\ TypeOK /\ MutexIsHeld /\ WorkIsCounted /\ ClosedIsFinal /\ OneLeads
      /\ u \in Goroutines /\ u \notin Closers /\ u # "free"
      /\ \A v \in Users : v \in Goroutines
      /\ \A k \in Closers : k \in Goroutines /\ k # u
      /\ Cardinality(Starting) \in Nat
  BY StartingFinite, ShutdownAssumption DEF ShutdownInv, Goroutines
<1>1. PICK from, to : Step(u, from, to) /\ to \in UserPlaces
  BY DEF Call, UserStep, Lock, CheckClosed, Unlock, Add, Go, UserPlaces
<1>2. /\ pc'[u] = to
      /\ \A g \in Goroutines : g # u => pc'[g] = pc[g]
      /\ pc' \in [Goroutines -> UserPlaces \cup CloserPlaces]
  BY <1>0, <1>1, StepMoves
<1>3. UNCHANGED <<closed, waited, timedOut, memoryCloses, redisCloses>>
  BY DEF Call, UserStep, Lock, CheckClosed, Unlock, Add, Go
<1>4. TypeOK'
  <2>1. /\ bgMu' \in Goroutines \cup {"free"}
        /\ bgWg' \in Nat /\ running' \in Nat
    BY <1>0 DEF TypeOK, Call, UserStep, Lock, CheckClosed, Unlock, Add, Go
  <2>2. /\ \A v \in Users : pc'[v] \in UserPlaces
        /\ \A k \in Closers : pc'[k] \in CloserPlaces
    BY <1>0, <1>1, <1>2 DEF TypeOK
  <2> QED
    BY <1>0, <1>2, <1>3, <2>1, <2>2 DEF TypeOK
<1>5. MutexIsHeld'
  <2>1. CASE Call(u)
    <3>1. pc[u] = "idle" /\ pc'[u] = "lock" /\ bgMu' = bgMu
      BY <2>1, <1>0, StepMoves DEF Call
    <3> QED
      BY <3>1, <1>0, <1>2 DEF MutexIsHeld, Critical
  <2>2. CASE Lock(u)
    <3>1. pc'[u] = "check" /\ bgMu = "free" /\ bgMu' = u
      BY <2>2, <1>0, StepMoves DEF Lock
    <3>2. \A g \in Goroutines : g # "free"
      BY ShutdownAssumption DEF Goroutines
    <3> QED
      BY <3>1, <3>2, <1>0, <1>2 DEF MutexIsHeld, Critical
  <2>3. CASE CheckClosed(u)
    <3>1. pc[u] = "check" /\ pc'[u] \in {"unlock", "add"} /\ bgMu' = bgMu
      BY <2>3, <1>0, StepMoves DEF CheckClosed
    <3> QED
      BY <3>1, <1>0, <1>2 DEF MutexIsHeld, Critical
  <2>4. CASE Unlock(u) \/ Add(u)
    <3>1. pc[u] \in {"unlock", "add"} /\ pc'[u] \in {"idle", "go"} /\ bgMu' = "free"
      BY <2>4, <1>0, StepMoves DEF Unlock, Add
    <3>2. \A g \in Goroutines : g # "free"
      BY ShutdownAssumption DEF Goroutines
    <3> QED
      BY <3>1, <3>2, <1>0, <1>2 DEF MutexIsHeld, Critical
  <2>5. CASE Go(u)
    <3>1. pc[u] = "go" /\ pc'[u] = "idle" /\ bgMu' = bgMu
      BY <2>5, <1>0, StepMoves DEF Go
    <3> QED
      BY <3>1, <1>0, <1>2 DEF MutexIsHeld, Critical
  <2> QED
    BY <2>1, <2>2, <2>3, <2>4, <2>5 DEF UserStep
<1>6. WorkIsCounted'
  <2>1. CASE Call(u) \/ Lock(u) \/ CheckClosed(u) \/ Unlock(u)
    <3>1. PICK a, b : Step(u, a, b) /\ a # "go" /\ b # "go"
      BY <2>1 DEF Call, Lock, CheckClosed, Unlock
    <3>2. Starting' = Starting
      BY <3>1, <1>0, StartingMoves
    <3> QED
      BY <3>2, <2>1, <1>0 DEF WorkIsCounted, Call, Lock, CheckClosed, Unlock
  <2>2. CASE Add(u)
    <3>1. Cardinality(Starting') = Cardinality(Starting) + 1
      BY <2>2, <1>0, StartingMoves DEF Add
    <3> QED
      BY <3>1, <2>2, <1>0 DEF WorkIsCounted, Add, TypeOK
  <2>3. CASE Go(u)
    <3>1. Step(u, "go", "idle")
      BY <2>3 DEF Go
    <3>2. Cardinality(Starting') = Cardinality(Starting) - 1
      BY <3>1, <1>0, StartingMoves
    <3> QED
      BY <3>2, <2>3, <1>0 DEF WorkIsCounted, Go, TypeOK
  <2> QED
    BY <2>1, <2>2, <2>3 DEF UserStep
<1>7. OneLeads'
  BY <1>0, <1>2, <1>3 DEF OneLeads
<1>8. ClosedIsFinal'
  <2>1. closed => pc'[u] # "add"
    <3>1. CASE CheckClosed(u)
      BY <3>1, <1>0, StepMoves DEF CheckClosed
    <3>2. CASE ~CheckClosed(u)
      <4>1. pc'[u] \in {"lock", "check", "idle", "go"}
        BY <3>2, <1>0, StepMoves DEF Call, UserStep, Lock, Unlock, Add, Go
      <4> QED
        BY <4>1
    <3> QED
      BY <3>1, <3>2
  <2>2. closed => ~Add(u)
    BY <1>0 DEF ClosedIsFinal, Add, Step
  <2>3. waited => bgWg' = bgWg
    BY <1>0, <2>2 DEF ClosedIsFinal, Call, UserStep, Lock, CheckClosed, Unlock, Go
  <2> QED
    BY <1>0, <1>2, <1>3, <2>1, <2>3 DEF ClosedIsFinal
<1> QED
  BY <1>4, <1>5, <1>6, <1>7, <1>8 DEF ShutdownInv

LEMMA CloserInv ==
  ASSUME ShutdownInv, NEW k \in Closers, CallClose(k) \/ LockToClose(k) \/ CloserStep(k)
  PROVE  ShutdownInv'
<1>0. /\ TypeOK /\ MutexIsHeld /\ WorkIsCounted /\ ClosedIsFinal /\ OneLeads
      /\ k \in Goroutines /\ k \notin Users
      /\ \A u \in Users : u \in Goroutines /\ u # k
      /\ \A l \in Closers : l \in Goroutines
      /\ \A g \in Goroutines : g # "free"
  BY ShutdownAssumption DEF ShutdownInv, Goroutines
<1>1. PICK from, to : Step(k, from, to) /\ to \in CloserPlaces
  BY DEF CallClose, LockToClose, CloserStep, Swap, Leave, Cancel, Finished, Timeout,
         CloseMemory, CloseRedis, CloserPlaces
<1>2. /\ pc[k] = from /\ pc'[k] = to
      /\ \A g \in Goroutines : g # k => pc'[g] = pc[g]
      /\ pc' \in [Goroutines -> UserPlaces \cup CloserPlaces]
  BY <1>0, <1>1, StepMoves
<1>3. UNCHANGED <<bgWg, running, waited>>
  BY DEF CallClose, LockToClose, CloserStep, Swap, Leave, Cancel, Finished, Timeout,
         CloseMemory, CloseRedis
<1>4. WorkIsCounted'
  <2>1. Starting' = Starting
    BY <1>0, <1>1, StartingMoves
  <2> QED
    BY <2>1, <1>0, <1>3 DEF WorkIsCounted
<1>5. TypeOK'
  <2>0. /\ bgMu \in Goroutines \cup {"free"}
        /\ closed \in BOOLEAN /\ timedOut \in BOOLEAN
        /\ memoryCloses \in Nat /\ redisCloses \in Nat
    BY <1>0 DEF TypeOK
  <2>a. bgMu' \in Goroutines \cup {"free"} /\ closed' \in BOOLEAN /\ timedOut' \in BOOLEAN
    BY <1>0, <2>0 DEF CallClose, LockToClose, CloserStep, Swap, Leave, Cancel, Finished,
                      Timeout, CloseMemory, CloseRedis
  <2>b. /\ memoryCloses' \in {memoryCloses, memoryCloses + 1}
        /\ redisCloses' \in {redisCloses, redisCloses + 1}
    BY DEF CallClose, LockToClose, CloserStep, Swap, Leave, Cancel, Finished,
           Timeout, CloseMemory, CloseRedis
  <2>1. /\ bgMu' \in Goroutines \cup {"free"}
        /\ closed' \in BOOLEAN /\ timedOut' \in BOOLEAN
        /\ memoryCloses' \in Nat /\ redisCloses' \in Nat
    BY <2>0, <2>a, <2>b
  <2>2. /\ \A u \in Users : pc'[u] \in UserPlaces
        /\ \A l \in Closers : pc'[l] \in CloserPlaces
    BY <1>0, <1>1, <1>2 DEF TypeOK
  <2> QED
    BY <1>0, <1>2, <1>3, <2>1, <2>2 DEF TypeOK
(***************************************************************************)
(* The steps of a Close that matter to the invariant, one by one.          *)
(***************************************************************************)
<1>6. CASE CallClose(k)
  <2>1. pc[k] = "open" /\ pc'[k] = "locking"
    BY <1>6, <1>0, StepMoves DEF CallClose
  <2>2. UNCHANGED <<bgMu, closed, timedOut, memoryCloses, redisCloses>>
    BY <1>6 DEF CallClose
  <2>3. MutexIsHeld' /\ ClosedIsFinal' /\ OneLeads'
    BY <1>0, <1>2, <1>3, <2>1, <2>2
       DEF MutexIsHeld, Critical, ClosedIsFinal, OneLeads, Leading
  <2> QED
    BY <2>3, <1>4, <1>5 DEF ShutdownInv
<1>7. CASE LockToClose(k)
  <2>1. pc[k] = "locking" /\ pc'[k] = "swap" /\ bgMu = "free" /\ bgMu' = k
    BY <1>7, <1>0, StepMoves DEF LockToClose
  <2>2. UNCHANGED <<closed, timedOut, memoryCloses, redisCloses>>
    BY <1>7 DEF LockToClose
  <2>3. MutexIsHeld'
    BY <1>0, <1>2, <2>1 DEF MutexIsHeld, Critical
  <2>4. ClosedIsFinal' /\ OneLeads'
    BY <1>0, <1>2, <1>3, <2>1, <2>2 DEF ClosedIsFinal, OneLeads, Leading
  <2> QED
    BY <2>3, <2>4, <1>4, <1>5 DEF ShutdownInv
<1>8. CASE Swap(k)
  <2>1. pc[k] = "swap" /\ pc'[k] = (IF closed THEN "leave" ELSE "cancel")
    BY <1>8, <1>0, StepMoves DEF Swap
  <2>2. closed' = TRUE /\ UNCHANGED <<bgMu, timedOut, memoryCloses, redisCloses>>
    BY <1>8 DEF Swap
  <2>3. \A u \in Users : pc[u] # "add"
    BY <1>0, <2>1 DEF MutexIsHeld, Critical
  <2>4. MutexIsHeld'
    BY <1>0, <1>2, <2>1, <2>2 DEF MutexIsHeld, Critical
  <2>5. ClosedIsFinal'
    BY <1>0, <1>2, <1>3, <2>1, <2>2, <2>3 DEF ClosedIsFinal, Leading
  <2>6. OneLeads'
    BY <1>0, <1>2, <2>1, <2>2 DEF OneLeads, ClosedIsFinal, Leading
  <2> QED
    BY <2>4, <2>5, <2>6, <1>4, <1>5 DEF ShutdownInv
<1>9. CASE Leave(k) \/ Cancel(k)
  <2>1. \/ pc[k] = "leave" /\ pc'[k] = "returned"
        \/ pc[k] = "cancel" /\ pc'[k] = "wait"
    BY <1>9, <1>0, StepMoves DEF Leave, Cancel
  <2>2. bgMu' = "free" /\ UNCHANGED <<closed, timedOut, memoryCloses, redisCloses>>
    BY <1>9 DEF Leave, Cancel
  <2>3. MutexIsHeld'
    BY <1>0, <1>2, <2>1, <2>2 DEF MutexIsHeld, Critical
  <2>4. ClosedIsFinal' /\ OneLeads'
    BY <1>0, <1>2, <1>3, <2>1, <2>2 DEF ClosedIsFinal, OneLeads, Leading
  <2> QED
    BY <2>3, <2>4, <1>4, <1>5 DEF ShutdownInv
<1>10. CASE Finished(k) \/ Timeout(k)
  <2>1. pc[k] = "wait" /\ pc'[k] = "closeMemory" /\ (waited \/ timedOut')
    BY <1>10, <1>0, StepMoves DEF Finished, Timeout
  <2>2. (timedOut => timedOut') /\ UNCHANGED <<bgMu, closed, memoryCloses, redisCloses>>
    BY <1>10 DEF Finished, Timeout
  <2>3. MutexIsHeld' /\ ClosedIsFinal' /\ OneLeads'
    BY <1>0, <1>2, <1>3, <2>1, <2>2
       DEF MutexIsHeld, Critical, ClosedIsFinal, OneLeads, Leading
  <2> QED
    BY <2>3, <1>4, <1>5 DEF ShutdownInv
<1>11. CASE CloseMemory(k)
  <2>1. pc[k] = "closeMemory" /\ pc'[k] = "closeRedis"
    BY <1>11, <1>0, StepMoves DEF CloseMemory
  <2>2. /\ memoryCloses' = memoryCloses + 1
        /\ UNCHANGED <<bgMu, closed, timedOut, redisCloses>>
    BY <1>11 DEF CloseMemory
  <2>3. \A l \in Closers : l # k => pc[l] \notin Leading
    BY <1>0, <2>1 DEF OneLeads, Leading
  <2>4. memoryCloses = 0 /\ closed /\ (waited \/ timedOut)
    BY <1>0, <2>1 DEF OneLeads, ClosedIsFinal, Leading
  <2>5. MutexIsHeld' /\ ClosedIsFinal'
    BY <1>0, <1>2, <1>3, <2>1, <2>2, <2>4
       DEF MutexIsHeld, Critical, ClosedIsFinal, Leading
  <2>6. OneLeads'
    BY <1>0, <1>2, <2>1, <2>2, <2>3, <2>4 DEF OneLeads, Leading
  <2> QED
    BY <2>5, <2>6, <1>4, <1>5 DEF ShutdownInv
<1>12. CASE CloseRedis(k)
  <2>1. pc[k] = "closeRedis" /\ pc'[k] = "returned"
    BY <1>12, <1>0, StepMoves DEF CloseRedis
  <2>2. /\ redisCloses' = redisCloses + 1
        /\ UNCHANGED <<bgMu, closed, timedOut, memoryCloses>>
    BY <1>12 DEF CloseRedis
  <2>3. \A l \in Closers : l # k => pc[l] \notin Leading
    BY <1>0, <2>1 DEF OneLeads, Leading
  <2>4. redisCloses = 0 /\ closed
    BY <1>0, <2>1 DEF OneLeads, ClosedIsFinal, Leading
  <2>5. MutexIsHeld' /\ ClosedIsFinal'
    BY <1>0, <1>2, <1>3, <2>1, <2>2
       DEF MutexIsHeld, Critical, ClosedIsFinal, Leading
  <2>6. OneLeads'
    BY <1>0, <1>2, <2>1, <2>2, <2>3, <2>4 DEF OneLeads, Leading
  <2> QED
    BY <2>5, <2>6, <1>4, <1>5 DEF ShutdownInv
<1> QED
  BY <1>6, <1>7, <1>8, <1>9, <1>10, <1>11, <1>12 DEF CloserStep

LEMMA WorkInv ==
  ASSUME ShutdownInv, WorkDone \/ Wait
  PROVE  ShutdownInv'
<1>0. /\ TypeOK /\ MutexIsHeld /\ WorkIsCounted /\ ClosedIsFinal /\ OneLeads
      /\ Cardinality(Starting) \in Nat
  BY StartingFinite DEF ShutdownInv
<1>1. Starting' = Starting /\ pc' = pc
  BY DEF WorkDone, Wait, Starting
<1>2. CASE WorkDone
  <2>1. /\ running > 0 /\ running' = running - 1 /\ bgWg' = bgWg - 1
        /\ UNCHANGED <<bgMu, closed, waited, timedOut, memoryCloses, redisCloses>>
    BY <1>2 DEF WorkDone
  <2>2. bgWg \in Nat /\ running \in Nat /\ bgWg = running + Cardinality(Starting)
    BY <1>0 DEF TypeOK, WorkIsCounted
  <2>3. running' \in Nat /\ bgWg' \in Nat /\ WorkIsCounted' /\ ~waited
    BY <1>0, <1>1, <2>1, <2>2 DEF WorkIsCounted, ClosedIsFinal
  <2>4. TypeOK' /\ MutexIsHeld' /\ ClosedIsFinal' /\ OneLeads'
    BY <1>0, <1>1, <2>1, <2>3 DEF TypeOK, MutexIsHeld, ClosedIsFinal, OneLeads
  <2> QED
    BY <2>3, <2>4 DEF ShutdownInv
<1>3. CASE Wait
  <2>1. /\ bgWg = 0 /\ waited' = TRUE
        /\ UNCHANGED <<bgMu, closed, bgWg, running, timedOut, memoryCloses, redisCloses>>
    BY <1>3 DEF Wait
  <2>2. closed
    BY <1>0, <1>3 DEF Wait, ClosedIsFinal, Leading
  <2>3. TypeOK' /\ MutexIsHeld' /\ WorkIsCounted' /\ ClosedIsFinal' /\ OneLeads'
    BY <1>0, <1>1, <2>1, <2>2
       DEF TypeOK, MutexIsHeld, WorkIsCounted, ClosedIsFinal, OneLeads
  <2> QED
    BY <2>3 DEF ShutdownInv
<1> QED
  BY <1>2, <1>3

LEMMA ShutdownInvariance == Spec => []ShutdownInv
<1>1. ShutdownInv /\ [Next]_vars => ShutdownInv'
  <2> SUFFICES ASSUME ShutdownInv, [Next]_vars PROVE ShutdownInv'
    OBVIOUS
  <2>1. CASE Next
    BY <2>1, UserInv, CloserInv, WorkInv DEF Next
  <2>2. CASE UNCHANGED vars
    BY <2>2 DEF vars, ShutdownInv, TypeOK, MutexIsHeld, WorkIsCounted, Starting, ClosedIsFinal,
                OneLeads
  <2> QED
    BY <2>1, <2>2
<1> QED
  BY <1>1, ShutdownInit, PTL DEF Spec

-----------------------------------------------------------------------------
(***************************************************************************)
(* The WaitGroup counts all background work (runBackground).               *)
(***************************************************************************)
THEOREM WorkCounted == Spec => [](TypeOK /\ WorkIsCounted)
<1>1. ShutdownInv => TypeOK /\ WorkIsCounted
  BY DEF ShutdownInv
<1> QED
  BY <1>1, ShutdownInvariance, PTL

(***************************************************************************)
(* Without a timeout, the layers outlive the background work               *)
(* (CloseWithTimeout).                                                     *)
(***************************************************************************)
THEOREM LayersAreClosedLast == Spec => []LayersOutliveWork
<1>1. ShutdownInv => LayersOutliveWork
  BY DEF ShutdownInv, ClosedIsFinal, LayersOutliveWork
<1> QED
  BY <1>1, ShutdownInvariance, PTL

(***************************************************************************)
(* Each layer is closed once, however many close the Manager               *)
(* (CloseWithTimeout).                                                     *)
(***************************************************************************)
THEOREM LayersAreClosedOnce == Spec => []LayersCloseOnce
<1>1. ShutdownInv => LayersCloseOnce
  BY DEF ShutdownInv, OneLeads, LayersCloseOnce
<1> QED
  BY <1>1, ShutdownInvariance, PTL

(***************************************************************************)
(* Nothing is added to the WaitGroup once the Manager is closed            *)
(* (runBackground).                                                        *)
(***************************************************************************)
THEOREM AddsPrecedeClose == Spec => NoAddAfterClose
<1>1. ShutdownInv /\ [Next]_vars => [closed => bgWg' <= bgWg]_vars
  <2> SUFFICES ASSUME ShutdownInv, Next, closed PROVE bgWg' <= bgWg
    BY DEF vars
  <2>0. bgWg \in Nat /\ \A u \in Users : pc[u] # "add"
    BY DEF ShutdownInv, TypeOK, ClosedIsFinal
  <2>1. ~ \E u \in Users : Add(u)
    BY <2>0 DEF Add, Step
  <2>2. ASSUME NEW u \in Users, Call(u) \/ UserStep(u) PROVE bgWg' = bgWg
    BY <2>1, <2>2 DEF Call, UserStep, Lock, CheckClosed, Unlock, Go
  <2>3. ASSUME WorkDone \/ Wait PROVE bgWg' \in {bgWg, bgWg - 1}
    BY <2>3 DEF WorkDone, Wait
  <2>4. ASSUME NEW k \in Closers, CallClose(k) \/ LockToClose(k) \/ CloserStep(k)
        PROVE  bgWg' = bgWg
    BY <2>4 DEF CallClose, LockToClose, CloserStep, Swap, Leave, Cancel, Finished,
         Timeout, CloseMemory, CloseRedis
  <2>5. bgWg' \in {bgWg, bgWg - 1}
    BY <2>2, <2>3, <2>4 DEF Next
  <2> QED
    BY <2>0, <2>5
<1> QED
  BY <1>1, ShutdownInvariance, PTL DEF Spec, NoAddAfterClose
=============================================================================
