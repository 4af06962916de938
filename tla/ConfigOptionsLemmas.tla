-------------------------- MODULE ConfigOptionsLemmas --------------------------
(***************************************************************************)
(* Facts about the operators of ConfigOptions, for every configuration:    *)
(* what the comparison of two of them finds, and what becomes of one that  *)
(* is split and joined again.                                              *)
(***************************************************************************)
EXTENDS ConfigOptions, TLAPS

\* Looking at absent keys does not change what the keys say.
LEMMA TouchedKeepsValues ==
    ASSUME NEW c, NEW s, NEW k
    PROVE  Value(Touched(c), s, k) = Value(c, s, k)
<1>1. CASE s \in DOMAIN Touched(c) /\ k \in DOMAIN Touched(c)[s]
  BY <1>1 DEF Touched, Value, HasKey
<1>2. CASE ~(s \in DOMAIN Touched(c) /\ k \in DOMAIN Touched(c)[s])
  <2>1. ~HasKey(c, s, k)
    BY <1>2 DEF Touched, HasKey, KeysOf, HasSection
  <2> QED BY <1>2, <2>1 DEF Value, HasKey
<1> QED BY <1>1, <1>2

\* A section with an option whose value differs is found to differ.
LEMMA DifferenceFound ==
    ASSUME NEW c, NEW p, NEW s, NEW k, Value(c, s, k) # Value(p, s, k)
    PROVE  s \in DiffSections(c, p)
<1>1. CASE s \in DOMAIN c /\ s \in DOMAIN p
  <2>1. c[s] # p[s]
    BY <1>1 DEF Value, HasKey
  <2> QED BY <1>1, <2>1 DEF DiffSections
<1>2. CASE s \in DOMAIN c /\ s \notin DOMAIN p
  <2>1. k \in DOMAIN c[s]
    BY <1>2 DEF Value, HasKey
  <2> QED BY <1>2, <2>1 DEF DiffSections
<1>3. CASE s \notin DOMAIN c /\ s \in DOMAIN p
  <2>1. k \in DOMAIN p[s]
    BY <1>3 DEF Value, HasKey
  <2> QED BY <1>3, <2>1 DEF DiffSections
<1>4. CASE s \notin DOMAIN c /\ s \notin DOMAIN p
  BY <1>4 DEF Value, HasKey
<1> QED BY <1>1, <1>2, <1>3, <1>4

\* An option of a table whose value differs is found by checkOptionsChange.
LEMMA OptionFound ==
    ASSUME NEW c, NEW p, NEW s, NEW k, NEW options,
           Option(s, k) \in options, Value(c, s, k) # Value(p, s, k)
    PROVE  OptionsChanged(options, s, p, c)
<1>1. Option(s, k).section = s /\ Option(s, k).key = k
  BY DEF Option
<1> QED BY <1>1 DEF OptionsChanged

\* NeedApplyChange is complete: a kind of pod one of whose options differs is
\* restarted, whatever else differs.
LEMMA NeedApplyChangeComplete ==
    ASSUME NEW cur, NEW old, NEW pod \in Pods, ~SameFor(pod, cur, old)
    PROVE  NeedApplyChange(cur, old)[pod]
<1> DEFINE c == Touched(cur)
           p == Touched(old)
<1>1. PICK s, k : DependsOn(pod, s, k) /\ Value(cur, s, k) # Value(old, s, k)
  BY DEF SameFor
<1>2. Value(c, s, k) # Value(p, s, k)
  BY <1>1, TouchedKeepsValues
<1> HIDE DEF c, p
<1>3. s \in DiffSections(c, p)
  BY <1>2, DifferenceFound
<1>4. CASE pod = "ncp"
  <2>1. s \in NcpSections
    BY <1>1, <1>4 DEF DependsOn
  <2> QED BY <1>3, <1>4, <2>1 DEF NeedApplyChange, c, p
<1>5. CASE pod = "agent"
  <2>1. s \in AgentRestartSections \/ OptionsChanged(AgentRestartOptionKeys, s, p, c)
    BY <1>1, <1>2, <1>5, OptionFound DEF DependsOn
  <2> QED BY <1>3, <1>5, <2>1 DEF NeedApplyChange, c, p
<1>6. CASE pod = "bootstrap"
  <2>1. OptionsChanged(BootstrapRestartOptionKeys, s, p, c)
    BY <1>1, <1>2, <1>6, OptionFound DEF DependsOn
  <2> QED BY <1>3, <1>6, <2>1 DEF NeedApplyChange, c, p
<1> QED BY <1>4, <1>5, <1>6 DEF Pods
--------------------------------------------------------------------------------
\* Every section of the operator's is in NCP's or in the agent's ConfigMap, as
\* it was; only an empty section DEFAULT may appear.
LEMMA JoinedAsApplied ==
    ASSUME NEW c, NEW s \in OperatorSections
    PROVE  /\ s \in DOMAIN c => s \in DOMAIN Joined(c) /\ Joined(c)[s] = c[s]
           /\ s \notin DOMAIN c /\ s \in DOMAIN Joined(c) => s = "DEFAULT"
           /\ KeysOf(Joined(c), s) = KeysOf(c, s)
<1> DEFINE ncp == generateConfigMap(c, NcpSections)
           agent == generateConfigMap(c, AgentSections)
<1>1. /\ DOMAIN ncp = (DOMAIN c \cap NcpSections) \cup {"DEFAULT"}
      /\ DOMAIN agent = (DOMAIN c \cap AgentSections) \cup {"DEFAULT"}
  BY DEF generateConfigMap
<1>2. s \in NcpSections \cup AgentSections
  BY DEF OperatorSections, NcpSections, AgentSections
<1>3. /\ DOMAIN Joined(c) = (DOMAIN ncp \cup DOMAIN agent) \cap OperatorSections
      /\ s \in DOMAIN Joined(c) =>
            Joined(c)[s] = IF s \in DOMAIN ncp THEN ncp[s] ELSE agent[s]
  BY DEF Joined, GenerateOperatorConfigMap, HasSection
<1>4. s \in DOMAIN c => /\ s \in DOMAIN ncp => ncp[s] = c[s]
                        /\ s \in DOMAIN agent => agent[s] = c[s]
  BY DEF generateConfigMap, HasSection
<1>5. s \in DOMAIN c => s \in DOMAIN Joined(c) /\ Joined(c)[s] = c[s]
  <2> SUFFICES ASSUME s \in DOMAIN c
               PROVE  s \in DOMAIN Joined(c) /\ Joined(c)[s] = c[s]
    OBVIOUS
  <2> HIDE DEF ncp, agent
  <2>1. s \in DOMAIN ncp \cup DOMAIN agent
    BY <1>1, <1>2
  <2>2. s \in DOMAIN Joined(c)
    BY <1>3, <2>1
  <2>3. CASE s \in DOMAIN ncp
    BY <1>3, <1>4, <2>2, <2>3
  <2>4. CASE s \notin DOMAIN ncp
    BY <1>3, <1>4, <2>1, <2>2, <2>4
  <2> QED BY <2>3, <2>4
<1>6. s \notin DOMAIN c /\ s \in DOMAIN Joined(c) => s = "DEFAULT"
  <2> HIDE DEF ncp, agent
  <2> QED BY <1>1, <1>3
<1>7. s = "DEFAULT" /\ s \notin DOMAIN c => Joined(c)[s] = EmptyConfig[s]
  <2>1. "DEFAULT" \in DOMAIN ncp /\ "DEFAULT" \in OperatorSections
    BY DEF generateConfigMap, OperatorSections
  <2>2. s = "DEFAULT" /\ s \notin DOMAIN c => ncp[s] = EmptyConfig[s]
    BY DEF generateConfigMap, HasSection
  <2> HIDE DEF ncp, agent
  <2> QED BY <1>3, <2>1, <2>2
<1>8. DOMAIN EmptyConfig["DEFAULT"] = {}
  BY DEF EmptyConfig
<1>9. KeysOf(Joined(c), s) = KeysOf(c, s)
  BY <1>5, <1>6, <1>7, <1>8 DEF KeysOf, HasSection
<1> QED BY <1>5, <1>6, <1>9

\* So no section of the operator's differs from what was applied.
LEMMA NothingDiffers ==
    ASSUME NEW c, NEW s \in OperatorSections
    PROVE  /\ \A k : Value(c, s, k) = Value(Joined(c), s, k)
           /\ s \notin DiffSections(Touched(c), Touched(Joined(c)))
<1> DEFINE j == Joined(c)
           I == {o.section : o \in ImmutableFields}
<1>1. \A k : Value(c, s, k) = Value(j, s, k)
  <2> SUFFICES ASSUME NEW k PROVE Value(c, s, k) = Value(j, s, k)
    OBVIOUS
  <2>1. HasKey(c, s, k) <=> k \in KeysOf(c, s)
    BY DEF HasKey, KeysOf, HasSection
  <2>2. HasKey(j, s, k) <=> k \in KeysOf(j, s)
    BY DEF HasKey, KeysOf, HasSection
  <2>3. HasKey(c, s, k) => c[s][k] = j[s][k]
    BY JoinedAsApplied DEF HasKey
  <2> HIDE DEF j
  <2> QED BY <2>1, <2>2, <2>3, JoinedAsApplied DEF Value, j
<1>2. KeysOf(j, s) = KeysOf(c, s)
  BY JoinedAsApplied
<1>3. CASE s \in DOMAIN c \cup I
  <2>1. s \in DOMAIN j \cup I
    BY <1>3, JoinedAsApplied
  <2>2. /\ Touched(c)[s] = Touched(j)[s]
        /\ s \in DOMAIN Touched(c) /\ s \in DOMAIN Touched(j)
    <3> HIDE DEF j
    <3> QED BY <1>1, <1>2, <1>3, <2>1 DEF Touched
  <2> QED BY <1>1, <2>2 DEF DiffSections
<1>4. CASE s \notin DOMAIN c \cup I
  <2>1. s \notin DOMAIN Touched(c)
    BY <1>4 DEF Touched
  <2>2. s \in DOMAIN Touched(j) => DOMAIN Touched(j)[s] = {}
    <3>1. KeysOf(j, s) = {}
      BY <1>2, <1>4 DEF KeysOf, HasSection
    <3>2. {o.key : o \in {p \in ImmutableFields : p.section = s}} = {}
      BY <1>4
    <3> HIDE DEF j
    <3> QED BY <3>1, <3>2 DEF Touched
  <2> QED BY <1>1, <2>1, <2>2 DEF DiffSections
<1> QED BY <1>3, <1>4
--------------------------------------------------------------------------------
(* What the pods see *)

ForNcp(c)   == generateConfigMap(c, NcpSections)
ForAgent(c) == generateConfigMap(c, AgentSections)

\* Two configurations are the same for a pod if its options have the same values,
\* whatever sections and keys there are.
LEMMA SameForValues ==
    ASSUME NEW pod, NEW c, NEW d
    PROVE  SameFor(pod, c, d) <=>
               \A s, k : DependsOn(pod, s, k) => Value(c, s, k) = Value(d, s, k)
<1>1. ASSUME NEW s, NEW k, ~(s \in DOMAIN c \cup DOMAIN d /\ k \in KeysOf(c, s) \cup KeysOf(d, s))
      PROVE  Value(c, s, k) = Value(d, s, k)
  BY <1>1 DEF Value, HasKey, KeysOf, HasSection
<1> QED
  BY <1>1 DEF SameFor

LEMMA SameForTrans ==
    ASSUME NEW pod, NEW c, NEW d, NEW e, SameFor(pod, c, d), SameFor(pod, d, e)
    PROVE  SameFor(pod, c, e)
BY SameForValues

LEMMA SameForSym ==
    ASSUME NEW pod, NEW c, NEW d, SameFor(pod, c, d)
    PROVE  SameFor(pod, d, c)
BY SameForValues

LEMMA SameForRefl ==
    ASSUME NEW pod, NEW c
    PROVE  SameFor(pod, c, c)
BY SameForValues

\* A section that goes into a ConfigMap says there what it said.
LEMMA PartKeepsValues ==
    ASSUME NEW c, NEW sections, NEW s \in sections, NEW k
    PROVE  Value(generateConfigMap(c, sections), s, k) = Value(c, s, k)
<1> DEFINE p == generateConfigMap(c, sections)
<1>1. CASE s \in DOMAIN c
  <2>1. s \in DOMAIN p /\ p[s] = c[s]
    BY <1>1 DEF generateConfigMap, HasSection
  <2> HIDE DEF p
  <2> QED BY <1>1, <2>1 DEF Value, HasKey, p
<1>2. CASE s \notin DOMAIN c
  <2>1. s \in DOMAIN p => s = "DEFAULT" /\ p[s] = EmptyConfig["DEFAULT"]
    BY <1>2 DEF generateConfigMap, HasSection
  <2>2. DOMAIN EmptyConfig["DEFAULT"] = {}
    BY DEF EmptyConfig
  <2>3. ~HasKey(p, s, k)
    <3> HIDE DEF p
    <3> QED BY <2>1, <2>2 DEF HasKey
  <2>4. ~HasKey(c, s, k)
    BY <1>2 DEF HasKey
  <2> QED BY <2>3, <2>4 DEF Value
<1> QED BY <1>1, <1>2

\* So every pod reads in its ConfigMap what the configuration says.
LEMMA PartsSuffice ==
    ASSUME NEW c
    PROVE  /\ SameFor("ncp", ForNcp(c), c)
           /\ SameFor("agent", ForAgent(c), c)
           /\ SameFor("bootstrap", ForAgent(c), c)
<1>1. ASSUME NEW s, NEW k, DependsOn("ncp", s, k) PROVE s \in NcpSections
  BY <1>1 DEF DependsOn
<1>2. ASSUME NEW s, NEW k, DependsOn("agent", s, k) \/ DependsOn("bootstrap", s, k)
      PROVE  s \in AgentSections
  <2>1. \A o \in AgentRestartOptionKeys \cup BootstrapRestartOptionKeys : o.section \in AgentSections
    BY DEF AgentRestartOptionKeys, BootstrapRestartOptionKeys, Options, Option, AgentSections
  <2>2. Option(s, k).section = s
    BY DEF Option
  <2>3. AgentRestartSections \subseteq AgentSections
    BY DEF AgentRestartSections, AgentSections
  <2> QED BY <1>2, <2>1, <2>2, <2>3 DEF DependsOn
<1> QED
  BY <1>1, <1>2, PartKeepsValues, SameForValues DEF ForNcp, ForAgent

\* What is read back is the same for every pod.
LEMMA JoinedSame ==
    ASSUME NEW c, NEW pod \in Pods
    PROVE  SameFor(pod, Joined(c), c)
<1>1. ASSUME NEW s, NEW k, DependsOn(pod, s, k) PROVE s \in OperatorSections
  <2>1. \A o \in AgentRestartOptionKeys \cup BootstrapRestartOptionKeys : o.section \in OperatorSections
    BY DEF AgentRestartOptionKeys, BootstrapRestartOptionKeys, Options, Option, OperatorSections
  <2>2. Option(s, k).section = s
    BY DEF Option
  <2>3. NcpSections \subseteq OperatorSections /\ AgentRestartSections \subseteq OperatorSections
    BY DEF NcpSections, AgentRestartSections, OperatorSections
  <2> QED BY <1>1, <2>1, <2>2, <2>3 DEF DependsOn
<1> QED
  BY <1>1, NothingDiffers, SameForValues

\* NeedApplyChange says yes or no of every pod, and no only if nothing differs for it.
LEMMA NeedApplyChangeSays ==
    ASSUME NEW cur, NEW old
    PROVE  /\ NeedApplyChange(cur, old) \in PodNeedChange
           /\ \A pod \in Pods : ~NeedApplyChange(cur, old)[pod] => SameFor(pod, cur, old)
<1>1. NeedApplyChange(cur, old) \in PodNeedChange
  BY Zenon DEF NeedApplyChange, PodNeedChange
<1> QED
  BY <1>1, NeedApplyChangeComplete
--------------------------------------------------------------------------------
(* Immutable options *)

LEMMA ImmutableSections ==
    \A o \in ImmutableFields : o.section \in {"coe", "nsx_v3"} /\ o.section \in NcpSections
BY DEF ImmutableFields, Options, Option, NcpSections

\* They are in NCP's ConfigMap, ...
LEMMA PartKeepsImmutable ==
    ASSUME NEW c
    PROVE  ~ImmutableFieldChanged(c, ForNcp(c)) /\ ~ImmutableFieldChanged(ForNcp(c), c)
BY ImmutableSections, PartKeepsValues DEF ImmutableFieldChanged, ForNcp

\* ... and are read back from there if it has their sections.
LEMMA JoinedKeepsImmutable ==
    ASSUME NEW n, NEW a, "coe" \in DOMAIN n, "nsx_v3" \in DOMAIN n
    PROVE  ~ImmutableFieldChanged(GenerateOperatorConfigMap(n, a), n)
<1>1. ASSUME NEW s \in {"coe", "nsx_v3"}, NEW k
      PROVE  Value(GenerateOperatorConfigMap(n, a), s, k) = Value(n, s, k)
  <2>1. s \in DOMAIN n /\ s \in OperatorSections
    BY DEF OperatorSections
  <2>2. /\ s \in DOMAIN GenerateOperatorConfigMap(n, a)
        /\ GenerateOperatorConfigMap(n, a)[s] = n[s]
    BY <2>1 DEF GenerateOperatorConfigMap, HasSection
  <2> QED BY <2>1, <2>2 DEF Value, HasKey
<1> QED
  BY <1>1, ImmutableSections DEF ImmutableFieldChanged

LEMMA ImmutableTrans ==
    ASSUME NEW c, NEW d, NEW e, ~ImmutableFieldChanged(c, d), ~ImmutableFieldChanged(d, e)
    PROVE  ~ImmutableFieldChanged(c, e)
BY DEF ImmutableFieldChanged
--------------------------------------------------------------------------------
(* Shapes *)

LEMMA FillShape ==
    ASSUME NEW c, NEW d
    PROVE  IsConfig(Fill(c, d)) /\ DOMAIN Fill(c, d) = DOMAIN c
BY DEF Fill, IsConfig

LEMMA PartShape ==
    ASSUME NEW c, IsConfig(c), NEW sections
    PROVE  /\ IsConfig(generateConfigMap(c, sections))
           /\ DOMAIN c \cap sections \subseteq DOMAIN generateConfigMap(c, sections)
<1>1. \A s \in DOMAIN EmptyConfig :
         EmptyConfig[s] = [k \in DOMAIN EmptyConfig[s] |-> EmptyConfig[s][k]]
  BY DEF EmptyConfig
<1>2. "DEFAULT" \in DOMAIN EmptyConfig
  BY DEF EmptyConfig
<1> QED
  BY <1>1, <1>2 DEF IsConfig, generateConfigMap, HasSection

LEMMA JoinShape ==
    ASSUME NEW n, IsConfig(n), NEW a, IsConfig(a)
    PROVE  IsConfig(GenerateOperatorConfigMap(n, a))
BY DEF IsConfig, GenerateOperatorConfigMap, HasSection
--------------------------------------------------------------------------------
(* Filling in *)

\* The keys of a section that have a default.
Defaulted(d, s) == {x.key : x \in {y \in d : y.section = s}}

\* The value an option has when the defaults are filled in.
FilledValue(c, d, s, k) ==
    IF k \in Defaulted(d, s) /\ (DefaultFor(d, s, k).force \/ Value(c, s, k) = "")
    THEN DefaultFor(d, s, k).value ELSE c[s][k]

\* The default for an option is one of those given for it.
LEMMA DefaultForIs ==
    ASSUME NEW d, NEW s, NEW k \in Defaulted(d, s)
    PROVE  DefaultFor(d, s, k) \in d /\ DefaultFor(d, s, k).section = s
             /\ DefaultFor(d, s, k).key = k
<1>1. \E x \in d : x.section = s /\ x.key = k
  BY DEF Defaulted
<1> QED BY <1>1 DEF DefaultFor

\* What becomes of an option.
LEMMA FillSays ==
    ASSUME NEW c, NEW d, NEW s \in DOMAIN c
    PROVE  /\ DOMAIN Fill(c, d)[s] = DOMAIN c[s] \cup Defaulted(d, s)
           /\ \A k \in DOMAIN c[s] \cup Defaulted(d, s) :
                 Fill(c, d)[s][k] = FilledValue(c, d, s, k)
BY DEF Fill, Defaulted, FilledValue

\* Filling in what has been filled in changes nothing: a default takes the place of an
\* empty value or of any value, but never of what another default has put there.
LEMMA FillTwice ==
    ASSUME NEW c, NEW d
    PROVE  Fill(Fill(c, d), d) = Fill(c, d)
<1> DEFINE f == Fill(c, d)
           g == Fill(f, d)
<1>1. DOMAIN f = DOMAIN c /\ DOMAIN g = DOMAIN c /\ IsConfig(f) /\ IsConfig(g)
  BY FillShape
<1>2. ASSUME NEW s \in DOMAIN c PROVE g[s] = f[s]
  <2>1. /\ DOMAIN f[s] = DOMAIN c[s] \cup Defaulted(d, s)
        /\ \A k \in DOMAIN c[s] \cup Defaulted(d, s) : f[s][k] = FilledValue(c, d, s, k)
    BY FillSays
  <2>2. /\ DOMAIN g[s] = DOMAIN f[s] \cup Defaulted(d, s)
        /\ \A k \in DOMAIN f[s] \cup Defaulted(d, s) : g[s][k] = FilledValue(f, d, s, k)
    BY <1>1, FillSays
  <2> HIDE DEF f, g
  <2>3. DOMAIN g[s] = DOMAIN f[s]
    BY <2>1, <2>2
  <2>4. ASSUME NEW k \in DOMAIN f[s] PROVE g[s][k] = f[s][k]
    <3>1. Value(f, s, k) = f[s][k]
      BY <1>1, <2>4 DEF Value, HasKey
    <3>2. k \notin DOMAIN c[s] => Value(c, s, k) = ""
      BY DEF Value, HasKey
    <3>3. k \in DOMAIN c[s] => Value(c, s, k) = c[s][k]
      BY DEF Value, HasKey
    <3> QED BY <2>1, <2>2, <3>1, <3>2, <3>3 DEF FilledValue
  <2>5. /\ f[s] = [k \in DOMAIN f[s] |-> f[s][k]]
        /\ g[s] = [k \in DOMAIN g[s] |-> g[s][k]]
    BY <1>1 DEF IsConfig
  <2> QED BY <2>3, <2>4, <2>5
<1> HIDE DEF f, g
<1>3. f = [s \in DOMAIN f |-> f[s]] /\ g = [s \in DOMAIN g |-> g[s]]
  BY <1>1 DEF IsConfig
<1>4. f = g
  BY <1>1, <1>2, <1>3
<1> QED BY <1>4 DEF f, g

\* A section that is there need not be created.
LEMMA SectionThere ==
    ASSUME NEW c, IsConfig(c), NEW s \in DOMAIN c
    PROVE  WithSection(c, s) = c
<1>1. WithSection(c, s) = [t \in DOMAIN c |-> c[t]]
  BY DEF WithSection
<1> QED BY <1>1 DEF IsConfig
================================================================================
