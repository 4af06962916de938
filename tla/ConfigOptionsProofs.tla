-------------------------- MODULE ConfigOptionsProofs --------------------------
(***************************************************************************)
(* Theorems about ConfigOptions, for every configuration: the comparison   *)
(* misses no change, and a restarted operator invents none.                *)
(***************************************************************************)
EXTENDS MCConfigOptions, ConfigOptionsLemmas

\* Whatever the user writes and whatever was applied, every change of an option
\* that a kind of pod depends on restarts these pods.
THEOREM EveryChangeFound == Spec => []ChangesFound
<1>1. ChangesFound
  <2> SUFFICES ASSUME NEW pod \in Pods, ~SameFor(pod, Filled(user), Filled(prev))
               PROVE  NeedApplyChange(Filled(user), Filled(prev))[pod]
    BY DEF ChangesFound
  <2> QED BY NeedApplyChangeComplete
<1> QED BY <1>1, PTL

\* An operator restarted after everything was applied finds nothing to change,
\* whatever the configuration, and rejects nothing as a change of an immutable
\* field.
THEOREM RestartIsQuiet == Spec => []RestartFindsNoChange
<1>1. ASSUME NEW c
      PROVE  /\ ~ImmutableFieldChanged(c, Joined(c))
             /\ \A pod \in Pods : ~NeedApplyChange(c, Joined(c))[pod]
  <2> DEFINE t == Touched(c)
             u == Touched(Joined(c))
  <2>1. \A s \in DiffSections(t, u) : s \notin OperatorSections
    BY NothingDiffers
  <2>2. ~ImmutableFieldChanged(c, Joined(c))
    <3>1. \A o \in ImmutableFields : o.section \in OperatorSections
      BY DEF ImmutableFields, Options, Option, OperatorSections
    <3> QED BY <3>1, NothingDiffers DEF ImmutableFieldChanged
  <2>3. NcpSections \subseteq OperatorSections /\ AgentRestartSections \subseteq OperatorSections
    BY DEF NcpSections, AgentRestartSections, OperatorSections
  <2>4. ASSUME NEW s, s \notin OperatorSections
        PROVE  ~OptionsChanged(AgentRestartOptionKeys, s, u, t)
    <3>1. \A o \in AgentRestartOptionKeys : o.section \in OperatorSections
      BY DEF AgentRestartOptionKeys, Options, Option, OperatorSections
    <3> QED BY <2>4, <3>1 DEF OptionsChanged
  <2>5. ASSUME NEW s, s \notin OperatorSections
        PROVE  ~OptionsChanged(BootstrapRestartOptionKeys, s, u, t)
    <3>1. \A o \in BootstrapRestartOptionKeys : o.section \in OperatorSections
      BY DEF BootstrapRestartOptionKeys, Options, Option, OperatorSections
    <3> QED BY <2>5, <3>1 DEF OptionsChanged
  <2>6. NeedApplyChange(c, Joined(c)) =
          [ncp |-> \E s \in DiffSections(t, u) : s \in NcpSections,
           agent |-> \E s \in DiffSections(t, u) :
                        \/ s \in AgentRestartSections
                        \/ OptionsChanged(AgentRestartOptionKeys, s, u, t),
           bootstrap |-> \E s \in DiffSections(t, u) :
                            OptionsChanged(BootstrapRestartOptionKeys, s, u, t)]
    BY DEF NeedApplyChange
  <2> HIDE DEF t, u
  <2>7. \A pod \in Pods : ~NeedApplyChange(c, Joined(c))[pod]
    BY <2>1, <2>3, <2>4, <2>5, <2>6 DEF Pods
  <2> QED BY <2>2, <2>7
<1>2. RestartFindsNoChange
  BY <1>1 DEF RestartFindsNoChange
<1> QED BY <1>2, PTL

\* Whatever the user writes, on either platform: FillDefaults overwrites a value only if
\* it is empty or inferred, and leaves no default to a second pass.
THEOREM DefaultsYield == Spec => []DefaultsYieldToUser
<1> DEFINE d == Defaults(adaptor, Blocks)
           w == WithSection(user, "coe")
           c == FillDefaults(user, adaptor, Blocks)
<1>1. \A x \in d : x.force =>
         Option(x.section, x.key) \in Inferred
  <2>1. CASE adaptor = "openshift4"
    BY <2>1 DEF d, Defaults, Default, Inferred
  <2>2. CASE adaptor # "openshift4"
    BY <2>2 DEF d, Defaults, Default, Inferred
  <2> QED BY <2>1, <2>2
<1>2. \A s \in DOMAIN user : s \in DOMAIN w /\ w[s] = user[s]
  BY DEF WithSection
<1>3. c = Fill(w, d)
  BY DEF FillDefaults
<1> HIDE DEF d, w, c
<1>4. ASSUME NEW s \in DOMAIN user, NEW k \in DOMAIN user[s], c[s][k] # user[s][k]
      PROVE  user[s][k] = "" \/ Option(s, k) \in Inferred
  <2>1. Value(w, s, k) = user[s][k]
    BY <1>2 DEF Value, HasKey
  <2>2. k \in Defaulted(d, s) /\ (DefaultFor(d, s, k).force \/ Value(w, s, k) = "")
    <3>1. c[s][k] = FilledValue(w, d, s, k)
      BY <1>2, <1>3, FillSays
    <3> QED BY <1>2, <1>4, <3>1 DEF FilledValue
  <2>3. /\ DefaultFor(d, s, k) \in d
        /\ DefaultFor(d, s, k).section = s /\ DefaultFor(d, s, k).key = k
    BY <2>2, DefaultForIs
  <2> QED BY <1>1, <2>1, <2>2, <2>3
<1>5. FillDefaults(c, adaptor, Blocks) = c
  <2>1. IsConfig(c) /\ "coe" \in DOMAIN c
    BY <1>3, FillShape DEF w, WithSection
  <2>2. WithSection(c, "coe") = c
    BY <2>1, SectionThere
  <2>3. FillDefaults(c, adaptor, Blocks) = Fill(c, d)
    BY <2>2 DEF FillDefaults, d
  <2> QED BY <1>3, <2>3, FillTwice
<1>6. DefaultsYieldToUser
  BY <1>4, <1>5 DEF DefaultsYieldToUser, c
<1> QED BY <1>6, PTL
================================================================================
