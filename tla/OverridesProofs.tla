--------------------------- MODULE OverridesProofs --------------------------
(***************************************************************************)
(* Precedence among override rules, for any number of rules, checks and    *)
(* options.  LaterRulesWin, RunsAsCoded and LastRenameWins speak of the    *)
(* first i rules, so each is its own loop invariant.                       *)
(***************************************************************************)
EXTENDS Overrides, TLAPS

\* What one rule does to one check.
LEMMA MergeFacts ==
    ASSUME NEW old \in Options \cup {Off}, NEW new \in Options \cup {Off, Silent}
    PROVE  /\ MergeCheck(old, new) \in Options \cup {Off}
           /\ new = Silent => MergeCheck(old, new) = old
           /\ new = Off => MergeCheck(old, new) = Off
           /\ new \in Options =>
                /\ MergeCheck(old, new) # Off
                /\ \A o \in OptNames :
                     MergeCheck(old, new)[o] =
                        IF new[o] # Unset THEN new[o]
                        ELSE IF old = Off THEN Unset ELSE old[o]
<1>1. CASE new = Silent
  BY <1>1, OverridesAssumption DEF MergeCheck
<1>2. CASE new = Off
  BY <1>2, OverridesAssumption DEF MergeCheck
<1>3. CASE new \in Options
  <2>1. MergeCheck(old, new) = Update(old, new)
    BY <1>3, OverridesAssumption DEF MergeCheck
  <2>2. Update(old, new) \in Options
    BY <1>3 DEF Update, Options
  <2> QED
    BY <1>3, <2>1, <2>2, OverridesAssumption DEF Update
<1> QED
  BY <1>1, <1>2, <1>3

\* dict(v or {}) of a default that is listed.
LEMMA AsOptionsType ==
    ASSUME NEW v \in Options \cup {Off}
    PROVE  AsOptions(v) \in Options
  BY DEF AsOptions, NoOption, Options

\* However rules, disabled checks and empty defaults follow each other, a check
\* either has a complete mapping of options or is not in the dict.
THEOREM OverridesType == Spec => []TypeOK
<1>1. Init => TypeOK
  <2> SUFFICES ASSUME Init  PROVE TypeOK
    OBVIOUS
  <2>1. config \in ConfigType
    BY OverridesAssumption DEF Init
  <2>2. i \in 0 .. Len(config.overrides)
    BY <2>1 DEF Init, ConfigType
  <2>3. ASSUME NEW c \in Names
        PROVE  (IF config.defaults[c] = Silent THEN Off
                ELSE AsOptions(config.defaults[c])) \in Options \cup {Off}
    <3>1. config.defaults[c] \in Options \cup {Off, Silent}
      BY <2>1 DEF ConfigType
    <3> QED
      BY <3>1, AsOptionsType
  <2>4. merged \in [Names -> Options \cup {Off}]
    BY <2>3 DEF Init
  <2>5. template \in Templates \cup {NoTemplate}
    BY <2>1 DEF Init, ConfigType
  <2> QED
    BY <2>1, <2>2, <2>4, <2>5 DEF TypeOK
<1>2. TypeOK /\ [Next]_vars => TypeOK'
  <2> SUFFICES ASSUME TypeOK, [Next]_vars  PROVE TypeOK'
    OBVIOUS
  <2>1. CASE NextRule
    <3> DEFINE rule == config.overrides[i + 1]
    <3>1. i + 1 \in 1 .. Len(config.overrides) /\ rule \in Rule
      BY <2>1 DEF NextRule, TypeOK, ConfigType
    <3>2. \A c \in Names : /\ merged[c] \in Options \cup {Off}
                           /\ rule.checks[c] \in Options \cup {Off, Silent}
      BY <3>1 DEF TypeOK, Rule
    <3>3. merged' \in [Names -> Options \cup {Off}]
      <4>1. CASE rule.matches
        BY <2>1, <3>2, <4>1, MergeFacts DEF NextRule
      <4>2. CASE ~rule.matches
        BY <2>1, <4>2 DEF NextRule, TypeOK
      <4> QED BY <4>1, <4>2
    <3>4. template' \in Templates \cup {NoTemplate}
      BY <2>1, <3>1 DEF NextRule, TypeOK, Rename, Rule
    <3>5. config' = config /\ i' = i + 1
      BY <2>1 DEF NextRule
    <3> QED
      BY <3>1, <3>3, <3>4, <3>5 DEF TypeOK
  <2>2. CASE UNCHANGED vars
    BY <2>2 DEF vars, TypeOK
  <2> QED BY <2>1, <2>2 DEF Next
<1> QED
  BY <1>1, <1>2, PTL DEF Spec

\* One turn of the loop, as the proofs below use it.
LEMMA StepFacts ==
    ASSUME TypeOK, NextRule, NEW n, n = i + 1
    PROVE  /\ i \in Nat /\ i' = n /\ config' = config
           /\ config.overrides[n] \in Rule
           /\ 1 .. n = (1 .. i) \cup {n} /\ n \notin 1 .. i
           /\ \A k \in 1 .. i : k + 1 .. n = (k + 1 .. i) \cup {n}
           /\ \A k \in 1 .. i : k + 1 .. i \subseteq 1 .. i
           /\ n + 1 .. n = {}
           /\ ~config.overrides[n].matches => UNCHANGED <<merged, template>>
           /\ config.overrides[n].matches =>
                 /\ template' = Rename(template, config.overrides[n])
                 /\ \A c \in Names : merged'[c] =
                      MergeCheck(merged[c], config.overrides[n].checks[c])
<1>1. i \in Nat /\ i' = n /\ config' = config
  BY DEF NextRule, TypeOK
<1>2. config.overrides[n] \in Rule
  BY DEF NextRule, TypeOK, ConfigType
<1>3. \A k \in 1 .. i : k + 1 .. n = (k + 1 .. i) \cup {n}
  BY <1>1
<1> QED
  BY <1>1, <1>2, <1>3 DEF NextRule

-----------------------------------------------------------------------------
(* Where the table's target name comes from *)

\* Pair.target_table_for: the last matching rule that renames the table wins.
THEOREM RenameTheorem == Spec => []LastRenameWins
<1> DEFINE Renames(k) == config.overrides[k].matches
                         /\ config.overrides[k].target # NoTemplate
           ByRule(k)  == /\ Renames(k) /\ config.overrides[k].target = template
                         /\ \A m \in k + 1 .. i : ~Renames(m)
           ByPair     == /\ template = config.target
                         /\ \A k \in 1 .. i : ~Renames(k)
           Known      == (\E k \in 1 .. i : ByRule(k)) \/ ByPair
<1>1. LastRenameWins <=> Known
  BY DEF LastRenameWins
<1>2. Init => Known
  BY DEF Init
<1>3. TypeOK /\ Known /\ [Next]_vars => Known'
  <2> SUFFICES ASSUME TypeOK, Known, [Next]_vars  PROVE Known'
    OBVIOUS
  <2>0. PICK n : n = i + 1
    OBVIOUS
  <2>1. CASE NextRule /\ Renames(n)
    <3>1. template' = config.overrides[n].target
      BY <2>0, <2>1, StepFacts DEF Rename
    <3>2. n \in 1 .. i' /\ ByRule(n)'
      BY <2>0, <2>1, <3>1, StepFacts
    <3> QED BY <3>2
  <2>2. CASE NextRule /\ ~Renames(n)
    <3>1. template' = template
      BY <2>0, <2>2, StepFacts DEF Rename
    <3>2. \A k \in 1 .. i : ByRule(k) => k \in 1 .. i' /\ ByRule(k)'
      BY <2>0, <2>2, <3>1, StepFacts
    <3>3. ByPair => ByPair'
      BY <2>0, <2>2, <3>1, StepFacts
    <3> QED BY <3>2, <3>3
  <2>3. CASE UNCHANGED vars
    BY <2>3 DEF vars
  <2> QED
    BY <2>1, <2>2, <2>3 DEF Next
<1> QED
  <2> HIDE DEF Known
  <2> QED BY <1>1, <1>2, <1>3, OverridesType, PTL DEF Spec

-----------------------------------------------------------------------------
(* Which checks run, and with which options *)

LEMMA SayingsStep ==
    ASSUME TypeOK, NextRule, NEW n, n = i + 1
    PROVE  /\ \A c \in Names : Disables(n, c)' => merged'[c] = Off
           /\ \A c \in Names : Enables(n, c)' => merged'[c] # Off
           /\ \A c \in Names :
                 ~Disables(n, c)' /\ ~Enables(n, c)' => merged'[c] = merged[c]
           /\ \A c \in Names, o \in OptNames : Enables(n, c)' =>
                 merged'[c][o] =
                    IF Sets(n, c, o)' THEN config.overrides[n].checks[c][o]
                    ELSE IF merged[c] = Off THEN Unset ELSE merged[c][o]
           /\ \A k \in 1 .. i, c \in Names :
                 /\ Disables(k, c)' <=> Disables(k, c)
                 /\ Enables(k, c)' <=> Enables(k, c)
                 /\ \A o \in OptNames : Sets(k, c, o)' <=> Sets(k, c, o)
<1> DEFINE rule == config.overrides[n]
<1>1. /\ config' = config /\ rule \in Rule
      /\ ~rule.matches => merged' = merged
      /\ rule.matches => \A c \in Names :
            merged'[c] = MergeCheck(merged[c], rule.checks[c])
  BY StepFacts
<1>2. ASSUME NEW c \in Names
      PROVE  /\ merged[c] \in Options \cup {Off}
             /\ rule.checks[c] \in Options \cup {Off, Silent}
  BY <1>1 DEF TypeOK, Rule
<1>3. ASSUME NEW c \in Names
      PROVE  /\ Disables(n, c)' => merged'[c] = Off
             /\ Enables(n, c)' => merged'[c] # Off
             /\ ~Disables(n, c)' /\ ~Enables(n, c)' => merged'[c] = merged[c]
             /\ \A o \in OptNames : Enables(n, c)' =>
                  merged'[c][o] =
                     IF Sets(n, c, o)' THEN rule.checks[c][o]
                     ELSE IF merged[c] = Off THEN Unset ELSE merged[c][o]
  BY <1>1, <1>2, MergeFacts DEF Disables, Enables, Sets
<1>4. /\ \A k \in 1 .. i, c \in Names :
             /\ Disables(k, c)' <=> Disables(k, c)
             /\ Enables(k, c)' <=> Enables(k, c)
             /\ \A o \in OptNames : Sets(k, c, o)' <=> Sets(k, c, o)
  BY <1>1 DEF Disables, Enables, Sets
<1> QED
  BY <1>3, <1>4

\* What the loop keeps, a False in the defaults included: it runs as if it were {}.
RunsAsCoded ==
    \A c \in Names : merged[c] # Off <=>
        \/ \E k \in 1 .. i : Enables(k, c) /\ \A m \in k + 1 .. i : ~Disables(m, c)
        \/ config.defaults[c] # Silent /\ \A k \in 1 .. i : ~Disables(k, c)

LEMMA Runs == Spec => []RunsAsCoded
<1> DEFINE Wanted(c) ==
             \/ \E k \in 1 .. i : Enables(k, c) /\ \A m \in k + 1 .. i : ~Disables(m, c)
             \/ config.defaults[c] # Silent /\ \A k \in 1 .. i : ~Disables(k, c)
<1>1. TypeOK /\ Init => RunsAsCoded
  <2> SUFFICES ASSUME TypeOK, Init, NEW c \in Names
               PROVE  merged[c] # Off <=> Wanted(c)
    BY DEF RunsAsCoded
  <2>1. i = 0 /\ 1 .. i = {}
    BY DEF Init
  <2>2. Wanted(c) <=> config.defaults[c] # Silent
    BY <2>1
  <2>3. config.defaults[c] # Silent => merged[c] # Off
    <3>1. config.defaults[c] \in Options \cup {Off, Silent}
      BY DEF TypeOK, ConfigType
    <3> QED
      BY <3>1, AsOptionsType, OverridesAssumption DEF Init
  <2>4. config.defaults[c] = Silent => merged[c] = Off
    BY DEF Init
  <2> QED
    BY <2>2, <2>3, <2>4
<1>2. TypeOK /\ RunsAsCoded /\ [Next]_vars => RunsAsCoded'
  <2> SUFFICES ASSUME TypeOK, RunsAsCoded, [Next]_vars
               PROVE  RunsAsCoded'
    OBVIOUS
  <2>0. PICK n : n = i + 1
    OBVIOUS
  <2>1. CASE NextRule
    <3> SUFFICES ASSUME NEW c \in Names
                 PROVE  merged'[c] # Off <=> Wanted(c)'
      BY DEF RunsAsCoded
    <3>1. merged[c] # Off <=> Wanted(c)
      BY DEF RunsAsCoded
    <3>2. /\ i \in Nat /\ i' = n /\ config' = config
          /\ 1 .. n = (1 .. i) \cup {n}
          /\ \A k \in 1 .. i : k + 1 .. n = (k + 1 .. i) \cup {n}
          /\ \A k \in 1 .. i : k + 1 .. i \subseteq 1 .. i
          /\ n + 1 .. n = {}
      BY <2>0, <2>1, StepFacts
    <3>3. \A k \in 1 .. i : /\ Disables(k, c)' <=> Disables(k, c)
                            /\ Enables(k, c)' <=> Enables(k, c)
      BY <2>0, <2>1, SayingsStep
    <3>5. CASE Disables(n, c)'
      <4>1. merged'[c] = Off
        BY <2>0, <2>1, <3>5, SayingsStep
      <4>2. ~Enables(n, c)'
        BY <3>5, OverridesAssumption DEF Disables, Enables
      <4>3. ~Wanted(c)'
        BY <3>2, <3>5, <4>2
      <4> QED BY <4>1, <4>3
    <3>6. CASE Enables(n, c)' /\ ~Disables(n, c)'
      <4>1. merged'[c] # Off
        BY <2>0, <2>1, <3>6, SayingsStep
      <4>2. Wanted(c)'
        BY <3>2, <3>6
      <4> QED BY <4>1, <4>2
    <3>7. CASE ~Enables(n, c)' /\ ~Disables(n, c)'
      <4>1. merged'[c] = merged[c]
        BY <2>0, <2>1, <3>7, SayingsStep
      <4>2. Wanted(c)' <=> Wanted(c)
        BY <3>2, <3>3, <3>7
      <4> QED BY <3>1, <4>1, <4>2
    <3> QED BY <3>5, <3>6, <3>7
  <2>2. CASE UNCHANGED vars
    BY <2>2 DEF vars, RunsAsCoded, Enables, Disables
  <2> QED BY <2>1, <2>2 DEF Next
<1> QED
  BY <1>1, <1>2, OverridesType, PTL DEF Spec

\* Pair.checks_for: a check runs unless the last rule about it disabled it.
THEOREM RunsTheorem == Spec => []RunsUnlessDisabled
<1>1. RunsAsCoded => RunsUnlessDisabled
  BY DEF RunsAsCoded, RunsUnlessDisabled
<1> QED  BY <1>1, Runs, PTL

\* Pair.checks_for: every option of every check that runs comes from the last
\* matching rule that sets it, or from the defaults.
THEOREM LaterRulesTheorem == Spec => []LaterRulesWin
<1> DEFINE SetBy(k, c, o) == /\ Sets(k, c, o)
                             /\ merged[c][o] = config.overrides[k].checks[c][o]
                             /\ \A m \in k + 1 .. i : ~Disables(m, c) /\ ~Sets(m, c, o)
           ByRule(c, o) == \E k \in 1 .. i : SetBy(k, c, o)
           ByDefault(c, o) == /\ \A k \in 1 .. i : ~Disables(k, c) /\ ~Sets(k, c, o)
                              /\ config.defaults[c] # Silent
                              /\ merged[c][o] = AsOptions(config.defaults[c])[o]
           Dropped(c) == (\E k \in 1 .. i : Disables(k, c))
                         \/ config.defaults[c] = Silent
           ByNone(c, o) == /\ merged[c][o] = Unset
                           /\ \A k \in 1 .. i : Sets(k, c, o) =>
                                \E m \in k + 1 .. i : Disables(m, c)
                           /\ Dropped(c)
           Origin(c, o) == ByRule(c, o) \/ ByDefault(c, o) \/ ByNone(c, o)
<1>1. LaterRulesWin <=>
        \A c \in Names, o \in OptNames : merged[c] # Off => Origin(c, o)
  BY DEF LaterRulesWin
<1>2. Init => LaterRulesWin
  <2> SUFFICES ASSUME Init, NEW c \in Names, NEW o \in OptNames, merged[c] # Off
               PROVE  ByDefault(c, o)
    BY <1>1
  <2>1. 1 .. i = {}
    BY DEF Init
  <2>2. config.defaults[c] # Silent
        /\ merged[c] = AsOptions(config.defaults[c])
    BY DEF Init
  <2> QED
    BY <2>1, <2>2
<1>3. TypeOK /\ RunsAsCoded /\ LaterRulesWin /\ [Next]_vars => LaterRulesWin'
  <2> SUFFICES ASSUME TypeOK, RunsAsCoded, LaterRulesWin, [Next]_vars
               PROVE  LaterRulesWin'
    OBVIOUS
  <2>0. PICK n : n = i + 1
    OBVIOUS
  <2>1. CASE NextRule
    <3> SUFFICES ASSUME NEW c \in Names, NEW o \in OptNames, merged'[c] # Off
                 PROVE  Origin(c, o)'
      BY DEF LaterRulesWin
    <3>1. merged[c] # Off => Origin(c, o)
      BY <1>1
    <3>2. /\ i \in Nat /\ i' = n /\ config' = config
          /\ 1 .. n = (1 .. i) \cup {n}
          /\ \A k \in 1 .. i : k + 1 .. n = (k + 1 .. i) \cup {n}
          /\ \A k \in 1 .. i : k + 1 .. i \subseteq 1 .. i
          /\ n + 1 .. n = {}
      BY <2>0, <2>1, StepFacts
    <3>3. \A k \in 1 .. i : /\ Disables(k, c)' <=> Disables(k, c)
                            /\ Enables(k, c)' <=> Enables(k, c)
                            /\ Sets(k, c, o)' <=> Sets(k, c, o)
      BY <2>0, <2>1, SayingsStep
    <3>4. ~Disables(n, c)'
      BY <2>0, <2>1, SayingsStep
    <3>5. CASE Sets(n, c, o)'
      <4>1. merged'[c][o] = config.overrides[n].checks[c][o]
        BY <2>0, <2>1, <3>5, SayingsStep DEF Sets
      <4>2. SetBy(n, c, o)'
        BY <3>2, <3>5, <4>1
      <4> QED BY <3>2, <4>2
    <3>6. CASE ~Sets(n, c, o)' /\ merged[c] # Off
      <4>1. merged'[c][o] = merged[c][o]
        BY <2>0, <2>1, <3>4, <3>6, SayingsStep
      <4>2. ByRule(c, o) => ByRule(c, o)'
        BY <3>2, <3>3, <3>4, <3>6, <4>1
      <4>3. ByDefault(c, o) => ByDefault(c, o)'
        BY <3>2, <3>3, <3>4, <3>6, <4>1
      <4>4. ByNone(c, o) => ByNone(c, o)'
        BY <3>2, <3>3, <3>6, <4>1
      <4> QED BY <3>1, <3>6, <4>2, <4>3, <4>4
    <3>7. CASE ~Sets(n, c, o)' /\ merged[c] = Off
      <4>1. Enables(n, c)'
        BY <2>0, <2>1, <3>4, <3>7, SayingsStep
      <4>2. merged'[c][o] = Unset
        BY <2>0, <2>1, <3>7, <4>1, SayingsStep
      <4>3. /\ \A k \in 1 .. i : Enables(k, c) => \E m \in k + 1 .. i : Disables(m, c)
            /\ Dropped(c)
        BY <3>7 DEF RunsAsCoded
      <4>4. ByNone(c, o)'
        BY <3>2, <3>3, <3>7, <4>2, <4>3 DEF Sets
      <4> QED BY <4>4
    <3> QED BY <3>5, <3>6, <3>7
  <2>2. CASE UNCHANGED vars
    BY <2>2 DEF vars, LaterRulesWin, Sets, Enables, Disables
  <2> QED BY <2>1, <2>2 DEF Next
<1> QED
  BY <1>2, <1>3, OverridesType, Runs, PTL DEF Spec
=============================================================================
