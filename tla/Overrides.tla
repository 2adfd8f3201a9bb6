----------------------------- MODULE Overrides ------------------------------
(***************************************************************************)
(* Pair.checks_for and Pair.target_table_for for one discovered table: the *)
(* two loops over the override rules, one rule per step.  A glob is the    *)
(* set of tables it matches, so a rule either matches the table or not; a  *)
(* "{table}" template is the name it expands to for this table.            *)
(***************************************************************************)
EXTENDS Naturals, Sequences

CONSTANTS
    Names,      \* check names
    OptNames,   \* option names
    OptVals,    \* option values
    Unset,      \* an option a mapping does not have
    Off,        \* a check that is not there; a check whose value is False
    Silent,     \* a rule that says nothing of a check
    Templates,  \* target tables a template can expand to
    NoTemplate, \* target_table is None
    Configs     \* the pairs considered: see ConfigType

Options  == [OptNames -> OptVals \cup {Unset}]
NoOption == [o \in OptNames |-> Unset]

\* An Override, as far as this table is concerned.
Rule == [matches : BOOLEAN,
         checks  : [Names -> Options \cup {Off, Silent}],
         target  : Templates \cup {NoTemplate}]

\* In `defaults` Silent is a check not listed, Off a check listed as False.
ConfigType == [defaults  : [Names -> Options \cup {Off, Silent}],
               target    : Templates \cup {NoTemplate},
               overrides : Seq(Rule)]

ASSUME OverridesAssumption ==
    /\ Configs \subseteq ConfigType
    /\ Off \notin Options /\ Silent \notin Options /\ Off # Silent
    /\ Unset \notin OptVals /\ NoTemplate \notin Templates

VARIABLES
    config,    \* the pair
    i,         \* rules applied so far
    merged,    \* merged[c]: c's options, Off if c is not in the dict
    template   \* target_table_for's loop variable

vars == <<config, i, merged, template>>

\* dict(v or {}): False counts as no options
AsOptions(v) == IF v = Off THEN NoOption ELSE v

Init ==
    /\ config \in Configs
    /\ i = 0
    /\ merged = [c \in Names |-> IF config.defaults[c] = Silent THEN Off
                                 ELSE AsOptions(config.defaults[c])]
    /\ template = config.target

\* {**merged.get(name, {}), **(opts or {})}
EarlierWins(old, new) ==
    IF old = Off THEN new
    ELSE [o \in OptNames |-> IF old[o] # Unset THEN old[o] ELSE new[o]]
Update(old, new) ==
    [o \in OptNames |-> IF new[o] # Unset THEN new[o]
                        ELSE IF old = Off THEN Unset ELSE old[o]]

FalsyDisables(old, new) == IF new = Silent THEN old
                           ELSE IF new \in {Off, NoOption} THEN Off ELSE Update(old, new)
EveryName(old, new) == IF new \in {Off, Silent} THEN new ELSE Update(old, new)
MergeCheck(old, new) == IF new = Silent THEN old
                        ELSE IF new = Off THEN Off ELSE Update(old, new)

\* `template = rule.target_table` if the rule has one and matches
FirstTemplate(old, rule) == IF old = NoTemplate THEN rule.target ELSE old
Rename(old, rule) == IF rule.target # NoTemplate THEN rule.target ELSE old

NextRule ==
    /\ i < Len(config.overrides)
    /\ LET rule == config.overrides[i + 1] IN
       IF rule.matches
       THEN /\ merged' = [c \in Names |-> MergeCheck(merged[c], rule.checks[c])]
            /\ template' = Rename(template, rule)
       ELSE UNCHANGED <<merged, template>>
    /\ i' = i + 1
    /\ UNCHANGED config

Next == NextRule
Spec == Init /\ [][Next]_vars

-----------------------------------------------------------------------------
TypeOK ==
    /\ config \in ConfigType /\ i \in 0 .. Len(config.overrides)
    /\ merged \in [Names -> Options \cup {Off}]
    /\ template \in Templates \cup {NoTemplate}

\* Rule k says `False` of c; rule k gives c options; rule k sets c's option o.
Disables(k, c) == config.overrides[k].matches /\ config.overrides[k].checks[c] = Off
Enables(k, c)  == config.overrides[k].matches /\ config.overrides[k].checks[c] \in Options
Sets(k, c, o)  == Enables(k, c) /\ config.overrides[k].checks[c][o] # Unset

\* "Later rules win": an option of a check that runs has the value given by
\* the last matching rule that sets it, unless a rule in between disabled the
\* check; then, and only then, earlier rules and the defaults are forgotten.
LaterRulesWin ==
    \A c \in Names, o \in OptNames : merged[c] # Off =>
        \/ \E k \in 1 .. i :
              /\ Sets(k, c, o)
              /\ merged[c][o] = config.overrides[k].checks[c][o]
              /\ \A m \in k + 1 .. i : ~Disables(m, c) /\ ~Sets(m, c, o)
        \/ /\ \A k \in 1 .. i : ~Disables(k, c) /\ ~Sets(k, c, o)
           /\ config.defaults[c] # Silent
           /\ merged[c][o] = AsOptions(config.defaults[c])[o]
        \/ /\ merged[c][o] = Unset
           /\ \A k \in 1 .. i : Sets(k, c, o) =>
                 \E m \in k + 1 .. i : Disables(m, c)
           /\ (\E k \in 1 .. i : Disables(k, c)) \/ config.defaults[c] = Silent

\* A check runs exactly if a matching rule gave it options, or the defaults
\* list it, and no later matching rule disabled it.  Not claimed of a check
\* that the defaults disable and no rule speaks of: the code runs it, "a check
\* value of False disables that check" notwithstanding.
RunsUnlessDisabled ==
    \A c \in Names :
        config.defaults[c] # Off \/ (\E k \in 1 .. i : Enables(k, c) \/ Disables(k, c))
        => (merged[c] # Off <=>
              \/ \E k \in 1 .. i : Enables(k, c) /\ \A m \in k + 1 .. i : ~Disables(m, c)
              \/ config.defaults[c] # Silent /\ \A k \in 1 .. i : ~Disables(k, c))

\* The target name comes from the last matching rule that has one, else from
\* the pair.
LastRenameWins ==
    \/ \E k \in 1 .. i :
          /\ config.overrides[k].matches
          /\ config.overrides[k].target = template /\ template # NoTemplate
          /\ \A m \in k + 1 .. i : ~(config.overrides[m].matches
                                     /\ config.overrides[m].target # NoTemplate)
    \/ /\ template = config.target
       /\ \A k \in 1 .. i : ~(config.overrides[k].matches
                              /\ config.overrides[k].target # NoTemplate)
=============================================================================
