---------------------------- MODULE MCOverrides -----------------------------
(* One check with two options under three rules: enough for set, disable and *)
(* set again, and for an option that survives a later rule.                  *)
EXTENDS Overrides

CONSTANTS c1, o1, o2, t1, t2

MCOptVals == {1, 2}

Of(s) == [c \in {c1} |-> s]
Only(o, v) == [p \in {o1, o2} |-> IF p = o THEN v ELSE Unset]

\* What a rule or the defaults say of the check.
Sayings == {Of(Off), Of(Silent)} \cup {Of(f) : f \in [{o1, o2} -> {1, 2, Unset}]}

OneRule == {[matches |-> m, checks |-> s, target |-> t] :
               m \in BOOLEAN, s \in Sayings, t \in {t1, NoTemplate}}

\* The last two rules match; between them they show every order.
ShortRule == {[matches |-> TRUE, checks |-> Of(s), target |-> t] :
                 s \in {Off, Silent, Only(o1, 1), Only(o2, 2)},
                 t \in {t2, NoTemplate}}

MCConfigs ==
    {[defaults |-> d, target |-> t1, overrides |-> r] :
        d \in Sayings, r \in (OneRule \X ShortRule \X ShortRule)}
=============================================================================
