----------------------------- MODULE MCLoading ------------------------------
(* URLs, secrets and configurations written by hand for Loading.            *)
EXTENDS Loading, TLC

CONSTANTS s3cret, hunter2, dbpass, keyfile, webhook

URL(scheme, host, parts, password) ==
    [scheme |-> scheme, host |-> host, parts |-> parts, password |-> password]

\* One with a password, one without, one that is refused.
SourceURLs == {URL("mysql", "db", <<"shop">>, s3cret),
               URL("postgresql", "db", <<"shop", "sales">>, NONE),
               URL("oracle", "db", <<"shop">>, s3cret)}
TargetURLs == {URL("bigquery", "my-project", <<"raw_shop">>, NONE),
               URL("postgres", "dwh", <<"shop">>, hunter2),
               URL("mysql", "dwh", <<>>, hunter2)}

Environment == [CDCANARY_SOURCE_PASSWORD |-> s3cret, CDCANARY_TARGET_PASSWORD |-> hunter2,
                CDCANARY_SLACK_WEBHOOK |-> webhook, MYSQL_PASSWORD |-> dbpass,
                GOOGLE_APPLICATION_CREDENTIALS |-> keyfile]
Complete == DOMAIN Environment
AllButOne == {Complete, {}} \cup {Complete \ {v} : v \in Complete}
AllSecrets == {s3cret, hunter2, dbpass, keyfile, webhook}

Hand(connections, pairs) ==
    [connections |-> connections, pairs |-> pairs, slack_webhook |-> NONE]

mysql == [type |-> "mysql", host |-> "db", database |-> "shop",
          password |-> env("MYSQL_PASSWORD"), credentials |-> NONE]
a == [a |-> mysql]

Pair(s, t, checks, defaults, overrides) ==
    [source |-> s, target |-> t, checks |-> checks, defaults |-> defaults,
     overrides |-> overrides]

Tab == Endpoint("a", "orders", NONE)
Sch == Endpoint("a", NONE, "sales")
Both == Endpoint("a", "orders", "sales")

\* Endpoints of either kind, of both or of none, with an empty table, with an
\* empty schema alone or beside a table, of an unknown connection, or missing:
\* in any combination ...
Endpoints == {Tab, Sch, Both, Endpoint("a", "", NONE), Endpoint("a", NONE, ""),
              Endpoint("a", "orders", ""), Endpoint("b", "orders", NONE), NONE}
Joined == {Pair(s, t, {"row_delta"}, {"row_delta"}, {}) : s, t \in Endpoints}

\* ... with checks and defaults or without; and overrides with and without
\* the keys they need.
Checkless ==
    {Pair(e, e, c, d, {}) : e \in {Tab, Sch}, c, d \in {{}, {"row_delta"}}}
Overridden ==
    {Pair(Sch, Sch, {}, {"row_delta"}, {{"match", "checks"}, o}) :
        o \in SUBSET {"match", "checks", "target_table"}}

ByHand == {Hand(a, <<p>>) : p \in Joined \cup Checkless \cup Overridden}
          \cup {Hand(a, <<>>), Hand([c \in {} |-> mysql], <<>>)}

Symmetric == Permutations(Procs)
=============================================================================
