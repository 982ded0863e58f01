----------------------------- MODULE MCDirectory -----------------------------
(***************************************************************************)
(* A managed node, a node in file mode and an operator at a shell, over a  *)
(* document with aliases of each kind, a chain, a group, a service and a   *)
(* static key.                                                             *)
(***************************************************************************)
EXTENDS Directory

CONSTANTS n1, f1, cli

Account(name, value, tenant) ==
  [name |-> name, value |-> value, tenant |-> tenant, models |-> Open,
   weight |-> 1, limits |-> << >>]

Metered == [DefaultProvider EXCEPT !.keys = <<Account("k1", <<"env", "openai">>, Nobody)>>]
Seat == [DefaultProvider EXCEPT !.type = "claude_subscription",
           !.keys = <<Account("k2", <<"store", "seat">>, "s")>>]

Opening ==
  [EmptyDocument EXCEPT
     !.tenants = <<"s">>,
     !.static = <<[value |-> <<"env", "openai">>, tenant |-> "s"]>>,
     !.providers = "openai" :> Metered @@ "claude" :> Seat,
     !.aliases = <<"a">> :> <<"openai", "m">> @@ <<"b">> :> <<"c">>
                 @@ <<"c">> :> <<"claude", "x">> @@ <<"claude", "x">> :> <<"openai", "m">>,
     !.fallbacks = <<"openai", "m">> :> <<<<"claude", "m">>>>,
     !.groups = <<"g">> :> [primary |-> <<Weighted(<<"a">>)>>,
                            fallback |-> <<Weighted(<<"claude", "m">>)>>]]

Plain == [EmptyDocument EXCEPT !.providers = "openai" :> Metered,
                               !.aliases = <<"a">> :> <<"openai", "m">>]

Held == [version |-> 1, seeded |-> TRUE, config |-> Opening, keys |-> "i1" :> "s",
         users |-> {"u1"}, teams |-> "w1" :> {"u1"}, secrets |-> {"seat"}]
Empty == [version |-> 0, seeded |-> FALSE, config |-> EmptyDocument, keys |-> << >>,
          users |-> {}, teams |-> << >>, secrets |-> {}]

MCDrafts == {Plain}
MCFileTexts == {Plain}
MCSeeds == {Plain}
MCNewProviders ==
  {[name |-> "vllm", entry |-> DefaultProvider],
   [name |-> "azure", entry |-> [Metered EXCEPT !.fields = "api_version" :> "v1"]]}
MCNewAccounts == {<<Account("k1", <<"env", "openai">>, "s"), Account("k3", <<"file", "seat">>, Nobody)>>,
                  <<Account("k3", <<"store", "seat">>, Nobody)>>}
MCRoutes == {[name |-> <<"h">>, primary |-> <<Weighted(<<"a">>), Weighted(<<"claude", "m">>)>>,
              fallback |-> << >>]}
MCUploads == {<<"file", "seat">>}

Set == [a \in {n1, f1, cli} |-> {<<"env", "openai">>}]
MCStarts == {[store |-> Held, machine |-> Set], [store |-> Empty, machine |-> Set],
             [store |-> Empty, machine |-> [a \in {n1, f1, cli} |-> {}]]}
=============================================================================
