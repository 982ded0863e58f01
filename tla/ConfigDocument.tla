--------------------------- MODULE ConfigDocument ---------------------------
(***************************************************************************)
(* The configuration document: what may be written in it, what the loader  *)
(* refuses, and the routes a loaded document gives.  Names are strings; a  *)
(* reference to a model is the sequence of its parts, <<provider, model>>  *)
(* or <<name>>; the value of a secret is <<kind, name>>.  A field that may *)
(* be left out is a member of the domain of a function.                    *)
(***************************************************************************)
EXTENDS Naturals, Sequences, FiniteSets, SequencesExt, Functions

Nobody == "nobody"     \* no service named
Open == {"every model"} \* an account that lists no models
Unset == "unset"       \* an optional word left out

-----------------------------------------------------------------------------
(* The document as written. *)

RawAccount(names, models, tenants, values, limits) ==
  [name : names, value : values, limits : limits, tenant : tenants \cup {Nobody},
   models : SUBSET models \cup {Open}, weight : Nat]

DefaultProvider ==
  [type |-> Unset, base |-> Unset, auth |-> Unset, keys |-> << >>, limits |-> << >>,
   slots |-> 512, timeout |-> 120, fields |-> << >>]

DefaultSettings ==
  [body |-> 32, ttl |-> 43200, backend |-> "file", place |-> Unset, refresh |-> 3,
   heartbeat |-> 5, window |-> 15, retention |-> 365, flush |-> 10, capture |-> "all",
   limit |-> 262144, bodies |-> 1, threshold |-> 5, on |-> {"connect_error", "429", "5xx"}]

EmptyDocument ==
  [tenants |-> << >>, providers |-> << >>, aliases |-> << >>, fallbacks |-> << >>,
   groups |-> << >>, static |-> << >>, vkeys |-> << >>, admin |-> << >>,
   pricing |-> << >>, settings |-> DefaultSettings]

\* The shape of what is written.
IsDocument(d) ==
  /\ DOMAIN d = DOMAIN EmptyDocument
  /\ IsFiniteSet(DOMAIN d.aliases)
  /\ \A from \in DOMAIN d.fallbacks : d.fallbacks[from] \in Seq(ToSet(d.fallbacks[from]))

Weighted(target) == [target |-> target, weight |-> 1]

-----------------------------------------------------------------------------
(* Secrets.  env holds the values that can be read where the document is   *)
(* loaded: environment variables, files and secrets of the store.          *)

Resolves(value, env) ==
  /\ value[2] # ""
  /\ value[1] = "literal" \/ value \in env

-----------------------------------------------------------------------------
(* Providers. *)

Compat == {"databricks", "groq", "mistral", "cerebras", "openrouter", "ollama", "vllm"}
Native == {"openai", "anthropic", "gemini", "azure", "bedrock", "vertex"}
Keyless == {"ollama", "vllm"}
Seats == {"claude_subscription", "codex_subscription"}

HasBase(name) == name \in (Compat \cup Native) \ {"azure", "bedrock", "vertex", "databricks"}

\* The adapter of a provider, or Unset when the document does not say one:
\* a well-known name needs no type, another name needs one, and a seat's
\* type overrides the name.
Kind(name, p) ==
  CASE p.type \in Seats -> p.type
    [] name \in Compat /\ p.type \in {Unset, "openai_compat"} -> "openai_compat"
    [] name \in Native /\ p.type = Unset -> name
    [] name \notin Compat \cup Native /\ p.type = "openai_compat" -> "openai_compat"
    [] OTHER -> Unset

\* The fields only one kind of provider may set, and those it must.
Owns(kind) ==
  CASE kind = "azure" -> {"endpoint", "api_version", "deployments"}
    [] kind = "bedrock" -> {"region", "access_key_id"}
    [] kind = "vertex" -> {"project", "location"}
    [] kind = "codex_subscription" ->
         {"version", "reasoning_effort", "verbosity", "pdf_dpi", "pdf_max_pages"}
    [] OTHER -> {}

Requires(kind) ==
  CASE kind = "azure" -> {"endpoint", "api_version"}
    [] kind = "bedrock" -> {"region", "access_key_id"}
    [] kind = "vertex" -> {"project"}
    [] OTHER -> {}

Efforts == {"", "none", "minimal", "low", "medium", "high", "xhigh", "max"}

WellFormed(field, v, env) ==
  CASE field = "endpoint" -> v \in {"http", "https"}
    [] field \in {"region", "project", "version"} -> v # ""
    [] field = "access_key_id" -> Resolves(v, env)
    [] field = "reasoning_effort" -> v \in Efforts
    [] field = "verbosity" -> v \in {"", "low", "medium", "high"}
    [] field = "pdf_dpi" -> v \in 36 .. 600
    [] field = "pdf_max_pages" -> v >= 1
    [] OTHER -> TRUE

ValidFields(kind, p, env) ==
  /\ Requires(kind) \subseteq DOMAIN p.fields
  /\ DOMAIN p.fields \subseteq Owns(kind)
  /\ \A f \in DOMAIN p.fields : WellFormed(f, p.fields[f], env)

ValidLimits(limits) == \A f \in DOMAIN limits : limits[f] > 0

\* Whether requests carry a key: a local server with no keys needs none.
NeedsKey(name, p) ==
  IF p.auth = Unset THEN ~(name \in Keyless /\ p.keys = << >>) ELSE p.auth # "none"

ValidAccounts(p, env) ==
  /\ IsInjective([i \in DOMAIN p.keys |-> p.keys[i].name])
  /\ \A k \in ToSet(p.keys) :
       /\ k.name # "" /\ k.weight > 0
       /\ ValidLimits(k.limits)
       /\ Resolves(k.value, env)

ValidProvider(name, p, env) ==
  LET kind == Kind(name, p) IN
  /\ kind # Unset
  /\ kind = "openai_compat" => p.base # Unset \/ HasBase(name)
  /\ p.base \in {Unset, "http", "https"}
  /\ p.auth \in {Unset, "none", "bearer", "key"}
  /\ NeedsKey(name, p) => p.keys # << >>
  /\ ValidLimits(p.limits)
  /\ ValidAccounts(p, env)
  /\ p.slots > 0 /\ p.timeout > 0
  /\ ValidFields(kind, p, env)

\* The document a node makes up when it is given none: a provider for each
\* conventional variable that is set.
Discoverable == {"openai", "anthropic", "gemini", "groq", "mistral", "cerebras", "openrouter"}
Discovered(env) ==
  [EmptyDocument EXCEPT !.providers =
     [p \in {q \in Discoverable : <<"env", q>> \in env} |->
        [DefaultProvider EXCEPT !.keys =
           <<[name |-> "default", value |-> <<"env", p>>, tenant |-> Nobody,
              models |-> Open, weight |-> 1, limits |-> << >>]>>]]]

-----------------------------------------------------------------------------
(* Names. *)

IsTarget(ref) == Len(ref) = 2 /\ ref[1] # "" /\ ref[2] # ""

\* The alias chain from a name, walked as long as there are aliases: the
\* loader keeps the names it has seen and refuses the second sight of one.
Walk(d, ref) ==
  LET step[k \in 0 .. Cardinality(DOMAIN d.aliases)] ==
        IF k = 0 THEN ref
        ELSE IF step[k - 1] \in DOMAIN d.aliases THEN d.aliases[step[k - 1]] ELSE step[k - 1]
  IN step[Cardinality(DOMAIN d.aliases)]

Known(d, ref) == IsTarget(ref) /\ ref[1] \in DOMAIN d.providers

ValidAliases(d) ==
  \A a \in DOMAIN d.aliases :
    /\ ~(Len(a) = 1 /\ a[1] \in DOMAIN d.providers)
    /\ Walk(d, a) \notin DOMAIN d.aliases
    /\ Known(d, Walk(d, a))

\* The target a reference of a routing section stands for.
Target(d, ref) == IF ref \in DOMAIN d.aliases THEN Walk(d, ref) ELSE ref

Resolvable_Unknown(d, ref) == IsTarget(Target(d, ref))

\* It must end at a provider of the document.
Resolvable(d, ref) == Known(d, Target(d, ref))

ValidFallbacks(d) ==
  \A from \in DOMAIN d.fallbacks :
    /\ Resolvable(d, from)
    /\ d.fallbacks[from] # << >>
    /\ \A ref \in ToSet(d.fallbacks[from]) :
         Resolvable(d, ref) /\ Target(d, ref) # Target(d, from)

ValidPool(d, pool) ==
  /\ \A w \in ToSet(pool) :
       /\ w.weight > 0
       /\ w.target \notin DOMAIN d.groups
       /\ Resolvable(d, w.target)
  /\ IsInjective([i \in DOMAIN pool |-> Target(d, pool[i].target)])

ValidGroups(d) ==
  \A g \in DOMAIN d.groups :
    /\ g # <<"">> /\ g \notin DOMAIN d.aliases
    /\ ~(Len(g) = 1 /\ g[1] \in DOMAIN d.providers)
    /\ ToSet(d.groups[g].primary) # {}
    /\ ValidPool(d, d.groups[g].primary) /\ ValidPool(d, d.groups[g].fallback)

ValidTenants(d) ==
  /\ "" \notin ToSet(d.tenants) /\ IsInjective(d.tenants)
  /\ \A p \in DOMAIN d.providers : \A k \in ToSet(d.providers[p].keys) :
       k.tenant \in ToSet(d.tenants) \cup {Nobody}
  /\ \A k \in ToSet(d.static) : k.tenant \in ToSet(d.tenants) \cup {Nobody}

ValidScope(d, ref) ==
  IF Len(ref) > 1 THEN ref[1] \in DOMAIN d.providers
  ELSE ref # <<"">> /\ ref \in DOMAIN d.aliases \cup DOMAIN d.groups

\* The keys of a document; the budget and the limits of one are sets of one
\* or of none.
ValidVirtualKeys(d) ==
  /\ IsInjective([i \in DOMAIN d.vkeys |-> d.vkeys[i].id])
  /\ \A k \in ToSet(d.vkeys) :
       /\ k.name # "" /\ k.id # "" /\ k.hash # ""
       /\ \A ref \in k.models : ValidScope(d, ref)
       /\ k.tenant \in ToSet(d.tenants) \cup {Nobody}
       /\ \A b \in k.budget : b.usd > 0 /\ b.period \in {"daily", "weekly", "monthly"}
       /\ \A r \in k.rate : DOMAIN r # {} /\ ValidLimits(r)

-----------------------------------------------------------------------------
(* The sections of plain values. *)

ValidServer(d, env) ==
  /\ d.settings.body \in 1 .. 1024
  /\ \A k \in ToSet(d.static) : Resolves(k.value, env)

ValidConsole(d, env) ==
  /\ \A key \in ToSet(d.admin) : Resolves(key, env)
  /\ d.settings.ttl \in 60 .. 604800

\* A node must be heard from more often than it is forgotten.
ValidStore(s) ==
  /\ s.backend \in {"file", "memory", "s3", "dynamodb"}
  /\ s.backend \in {"s3", "dynamodb"} => s.place \notin {Unset, ""}
  /\ s.window > s.heartbeat /\ s.heartbeat > 0 /\ s.refresh > 0

ValidUsage(s) ==
  /\ s.retention \in 1 .. 3650 /\ s.bodies \in 1 .. 3650 /\ s.flush \in 1 .. 300
  /\ s.capture \in {"off", "none", "false", "errors", "all", "true"}
  /\ s.limit <= 4194304

ValidReliability(s) == s.threshold > 0 /\ s.on \subseteq {"connect_error", "429", "5xx"}
ValidPricing(d) == \A m \in DOMAIN d.pricing : d.pricing[m].input >= 0 /\ d.pricing[m].output >= 0

\* What is asked of the names and of what they lead to, wherever it is loaded.
ValidNames(d) == ValidTenants(d) /\ ValidAliases(d) /\ ValidFallbacks(d) /\ ValidGroups(d)

\* The loader collects every error; a document with one is not loaded.
Valid(d, env) ==
  /\ ValidNames(d)
  /\ ValidServer(d, env)
  /\ \A p \in DOMAIN d.providers : ValidProvider(p, d.providers[p], env)
  /\ ValidReliability(d.settings)
  /\ ValidVirtualKeys(d)
  /\ ValidConsole(d, env) /\ ValidStore(d.settings)
  /\ ValidUsage(d.settings) /\ ValidPricing(d)

-----------------------------------------------------------------------------
(* The routes of a loaded document. *)

\* The models an account serves, and the first provider to list a model.
Lists(d, p, m) == \E k \in ToSet(d.providers[p].keys) : k.models # Open /\ m \in k.models
Catalog(d, m) == {p \in DOMAIN d.providers : Lists(d, p, m)}

\* Chains are kept by the target they start from: of two that resolve to
\* one target the last in the order of the document stands.
Chain(d, target) ==
  LET from == {f \in DOMAIN d.fallbacks : Target(d, f) = target}
  IN IF from = {} THEN << >> ELSE LET ref == d.fallbacks[CHOOSE f \in from : TRUE]
                                  IN [i \in DOMAIN ref |-> Target(d, ref[i])]

Routable(d, target) == target[1] \in DOMAIN d.providers
Pool(d, pool) == {t \in {Target(d, w.target) : w \in ToSet(pool)} : Routable(d, t)}

\* A tier that nothing is left of is none.
Tier(pool) == IF pool = {} THEN << >> ELSE <<pool>>
\* The models of a chain that are tried, one after the other: those of a
\* provider that is not configured are passed over.
Configured(providers, chain) ==
  LET kept[i \in 0 .. Len(chain)] ==
        IF i = 0 THEN << >>
        ELSE IF chain[i][1] \in DOMAIN providers THEN Append(kept[i - 1], chain[i])
        ELSE kept[i - 1]
  IN kept[Len(chain)]
Reached(d, target) == Configured(d.providers, Chain(d, target))

\* What a request may be tried on: tiers in order, each walked in an order
\* drawn by weight.  Nothing when the name is not routed.
Plan(d, ref) ==
  IF ref \in DOMAIN d.groups
  THEN Tier(Pool(d, d.groups[ref].primary)) \o Tier(Pool(d, d.groups[ref].fallback))
  ELSE LET primary ==
             CASE ref \in DOMAIN d.aliases -> Walk(d, ref)
               [] ref \notin DOMAIN d.aliases /\ Known(d, ref) -> ref
               [] OTHER -> IF Len(ref) = 1 /\ Catalog(d, ref[1]) # {}
                           THEN <<CHOOSE p \in Catalog(d, ref[1]) : TRUE, ref[1]>> ELSE << >>
       IN IF primary = << >> \/ ~Routable(d, primary) THEN << >>
          ELSE LET chain == Reached(d, primary)
               IN [i \in {1} \cup {j + 1 : j \in DOMAIN chain} |->
                     IF i = 1 THEN {primary} ELSE {chain[i - 1]}]
=============================================================================
