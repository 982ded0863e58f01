------------------------------ MODULE Directory ------------------------------
(***************************************************************************)
(* What operators do to the document of the fleet: the handlers of the     *)
(* console and the commands of the CLI read a copy of the document, check  *)
(* it, and commit one change of it; a commit may be refused because the    *)
(* document moved, and the nodes take the document up on their own time.   *)
(* Between the reading and the commit any other operator may commit.       *)
(***************************************************************************)
EXTENDS ConfigDocument, TLC

CONSTANTS
  Nodes, Cli,      \* the nodes, and one operator at a shell
  FromFile,        \* the nodes started in file mode
  Drafts,          \* whole documents an operator may write
  FileTexts,       \* what the file of a node may say, when it is given one
  Seeds,           \* the files a managed node may be started with
  NewProviders,    \* [name, entry]: providers the console may add
  NewAccounts,     \* lists of accounts it may add to one
  Routes,          \* [name, primary, fallback]: routes it may write
  ModelNames, TenantNames, KeyIds, UserIds, TeamIds, SecretNames, Uploads,
  Starts,          \* [store, machine]: what the store and each machine hold at first
  MaxEdits, MaxCrashes

ASSUME DirectoryAssumption ==
  /\ Cli \notin Nodes
  /\ \A s \in Starts :
       /\ DOMAIN s.machine = Nodes \cup {Cli}
       /\ s.store.version \in Nat
       /\ s.store = [version |-> s.store.version, seeded |-> s.store.seeded,
                     config |-> s.store.config, keys |-> s.store.keys, users |-> s.store.users,
                     teams |-> s.store.teams, secrets |-> s.store.secrets]
       /\ ValidNames(s.store.config)
  /\ \A d \in Drafts \cup Seeds \cup {s.store.config : s \in Starts} : IsDocument(d)

VARIABLES
  store,  \* [version, seeded, config, keys, users, teams, secrets]
  cache,  \* the copy each node, or the CLI's last command, holds
  up,     \* the nodes that serve
  live,   \* the document whose routes each node serves
  text,   \* the text each node last took from the store: of none or of one
  vkeys,  \* the keys each node knows, and their services
  machine, \* what can be read at each actor: its environment, the files uploaded
  op,     \* the commit each actor is about to make
  due,    \* what each node still has to rebuild after a commit or a poll
  edits, crashes

vars == <<store, cache, up, live, text, vkeys, machine, op, due, edits, crashes>>
nodeVars == <<up, live, text, vkeys, machine, due, crashes>>

Actors == Nodes \cup {Cli}
Idle == [cmds |-> << >>, expect |-> {}, edit |-> {}]

Doc(a) == cache[a].config

\* What a secret reference can be read from at an actor.
Readable(a, secrets) == machine[a] \cup {<<"store", s>> : s \in secrets}
Env(a) == Readable(a, cache[a].secrets)

\* The key table: the keys of the document under those of the store.
KeyTable(d, c) ==
  c.keys @@ [id \in {k.id : k \in ToSet(d.vkeys)} |->
               (CHOOSE k \in ToSet(d.vkeys) : k.id = id).tenant]

Init ==
  /\ \E s \in Starts : store = s.store /\ machine = s.machine
  /\ cache = [a \in Actors |-> store]
  /\ up = {} /\ live = [n \in Nodes |-> EmptyDocument]
  /\ text = [n \in Nodes |-> {}]
  /\ vkeys = [n \in Nodes |-> << >>]
  /\ op = [a \in Actors |-> Idle] /\ due = [n \in Nodes |-> {}]
  /\ edits = 0 /\ crashes = 0

-----------------------------------------------------------------------------
(* The store. *)

Without(f, S) == Restrict(f, DOMAIN f \ S)

With(f, x, y) == [z \in DOMAIN f \cup {x} |-> IF z = x THEN y ELSE f[z]]

\* What a command does to the document.
Apply(s, c) ==
  LET t == [s EXCEPT !.version = @ + 1] IN
  CASE c.do = "put_config" -> [t EXCEPT !.config = c.text, !.seeded = TRUE]
    [] c.do = "put_key" -> [t EXCEPT !.keys = With(@, c.id, c.tenant)]
    [] c.do = "delete_key" -> [t EXCEPT !.keys = Without(@, {c.id})]
    [] c.do = "put_secret" -> [t EXCEPT !.secrets = @ \cup {c.name}]
    [] c.do = "delete_secret" -> [t EXCEPT !.secrets = @ \ {c.name}]
    [] c.do = "put_user" -> [t EXCEPT !.users = @ \cup {c.user}]
    [] c.do = "delete_user" -> [t EXCEPT !.users = @ \ {c.user},
                                  !.teams = [w \in DOMAIN @ |-> @[w] \ {c.user}]]
    [] c.do = "put_team" -> [t EXCEPT !.teams = With(@, c.team, c.members)]
    [] c.do = "delete_team" -> [t EXCEPT !.teams = Without(@, {c.team})]

Free(a) == op[a] = Idle /\ edits < MaxEdits

\* A handler has read its copy and made up its mind; its commit is to come.
\* expect is the version it insists on, of none or of one.
Compose(a, cmds, expect, edit) ==
  /\ edits' = edits + 1
  /\ op' = [op EXCEPT ![a] = [cmds |-> cmds, expect |-> expect, edit |-> edit]]

Stale(a) == op[a].expect \notin {{}, {cache[a].version}}

\* The copy moved since it was read: the edit is refused.
CommitRefused(a) ==
  /\ op[a] # Idle /\ Stale(a)
  /\ op' = [op EXCEPT ![a] = Idle]
  /\ UNCHANGED <<store, cache, nodeVars, edits>>

\* The store has moved: the copy is read again, and the edit is refused or,
\* when its author did not mind, tried again.
CommitLost(a) ==
  /\ op[a] # Idle /\ ~Stale(a) /\ cache[a].version # store.version
  /\ cache' = [cache EXCEPT ![a] = store]
  /\ op' = IF op[a].expect = {} THEN op ELSE [op EXCEPT ![a] = Idle]
  /\ UNCHANGED <<store, nodeVars, edits>>

\* The backend cannot be reached, or the retries ran out.
CommitFails(a) ==
  /\ op[a] # Idle /\ ~Stale(a) /\ a \in up \cup {Cli}
  /\ op' = [op EXCEPT ![a] = Idle]
  /\ UNCHANGED <<store, cache, nodeVars, edits>>

\* The commit is made on the version the copy holds.
Wins(a) == op[a] # Idle /\ ~Stale(a) /\ cache[a].version = store.version

CommitWins(a) ==
  LET c == Head(op[a].cmds)
      rest == Tail(op[a].cmds)
      follow == CASE c.do = "put_config" -> {"adopt"}
                  [] c.do \in {"put_key", "delete_key"} -> {"keys"}
                  [] OTHER -> {}
  IN /\ Wins(a)
     /\ store' = Apply(store, c)
     /\ cache' = [cache EXCEPT ![a] = store']
     /\ op' = [op EXCEPT ![a] = IF rest = << >> THEN Idle ELSE [@ EXCEPT !.cmds = rest]]
     /\ due' = IF a \in up THEN [due EXCEPT ![a] = @ \cup follow] ELSE due
     /\ IF a \in Nodes \ up /\ rest = << >>
        THEN /\ up' = up \cup {a}
             /\ live' = [live EXCEPT ![a] = c.text]
             /\ vkeys' = [vkeys EXCEPT ![a] = KeyTable(c.text, store')]
        ELSE UNCHANGED <<up, live, vkeys>>
     /\ UNCHANGED <<text, machine, edits, crashes>>

-----------------------------------------------------------------------------
(* A node and the document. *)

\* The poll that stands in for a cluster.
Refresh(n) ==
  /\ n \in up /\ cache[n].version # store.version
  /\ cache' = [cache EXCEPT ![n] = store]
  /\ due' = [due EXCEPT ![n] = @ \cup {"adopt"}]
  /\ UNCHANGED <<store, up, live, text, vkeys, machine, op, edits, crashes>>

RefreshKeys(n) ==
  /\ "keys" \in due[n]
  /\ vkeys' = [vkeys EXCEPT ![n] = KeyTable(live[n], cache[n])]
  /\ due' = [due EXCEPT ![n] = @ \ {"keys"}]
  /\ UNCHANGED <<store, cache, up, live, text, machine, op, edits, crashes>>

\* A document the node cannot load is kept out.
Loads(n) == Valid(Doc(n), Env(n))

Adopt(n) ==
  LET same == ~cache[n].seeded \/ text[n] = {Doc(n)}
      takes == ~same /\ Loads(n)
  IN /\ "adopt" \in due[n]
     /\ due' = [due EXCEPT ![n] = @ \ {"adopt"}]
     /\ live' = IF takes THEN [live EXCEPT ![n] = Doc(n)] ELSE live
     /\ text' = IF takes THEN [text EXCEPT ![n] = {Doc(n)}] ELSE text
     /\ vkeys' = IF same \/ takes
                 THEN [vkeys EXCEPT ![n] = KeyTable(live'[n], cache[n])] ELSE vkeys
     /\ UNCHANGED <<store, cache, up, machine, op, edits, crashes>>

\* The first document of a node: the store's; or its file's, which it puts
\* into the store; or one made from its environment; or one with nothing
\* but an administrator, whose key it seals first.
Serve(n, d) ==
  /\ up' = up \cup {n}
  /\ live' = [live EXCEPT ![n] = d]
  /\ vkeys' = [vkeys EXCEPT ![n] = KeyTable(d, store)]
  /\ UNCHANGED op

Begin(n, cmds) ==
  /\ op' = [op EXCEPT ![n] = [Idle EXCEPT !.cmds = cmds]]
  /\ UNCHANGED <<up, live, vkeys>>

PutConfig(d) == [do |-> "put_config", text |-> d]
BootstrapText == [EmptyDocument EXCEPT !.admin = <<<<"store", "bootstrap_admin">>>>]

\* The document of a node that is given none, if its environment makes one.
MadeUp(here) == {d \in {Discovered(here)} : d.providers # << >>}

Boot(n) ==
  LET here == Readable(n, store.secrets) IN
  /\ n \notin up /\ op[n] = Idle
  /\ cache' = [cache EXCEPT ![n] = store]
  /\ IF n \in FromFile
     THEN \E d \in IF FileTexts = {} THEN MadeUp(here) ELSE FileTexts : Valid(d, here) /\ Serve(n, d)
     ELSE IF store.seeded THEN Valid(store.config, here) /\ Serve(n, store.config)
     ELSE \/ \E d \in Seeds : Valid(d, here) /\ Begin(n, <<PutConfig(d)>>)
          \/ \E d \in MadeUp(here) : Serve(n, d)
          \/ /\ MadeUp(here) = {}
             /\ Begin(n, <<[do |-> "put_secret", name |-> "bootstrap_admin"],
                           PutConfig(BootstrapText)>>)
  /\ UNCHANGED <<store, text, machine, due, edits, crashes>>

Crash(n) ==
  /\ (n \in up \/ op[n] # Idle) /\ crashes < MaxCrashes
  /\ crashes' = crashes + 1
  /\ up' = up \ {n} /\ op' = [op EXCEPT ![n] = Idle]
  /\ due' = [due EXCEPT ![n] = {}] /\ text' = [text EXCEPT ![n] = {}]
  /\ live' = [live EXCEPT ![n] = EmptyDocument] /\ vkeys' = [vkeys EXCEPT ![n] = << >>]
  /\ cache' = [cache EXCEPT ![n] = store]
  /\ UNCHANGED <<store, machine, edits>>

\* A file that does not load leaves the node as it is.
Reload(n) ==
  /\ n \in up \cap FromFile
  /\ \E d \in FileTexts :
       /\ d # live[n] /\ Valid(d, Env(n))
       /\ live' = [live EXCEPT ![n] = d]
       /\ vkeys' = [vkeys EXCEPT ![n] = KeyTable(d, cache[n])]
  /\ UNCHANGED <<store, cache, up, text, machine, op, due, edits, crashes>>

-----------------------------------------------------------------------------
(* The edits of the document that the console makes. *)

OfProvider(d, p, keys) == [d EXCEPT !.providers[p].keys = keys]

\* The accounts of a list that are not there yet, one of each name.
Fresh(keys, batch) ==
  LET take(acc, k) == IF \E i \in DOMAIN acc : acc[i].name = k.name THEN acc ELSE Append(acc, k)
  IN FoldLeft(take, keys, batch)

Labelled(keys, name, tenant) ==
  LET i == CHOOSE j \in DOMAIN keys :
             keys[j].name = name /\ \A h \in 1 .. j - 1 : keys[h].name # name
  IN [keys EXCEPT ![i].tenant = tenant]

\* Every account is made to list the model, one that listed none too.
Widened(keys, m) ==
  [i \in DOMAIN keys |->
     [keys[i] EXCEPT !.models = IF @ = Open THEN {m} ELSE @ \cup {m}]]

Narrowed(keys, m) ==
  [i \in DOMAIN keys |-> [keys[i] EXCEPT !.models = IF @ = Open THEN @ ELSE @ \ {m}]]

WithoutAlias_Chain(d, name) ==
  IF name \notin DOMAIN d.aliases THEN d
  ELSE [d EXCEPT !.aliases = Without(@, {name}),
                 !.fallbacks = Without(@, {d.aliases[name]})]

\* The alias goes, and the chain of what it named unless another alias
\* names the same.
WithoutAlias(d, name) ==
  IF name \notin DOMAIN d.aliases THEN d
  ELSE LET primary == d.aliases[name]
           others == Without(d.aliases, {name})
       IN [d EXCEPT !.aliases = others,
                    !.fallbacks = IF primary \in Range(others) THEN @
                                  ELSE Without(@, {primary})]

After(e, d) ==
  CASE e.what = "put_config" -> e.draft
    [] e.what = "create_provider" -> [d EXCEPT !.providers = With(@, e.name, e.entry)]
    [] e.what = "update_provider" -> [d EXCEPT !.providers[e.name].base = e.base]
    [] e.what = "delete_provider" -> [d EXCEPT !.providers = Without(@, {e.name})]
    [] e.what = "create_tenant" -> [d EXCEPT !.tenants = Append(@, e.tenant)]
    [] e.what = "delete_tenant" -> [d EXCEPT !.tenants = SelectSeq(@, LAMBDA t : t # e.tenant)]
    [] e.what = "set_account_tenant" ->
         OfProvider(d, e.name, Labelled(d.providers[e.name].keys, e.account, e.tenant))
    [] e.what = "add_provider_keys" ->
         OfProvider(d, e.name, Fresh(d.providers[e.name].keys, e.accounts))
    [] e.what = "add_provider_key" ->
         OfProvider(d, e.name, d.providers[e.name].keys \o e.accounts)
    [] e.what = "delete_provider_keys" ->
         OfProvider(d, e.name, SelectSeq(d.providers[e.name].keys, LAMBDA k : k.name \notin e.names))
    [] e.what = "add_model" -> OfProvider(d, e.name, Widened(d.providers[e.name].keys, e.model))
    [] e.what = "delete_model" -> OfProvider(d, e.name, Narrowed(d.providers[e.name].keys, e.model))
    [] e.what = "put_route" ->
         WithoutAlias([d EXCEPT !.groups = With(@, e.route.name,
                          [primary |-> e.route.primary, fallback |-> e.route.fallback])],
                      e.route.name)
    [] e.what = "delete_route" ->
         WithoutAlias([d EXCEPT !.groups = Without(@, {e.ref})], e.ref)

\* The console of a node writes; that of a node in file mode does not.
Writable(n) == n \in up \ FromFile

Insists_Never(n) == {}

\* A document edited in the console is committed on the version it was read at.
Insists(n) == {cache[n].version}

\* The edited document is loaded here before it is committed, to be refused
\* here and not by every node that reads it.  An edit that changes nothing
\* is left out: it commits the text that was there.
Edit(n, e) ==
  /\ After(e, Doc(n)) # Doc(n)
  /\ Valid(After(e, Doc(n)), Env(n))
  /\ Compose(n, <<PutConfig(After(e, Doc(n)))>>, Insists(n), {e})
  /\ UNCHANGED <<store, cache, nodeVars>>

PutsConfig(n) == \E d \in Drafts : Edit(n, [what |-> "put_config", draft |-> d])

CreateProvider(n) ==
  \E p \in NewProviders :
    /\ p.name \notin DOMAIN Doc(n).providers
    /\ Edit(n, [what |-> "create_provider", name |-> p.name, entry |-> p.entry])

UpdateProvider(n) ==
  \E p \in DOMAIN Doc(n).providers, base \in {Unset, "http"} :
    Edit(n, [what |-> "update_provider", name |-> p, base |-> base])

DeleteProvider(n) ==
  \E p \in DOMAIN Doc(n).providers : Edit(n, [what |-> "delete_provider", name |-> p])

CreateTenant(n) ==
  \E t \in TenantNames \ ToSet(Doc(n).tenants) :
    Edit(n, [what |-> "create_tenant", tenant |-> t])

\* Nothing may point at the service: asked of the routes and of the keys the
\* node serves, not of the copy that is edited.
Unused(n, t) ==
  /\ \A p \in DOMAIN live[n].providers :
       \A k \in ToSet(live[n].providers[p].keys) : k.tenant # t
  /\ \A id \in DOMAIN vkeys[n] : vkeys[n][id] # t
  /\ \A k \in ToSet(live[n].static) : k.tenant # t

DeleteTenant(n) ==
  \E t \in ToSet(live[n].tenants) :
    Unused(n, t) /\ Edit(n, [what |-> "delete_tenant", tenant |-> t])

Declared(n, t) == t \in ToSet(live[n].tenants) \cup {Nobody}

SetAccountTenant(n) ==
  \E p \in DOMAIN Doc(n).providers, t \in TenantNames \cup {Nobody} :
    \E k \in ToSet(Doc(n).providers[p].keys) :
      /\ Declared(n, t)
      /\ Edit(n, [what |-> "set_account_tenant", name |-> p, account |-> k.name, tenant |-> t])

AddProviderKeys(n) ==
  \E p \in DOMAIN Doc(n).providers, batch \in NewAccounts :
    /\ \A k \in ToSet(batch) : Declared(n, k.tenant)
    /\ Fresh(Doc(n).providers[p].keys, batch) # Doc(n).providers[p].keys
    /\ Edit(n, [what |-> "add_provider_keys", name |-> p, accounts |-> batch])

AddProviderKey(n) ==
  \E p \in DOMAIN Doc(n).providers, batch \in {b \in NewAccounts : Len(b) = 1} :
    /\ Declared(n, batch[1].tenant)
    /\ Edit(n, [what |-> "add_provider_key", name |-> p, accounts |-> batch])

\* One account, or those of a list that are still there.
DeleteProviderKeys(n) ==
  \E p \in DOMAIN Doc(n).providers :
    \E S \in SUBSET {k.name : k \in ToSet(Doc(n).providers[p].keys)} \ {{}} :
      Edit(n, [what |-> "delete_provider_keys", name |-> p, names |-> S])

AddModel(n) ==
  \E p \in DOMAIN Doc(n).providers, m \in ModelNames :
    /\ \E k \in ToSet(Doc(n).providers[p].keys) : k.models = Open \/ m \notin k.models
    /\ Edit(n, [what |-> "add_model", name |-> p, model |-> m])

DeleteModel(n) ==
  \E p \in DOMAIN Doc(n).providers, m \in ModelNames :
    Edit(n, [what |-> "delete_model", name |-> p, model |-> m])

\* A legacy alias as the console shows it: a group of one model, its chain in
\* reserve.
Listed(d, a) ==
  LET pool(refs) == [i \in DOMAIN refs |-> Weighted(refs[i])] IN
  [name |-> a, primary |-> pool(<<Walk(d, a)>>), fallback |-> pool(Chain(d, Walk(d, a)))]

PutRoute(n) ==
  \E r \in Routes \cup {Listed(live[n], a) : a \in DOMAIN live[n].aliases} :
    Edit(n, [what |-> "put_route", route |-> r])

DeleteRoute(n) ==
  \E ref \in DOMAIN Doc(n).groups \cup DOMAIN Doc(n).aliases :
    Edit(n, [what |-> "delete_route", ref |-> ref])

-----------------------------------------------------------------------------
(* Keys, users, teams and secrets. *)

Write(a, cmd, expect) ==
  /\ Compose(a, <<cmd>>, expect, {})
  /\ UNCHANGED <<store, nodeVars>>

Console(n, cmd, expect) == Write(n, cmd, expect) /\ UNCHANGED cache

PutKey(id, t) == [do |-> "put_key", id |-> id, tenant |-> t]

CreateKey(n) ==
  \E id \in KeyIds \ DOMAIN cache[n].keys, t \in TenantNames \cup {Nobody} :
    Declared(n, t) /\ Console(n, PutKey(id, t), {})

UpdateKey(n) ==
  \E id \in DOMAIN cache[n].keys, t \in TenantNames \cup {Nobody} :
    Declared(n, t) /\ Console(n, PutKey(id, t), Insists(n))

DeleteKey(n) ==
  \E id \in KeyIds : Console(n, [do |-> "delete_key", id |-> id], Insists(n))

PutUser(u) == [do |-> "put_user", user |-> u]
CreateUser(n) == \E u \in UserIds \ cache[n].users : Console(n, PutUser(u), {})
UpdateUser(n) == \E u \in cache[n].users : Console(n, PutUser(u), {})
DeleteUser(n) == \E u \in UserIds : Console(n, [do |-> "delete_user", user |-> u], {})

\* The members of a team are users of the copy.
UpsertTeam(n) ==
  \E w \in TeamIds, S \in SUBSET cache[n].users :
    Console(n, [do |-> "put_team", team |-> w, members |-> S], {})

DeleteTeam(n) == \E w \in TeamIds : Console(n, [do |-> "delete_team", team |-> w], {})

PutSecret(n) ==
  \E s \in SecretNames : Console(n, [do |-> "put_secret", name |-> s], {})

\* Files are kept by the node they are uploaded to; those of a batch that
\* cannot be kept are reported and the others stay.
PutCredentialFiles(n) ==
  /\ \E S \in SUBSET Uploads : machine' = [machine EXCEPT ![n] = @ \cup S]
  /\ machine' # machine
  /\ UNCHANGED <<store, cache, up, live, text, vkeys, op, due, edits, crashes>>

-----------------------------------------------------------------------------
(* The command line: every command opens the store anew, and none insists  *)
(* on the version it read.                                                 *)

Shell(cmd) ==
  /\ cache' = [cache EXCEPT ![Cli] = store]
  /\ Write(Cli, cmd, {})

Here == Readable(Cli, store.secrets)

ConfigImport == \E d \in Drafts : Valid(d, Here) /\ Shell(PutConfig(d))

SecretSet == \E s \in SecretNames : Shell([do |-> "put_secret", name |-> s])
SecretDelete == \E s \in store.secrets : Shell([do |-> "delete_secret", name |-> s])

KeyCreate ==
  \E id \in KeyIds \ DOMAIN store.keys, t \in TenantNames \cup {Nobody} :
    /\ t # Nobody /\ store.seeded =>
         Valid(store.config, Here) /\ t \in ToSet(store.config.tenants)
    /\ Shell(PutKey(id, t))

\* Rotated, enabled or disabled: the definition goes back whole.
KeyEdit == \E id \in DOMAIN store.keys : Shell(PutKey(id, store.keys[id]))
KeyRm == \E id \in DOMAIN store.keys : Shell([do |-> "delete_key", id |-> id])

-----------------------------------------------------------------------------
Edits(n) ==
  \/ PutsConfig(n) \/ CreateProvider(n) \/ UpdateProvider(n) \/ DeleteProvider(n)
  \/ CreateTenant(n) \/ DeleteTenant(n) \/ SetAccountTenant(n)
  \/ AddProviderKeys(n) \/ AddProviderKey(n) \/ DeleteProviderKeys(n)
  \/ AddModel(n) \/ DeleteModel(n) \/ PutRoute(n) \/ DeleteRoute(n)

Writes(n) ==
  \/ CreateKey(n) \/ UpdateKey(n) \/ DeleteKey(n)
  \/ CreateUser(n) \/ UpdateUser(n) \/ DeleteUser(n)
  \/ UpsertTeam(n) \/ DeleteTeam(n) \/ PutSecret(n) \/ PutCredentialFiles(n)

Commands == ConfigImport \/ SecretSet \/ SecretDelete \/ KeyCreate \/ KeyEdit \/ KeyRm

Commit(a) == CommitRefused(a) \/ CommitLost(a) \/ CommitFails(a) \/ CommitWins(a)

Next ==
  \/ \E n \in Nodes : \/ Writable(n) /\ Free(n) /\ (Edits(n) \/ Writes(n))
                      \/ Refresh(n) \/ RefreshKeys(n) \/ Adopt(n)
                      \/ Boot(n) \/ Crash(n) \/ Reload(n)
  \/ Free(Cli) /\ Commands
  \/ \E a \in Actors : Commit(a)

Spec == Init /\ [][Next]_vars

-----------------------------------------------------------------------------
\* The shape of the state: what is looked up exists, and only a node that
\* serves owes anything.
TypeOK ==
  /\ store.keys \in UNION {[S -> TenantNames \cup {Nobody}] : S \in SUBSET KeyIds}
  /\ store.teams \in UNION {[S -> SUBSET UserIds] : S \in SUBSET TeamIds}
  /\ store.users \subseteq UserIds
  /\ store.secrets \subseteq SecretNames \cup {"bootstrap_admin"}
  /\ \A p \in DOMAIN store.config.providers : \A k \in ToSet(store.config.providers[p].keys) :
       k \in RawAccount({k.name}, ModelNames, TenantNames, {k.value}, {k.limits})
  /\ \A a \in Actors : cache[a].version <= store.version
  /\ up \subseteq Nodes
  /\ \A n \in Nodes : due[n] \subseteq {"adopt", "keys"} /\ (n \notin up => due[n] = {})

\* Whatever is written, adopted or kept out, every group, alias and chain a
\* node serves leads somewhere, and every account and static key it holds
\* belongs to nobody or to a service that is declared.
LiveServes ==
  \A n \in up :
    /\ \A ref \in DOMAIN live[n].groups \cup DOMAIN live[n].aliases \cup DOMAIN live[n].fallbacks :
         Plan(live[n], ref) # << >>
    /\ \A p \in DOMAIN live[n].providers : \A k \in ToSet(live[n].providers[p].keys) :
         k.tenant \in ToSet(live[n].tenants) \cup {Nobody}
    /\ \A k \in ToSet(live[n].static) : k.tenant \in ToSet(live[n].tenants) \cup {Nobody}

Committed(a) == op[a] # Idle /\ op'[a] = Idle /\ store' # store

\* An edit of the document made in the console is made on the document as it
\* is when it is committed, not as it was when it was read, and the document
\* it makes loads with the secrets the store holds then.
EditsLinearize ==
  [][\A n \in Nodes : \A e \in op[n].edit :
       Committed(n) =>
         /\ store'.config = After(e, store.config)
         /\ Valid(store'.config, Env(n)')]_vars

Names(d) == DOMAIN d.groups \cup DOMAIN d.aliases
Targets(plan) == UNION ToSet(plan)

\* Writing or deleting one route leaves the plan of every other group and
\* alias as it was, and saving a legacy alias as it is shown keeps the model
\* it leads to and those it falls back on.  Two kinds of alias are left out:
\* one that names another alias, whose deletion takes the chain written under
\* that name, and one whose own name reads as a target, which is what those
\* that lead through it are left with.
RoutesKept ==
  [][\A n \in Nodes : \A e \in op[n].edit :
       Committed(n) /\ e.what \in {"put_route", "delete_route"} =>
         LET d == store.config
             name == IF e.what = "put_route" THEN e.route.name ELSE e.ref
             direct == name \in DOMAIN d.aliases =>
                         d.aliases[name] \notin DOMAIN d.aliases /\ ~IsTarget(name)
         IN direct =>
              /\ \A ref \in Names(d) \ {name} : Plan(store'.config, ref) = Plan(d, ref)
              /\ e.what = "put_route" /\ name \in DOMAIN d.aliases /\ e.route = Listed(d, name) =>
                   /\ Plan(store'.config, name)[1] = Plan(d, name)[1]
                   /\ Targets(Plan(store'.config, name)) = Targets(Plan(d, name))]_vars
=============================================================================
