--------------------------- MODULE DirectoryProofs ---------------------------
(***************************************************************************)
(* Three theorems about Directory, for any fleet, documents, files,        *)
(* environments and edits that DirectoryAssumption allows.  What a node    *)
(* serves leads somewhere (Serves): it passed the loader, and the loader   *)
(* lets no name through that the routing table cannot plan.  An edit that  *)
(* is made is made on the document in force and is valid there (Linear):   *)
(* a copy of the store with the store's version is the store.  An edit of  *)
(* one route leaves the others (Routing): every document written is one    *)
(* the loader takes, in which following an alias ends within the number of *)
(* aliases, so none passes through an alias that is taken away.            *)
(***************************************************************************)
EXTENDS Directory, FiniteSetTheorems, SequenceTheorems, WellFoundedInduction, TLAPS

-----------------------------------------------------------------------------
(* Documents *)

\* Every route leads somewhere, and every account and static key is of a service
\* that is there.
Leads(d) ==
  /\ \A ref \in DOMAIN d.groups \cup DOMAIN d.aliases \cup DOMAIN d.fallbacks : Plan(d, ref) # << >>
  /\ \A p \in DOMAIN d.providers : \A k \in ToSet(d.providers[p].keys) :
       k.tenant \in ToSet(d.tenants) \cup {Nobody}
  /\ \A k \in ToSet(d.static) : k.tenant \in ToSet(d.tenants) \cup {Nobody}

\* A target that is known is routed.
LEMMA KnownIsRouted ==
  ASSUME NEW d, NEW ref, Known(d, ref)
  PROVE  ref # << >> /\ Routable(d, ref)
<1>1. Len(ref) = 2 /\ Routable(d, ref)
  BY DEF Known, IsTarget, Routable
<1>2. Len(<< >>) = 0
  OBVIOUS
<1>3. ref # << >>
  <2> SUFFICES ASSUME ref = << >>
               PROVE  FALSE
    OBVIOUS
  <2>1. Len(ref) = Len(<< >>)
    BY Zenon
  <2>2. QED
    BY <1>1, <1>2, <2>1
<1>4. QED
  BY <1>1, <1>3

\* The pool of a group that the loader lets through has a target that is routed.
LEMMA PoolIsRouted ==
  ASSUME NEW d, NEW pool, ToSet(pool) # {}, ValidPool(d, pool)
  PROVE  Pool(d, pool) # {}
<1>1. PICK w \in ToSet(pool) : TRUE
  OBVIOUS
<1>2. Routable(d, Target(d, w.target))
  BY <1>1, KnownIsRouted DEF ValidPool, Resolvable
<1>3. Target(d, w.target) \in Pool(d, pool)
  BY <1>1, <1>2 DEF Pool
<1>4. QED
  BY <1>3

\* A tier before others is a plan.
LEMMA FirstTier ==
  ASSUME NEW P, NEW Q, P # {}
  PROVE  Tier(P) \o Tier(Q) # << >>
BY DEF Tier

\* Every group, alias and chain of a document that the loader lets through is
\* planned to at least one target.
LEMMA NamesLead ==
  ASSUME NEW d, ValidNames(d)
  PROVE  Leads(d)
<1>1. ASSUME NEW ref \in DOMAIN d.groups
      PROVE  Plan(d, ref) # << >>
  <2>1. ToSet(d.groups[ref].primary) # {} /\ ValidPool(d, d.groups[ref].primary)
    BY <1>1 DEF ValidNames, ValidGroups
  <2>2. Pool(d, d.groups[ref].primary) # {}
    BY <2>1, PoolIsRouted
  <2>3. QED
    BY <1>1, <2>2, FirstTier DEF Plan
<1>2. ASSUME NEW ref, NEW primary, Known(d, primary), ref \notin DOMAIN d.groups,
             IF ref \in DOMAIN d.aliases THEN primary = Walk(d, ref) ELSE primary = ref
      PROVE  Plan(d, ref) # << >>
  <2> DEFINE chain == Reached(d, primary)
  <2> DEFINE plan == [i \in {1} \cup {j + 1 : j \in DOMAIN chain} |->
                        IF i = 1 THEN {primary} ELSE {chain[i - 1]}]
  <2>1. primary # << >> /\ Routable(d, primary)
    BY <1>2, KnownIsRouted
  <2>2. Plan(d, ref) = plan
    <3>1. CASE ref \in DOMAIN d.aliases
      <4>1. primary = Walk(d, ref)
        BY <1>2, <3>1
      <4>2. QED
        BY <1>2, <2>1, <3>1, <4>1, Zenon DEF Plan
    <3>2. CASE ref \notin DOMAIN d.aliases
      <4>1. primary = ref /\ Known(d, ref)
        BY <1>2, <3>2
      <4>2. QED
        BY <1>2, <2>1, <3>2, <4>1, Zenon DEF Plan
    <3>3. QED
      BY <3>1, <3>2
  <2>3. 1 \in DOMAIN plan /\ 1 \notin DOMAIN << >>
    OBVIOUS
  <2> HIDE DEF plan
  <2>4. QED
    BY <2>2, <2>3
<1>3. ASSUME NEW ref \in DOMAIN d.aliases, ref \notin DOMAIN d.groups
      PROVE  Plan(d, ref) # << >>
  <2>1. Known(d, Walk(d, ref))
    BY <1>3 DEF ValidNames, ValidAliases
  <2>2. QED
    BY <1>2, <1>3, <2>1
<1>4. ASSUME NEW ref \in DOMAIN d.fallbacks, ref \notin DOMAIN d.groups, ref \notin DOMAIN d.aliases
      PROVE  Plan(d, ref) # << >>
  <2>1. Known(d, ref)
    BY <1>4 DEF ValidNames, ValidFallbacks, Resolvable, Target
  <2>2. QED
    BY <1>2, <1>4, <2>1
<1>5. QED
  BY <1>1, <1>3, <1>4 DEF Leads, ValidNames, ValidTenants

LEMMA ValidServes ==
  ASSUME NEW d, NEW env, Valid(d, env)
  PROVE  ValidNames(d)
BY DEF Valid, ValidNames

\* A document with nothing in it to route, the made-up ones too, is let through.
LEMMA NothingToRoute ==
  ASSUME NEW d, d.tenants = << >>, d.static = << >>,
         d.aliases = << >>, d.fallbacks = << >>, d.groups = << >>,
         \A p \in DOMAIN d.providers : \A k \in ToSet(d.providers[p].keys) : k.tenant = Nobody
  PROVE  ValidNames(d)
<1>1. ToSet(<< >>) = {}
  BY DEF ToSet
<1>2. IsInjective(d.tenants)
  BY DEF IsInjective
<1>3. DOMAIN << >> = {}
  OBVIOUS
<1>4. QED
  BY <1>1, <1>2, <1>3 DEF ValidNames, ValidTenants, ValidAliases, ValidFallbacks, ValidGroups

LEMMA MadeUpServes ==
  /\ ValidNames(BootstrapText)
  /\ \A env : ValidNames(Discovered(env))
<1>1. ValidNames(BootstrapText)
  <2> DEFINE d == BootstrapText
  <2>1. d.tenants = << >> /\ d.static = << >> /\ d.aliases = << >> /\ d.fallbacks = << >>
        /\ d.groups = << >> /\ d.providers = << >>
    BY DEF BootstrapText, EmptyDocument
  <2> HIDE DEF d
  <2>2. ValidNames(d)
    BY <2>1, NothingToRoute
  <2>3. QED
    BY <2>2 DEF d
<1>2. ASSUME NEW env
      PROVE  ValidNames(Discovered(env))
  <2> DEFINE d == Discovered(env)
  <2> DEFINE here == {q \in Discoverable : <<"env", q>> \in env}
  <2> DEFINE account(p) == [name |-> "default", value |-> <<"env", p>>, tenant |-> Nobody,
                            models |-> Open, weight |-> 1, limits |-> << >>]
  <2>1. d.tenants = << >> /\ d.static = << >> /\ d.aliases = << >> /\ d.fallbacks = << >>
        /\ d.groups = << >>
    BY DEF Discovered, EmptyDocument
  <2>2. d.providers = [p \in here |-> [DefaultProvider EXCEPT !.keys = <<account(p)>>]]
    BY DEF Discovered, EmptyDocument
  <2>3. ASSUME NEW p \in DOMAIN d.providers
        PROVE  d.providers[p].keys = <<account(p)>>
    BY <2>2, <2>3 DEF DefaultProvider
  <2>4. ASSUME NEW p \in DOMAIN d.providers, NEW k \in ToSet(d.providers[p].keys)
        PROVE  k.tenant = Nobody
    <3>1. ToSet(<<account(p)>>) = {account(p)}
      BY DEF ToSet
    <3>2. k = account(p)
      BY <2>3, <2>4, <3>1
    <3>3. QED
      BY <3>2
  <2> HIDE DEF d
  <2>5. ValidNames(d)
    BY <2>1, <2>4, NothingToRoute
  <2>6. QED
    BY <2>5 DEF d
<1>3. QED
  BY <1>1, <1>2

-----------------------------------------------------------------------------
(* What is served *)

OpFields == {"cmds", "expect", "edit"}

\* The first commits of a node that does not serve yet.
FirstCommits(cmds) ==
  \/ cmds = <<PutConfig(cmds[1].text)>> /\ ValidNames(cmds[1].text)
  \/ cmds = <<[do |-> "put_secret", name |-> "bootstrap_admin"], PutConfig(BootstrapText)>>

ServesInv ==
  /\ DOMAIN live = Nodes /\ DOMAIN op = Actors /\ up \subseteq Nodes
  /\ \A a \in Actors : DOMAIN op[a] = OpFields
  /\ \A n \in up : ValidNames(live[n])
  /\ \A n \in Nodes \ up : op[n] # Idle => FirstCommits(op[n].cmds)

LEMMA ServesInit == Init => ServesInv
<1> SUFFICES ASSUME Init
             PROVE  ServesInv
  OBVIOUS
<1>1. DOMAIN Idle = OpFields
  BY DEF Idle, OpFields
<1>2. up = {} /\ live = [n \in Nodes |-> EmptyDocument] /\ op = [a \in Actors |-> Idle]
  BY DEF Init
<1>3. \A n \in Nodes : n \in Actors
  BY DEF Actors
<1>4. QED
  BY <1>1, <1>2, <1>3 DEF ServesInv

\* A single document to commit, or a secret before it.
LEMMA Firsts ==
  /\ \A d : ValidNames(d) => FirstCommits(<<PutConfig(d)>>)
  /\ FirstCommits(<<[do |-> "put_secret", name |-> "bootstrap_admin"], PutConfig(BootstrapText)>>)
  /\ \A cmds : FirstCommits(cmds) =>
       \/ Tail(cmds) = << >> /\ Head(cmds).do = "put_config" /\ ValidNames(Head(cmds).text)
       \/ Tail(cmds) # << >> /\ FirstCommits(Tail(cmds))
<1>1. \A d : PutConfig(d).text = d /\ PutConfig(d).do = "put_config"
  BY DEF PutConfig
<1>2. ASSUME NEW d, ValidNames(d)
      PROVE  FirstCommits(<<PutConfig(d)>>)
  <2>1. <<PutConfig(d)>>[1] = PutConfig(d)
    OBVIOUS
  <2>2. QED
    BY <1>1, <1>2, <2>1 DEF FirstCommits
<1>3. ASSUME NEW cmds, FirstCommits(cmds)
      PROVE  \/ Tail(cmds) = << >> /\ Head(cmds).do = "put_config" /\ ValidNames(Head(cmds).text)
             \/ Tail(cmds) # << >> /\ FirstCommits(Tail(cmds))
  <2>1. CASE cmds = <<PutConfig(cmds[1].text)>> /\ ValidNames(cmds[1].text)
    <3> DEFINE x == PutConfig(cmds[1].text)
    <3>1. Tail(<<x>>) = << >> /\ Head(<<x>>) = x
      OBVIOUS
    <3> HIDE DEF x
    <3>2. Tail(cmds) = << >> /\ Head(cmds) = x
      BY <2>1, <3>1 DEF x
    <3>3. QED
      BY <1>1, <2>1, <3>2 DEF x
  <2>2. CASE cmds = <<[do |-> "put_secret", name |-> "bootstrap_admin"], PutConfig(BootstrapText)>>
    <3> DEFINE x == [do |-> "put_secret", name |-> "bootstrap_admin"]
    <3> DEFINE y == PutConfig(BootstrapText)
    <3>1. Tail(<<x, y>>) = <<y>> /\ <<y>> # << >>
      OBVIOUS
    <3>2. cmds = <<x, y>>
      BY <2>2
    <3>3. FirstCommits(<<y>>)
      BY <1>2, MadeUpServes
    <3> HIDE DEF x, y
    <3>4. Tail(cmds) = <<y>>
      BY <3>1, <3>2
    <3>5. QED
      BY <3>1, <3>3, <3>4
  <2>3. QED
    BY <1>3, <2>1, <2>2 DEF FirstCommits
<1>4. QED
  BY <1>2, <1>3 DEF FirstCommits

\* An action that changes neither what is served nor what is to be committed but
\* of one that serves.
LEMMA Composed ==
  ASSUME ServesInv, NEW a \in Actors, a \notin Nodes \ up, NEW cmds, NEW expect, NEW edit,
         Compose(a, cmds, expect, edit), UNCHANGED <<up, live>>
  PROVE  ServesInv'
<1>1. op' = [op EXCEPT ![a] = [cmds |-> cmds, expect |-> expect, edit |-> edit]]
  BY DEF Compose
<1>2. DOMAIN op' = Actors /\ (\A b \in Actors \ {a} : op'[b] = op[b])
      /\ op'[a] = [cmds |-> cmds, expect |-> expect, edit |-> edit]
  BY <1>1 DEF ServesInv
<1>3. DOMAIN op'[a] = OpFields
  BY <1>2 DEF OpFields
<1>4. Actors' = Actors /\ Nodes' = Nodes /\ Nodes \subseteq Actors
  BY DEF Actors
<1>5. QED
  BY <1>2, <1>3, <1>4 DEF ServesInv

\* The commands a commit may be of.
Others == {"put_key", "delete_key", "put_secret", "delete_secret", "put_user", "delete_user",
           "put_team", "delete_team"}
Kinds == {"put_config"} \cup Others

\* What an edit or another write of the console composes, and what a command does.
EditKinds == {"put_config", "create_provider", "update_provider", "delete_provider",
              "create_tenant", "delete_tenant", "set_account_tenant", "add_provider_keys",
              "add_provider_key", "delete_provider_keys", "add_model", "delete_model",
              "put_route", "delete_route"}
IsEdit(e) == e.what \in EditKinds /\ (e.what = "put_config" => e.draft \in Drafts)
Revises(n) == \E e : IsEdit(e) /\ Edit(n, e)

LEMMA EditsCompose ==
  ASSUME NEW n
  PROVE  Edits(n) => Revises(n)
<1>1. ASSUME NEW e, IsEdit(e), Edit(n, e)
      PROVE  Revises(n)
  BY <1>1 DEF Revises
<1>2. PutsConfig(n) => Revises(n)
  <2>1. \A d \in Drafts : IsEdit([what |-> "put_config", draft |-> d])
    BY DEF IsEdit, EditKinds
  <2>2. QED
    BY <1>1, <2>1, Zenon DEF PutsConfig
<1>3. CreateProvider(n) \/ UpdateProvider(n) \/ DeleteProvider(n) => Revises(n)
  <2>1. /\ \A p, x : IsEdit([what |-> "create_provider", name |-> p, entry |-> x])
        /\ \A p, x : IsEdit([what |-> "update_provider", name |-> p, base |-> x])
        /\ \A p : IsEdit([what |-> "delete_provider", name |-> p])
    BY DEF IsEdit, EditKinds
  <2>2. QED
    BY <1>1, <2>1, Zenon DEF CreateProvider, UpdateProvider, DeleteProvider
<1>4. CreateTenant(n) \/ DeleteTenant(n) \/ SetAccountTenant(n) => Revises(n)
  <2>1. /\ \A t : IsEdit([what |-> "create_tenant", tenant |-> t])
        /\ \A t : IsEdit([what |-> "delete_tenant", tenant |-> t])
        /\ \A p, k, t : IsEdit([what |-> "set_account_tenant", name |-> p, account |-> k, tenant |-> t])
    BY DEF IsEdit, EditKinds
  <2>2. QED
    BY <1>1, <2>1, Zenon DEF CreateTenant, DeleteTenant, SetAccountTenant
<1>5. AddProviderKeys(n) \/ AddProviderKey(n) \/ DeleteProviderKeys(n) => Revises(n)
  <2>1. /\ \A p, x : IsEdit([what |-> "add_provider_keys", name |-> p, accounts |-> x])
        /\ \A p, x : IsEdit([what |-> "add_provider_key", name |-> p, accounts |-> x])
        /\ \A p, x : IsEdit([what |-> "delete_provider_keys", name |-> p, names |-> x])
    BY DEF IsEdit, EditKinds
  <2>2. QED
    BY <1>1, <2>1, Zenon DEF AddProviderKeys, AddProviderKey, DeleteProviderKeys
<1>6. AddModel(n) \/ DeleteModel(n) => Revises(n)
  <2>1. /\ \A p, m : IsEdit([what |-> "add_model", name |-> p, model |-> m])
        /\ \A p, m : IsEdit([what |-> "delete_model", name |-> p, model |-> m])
    BY DEF IsEdit, EditKinds
  <2>2. QED
    BY <1>1, <2>1, Zenon DEF AddModel, DeleteModel
<1>7. PutRoute(n) \/ DeleteRoute(n) => Revises(n)
  <2>1. /\ \A r : IsEdit([what |-> "put_route", route |-> r])
        /\ \A ref : IsEdit([what |-> "delete_route", ref |-> ref])
    BY DEF IsEdit, EditKinds
  <2>2. QED
    BY <1>1, <2>1, Zenon DEF PutRoute, DeleteRoute
<1>8. QED
  BY <1>2, <1>3, <1>4, <1>5, <1>6, <1>7 DEF Edits

\* A write of one command that insists on a version or on none.
Puts(n) == \E cmd, expect : cmd.do \in Others /\ Console(n, cmd, expect)

LEMMA WritesCompose ==
  ASSUME NEW n
  PROVE  Writes(n) => PutCredentialFiles(n) \/ Puts(n)
<1>1. ASSUME NEW cmd, NEW expect, cmd.do \in Others, Console(n, cmd, expect)
      PROVE  Puts(n)
  BY <1>1 DEF Puts
<1>2. /\ \A id, t : PutKey(id, t).do \in Others
      /\ \A u : PutUser(u).do \in Others
  BY DEF PutKey, PutUser, Others
<1>3. CreateKey(n) \/ UpdateKey(n) \/ CreateUser(n) \/ UpdateUser(n) => Puts(n)
  BY <1>1, <1>2 DEF CreateKey, UpdateKey, CreateUser, UpdateUser
<1>4. DeleteKey(n) => Puts(n)
  <2> DEFINE cmd(id) == [do |-> "delete_key", id |-> id]
  <2>1. \A id : cmd(id).do \in Others
    BY DEF Others
  <2>2. DeleteKey(n) => \E id : Console(n, cmd(id), Insists(n))
    BY DEF DeleteKey
  <2> HIDE DEF cmd
  <2>3. QED
    BY <1>1, <2>1, <2>2
<1>5. DeleteUser(n) => Puts(n)
  <2> DEFINE cmd(u) == [do |-> "delete_user", user |-> u]
  <2>1. \A u : cmd(u).do \in Others
    BY DEF Others
  <2>2. DeleteUser(n) => \E u : Console(n, cmd(u), {})
    BY DEF DeleteUser
  <2> HIDE DEF cmd
  <2>3. QED
    BY <1>1, <2>1, <2>2
<1>6. UpsertTeam(n) => Puts(n)
  <2> DEFINE cmd(w, S) == [do |-> "put_team", team |-> w, members |-> S]
  <2>1. \A w, S : cmd(w, S).do \in Others
    BY DEF Others
  <2>2. UpsertTeam(n) => \E w, S : Console(n, cmd(w, S), {})
    BY DEF UpsertTeam
  <2> HIDE DEF cmd
  <2>3. QED
    BY <1>1, <2>1, <2>2
<1>7. DeleteTeam(n) => Puts(n)
  <2> DEFINE cmd(w) == [do |-> "delete_team", team |-> w]
  <2>1. \A w : cmd(w).do \in Others
    BY DEF Others
  <2>2. DeleteTeam(n) => \E w : Console(n, cmd(w), {})
    BY DEF DeleteTeam
  <2> HIDE DEF cmd
  <2>3. QED
    BY <1>1, <2>1, <2>2
<1>8. PutSecret(n) => Puts(n)
  <2> DEFINE cmd(s) == [do |-> "put_secret", name |-> s]
  <2>1. \A s : cmd(s).do \in Others
    BY DEF Others
  <2>2. PutSecret(n) => \E s : Console(n, cmd(s), {})
    BY DEF PutSecret
  <2> HIDE DEF cmd
  <2>3. QED
    BY <1>1, <2>1, <2>2
<1>9. QED
  BY <1>3, <1>4, <1>5, <1>6, <1>7, <1>8 DEF Writes

\* A document that is written at the shell loads there.
Told(cmd) ==
  \/ cmd.do \in Others
  \/ \E d \in Drafts : Valid(d, Here) /\ cmd = PutConfig(d)

LEMMA CommandsCompose == Commands => \E cmd : Told(cmd) /\ Shell(cmd)
<1> DEFINE Tells == \E cmd : Told(cmd) /\ Shell(cmd)
<1>1. \A id, t : PutKey(id, t).do \in Others
  BY DEF PutKey, Others
<1>2. ConfigImport \/ KeyCreate \/ KeyEdit => Tells
  BY <1>1 DEF ConfigImport, KeyCreate, KeyEdit, Told
<1>3. SecretSet => Tells
  <2> DEFINE cmd(s) == [do |-> "put_secret", name |-> s]
  <2>1. \A s : cmd(s).do \in Others
    BY DEF Others
  <2>2. SecretSet => \E s : Shell(cmd(s))
    BY DEF SecretSet
  <2> HIDE DEF cmd
  <2>3. QED
    BY <2>1, <2>2 DEF Told
<1>4. SecretDelete => Tells
  <2> DEFINE cmd(s) == [do |-> "delete_secret", name |-> s]
  <2>1. \A s : cmd(s).do \in Others
    BY DEF Others
  <2>2. SecretDelete => \E s : Shell(cmd(s))
    BY DEF SecretDelete
  <2> HIDE DEF cmd
  <2>3. QED
    BY <2>1, <2>2 DEF Told
<1>5. KeyRm => Tells
  <2> DEFINE cmd(id) == [do |-> "delete_key", id |-> id]
  <2>1. \A id : cmd(id).do \in Others
    BY DEF Others
  <2>2. KeyRm => \E id : Shell(cmd(id))
    BY DEF KeyRm
  <2> HIDE DEF cmd
  <2>3. QED
    BY <2>1, <2>2 DEF Told
<1>6. QED
  BY <1>2, <1>3, <1>4, <1>5 DEF Commands

\* A commit of whichever actor keeps what is served sound.
LEMMA CommitServes ==
  ASSUME ServesInv, NEW a \in Actors, Commit(a)
  PROVE  ServesInv'
<1> USE DEF ServesInv
<1>1. DOMAIN Idle = OpFields /\ Nodes \subseteq Actors
  BY DEF Idle, OpFields, Actors
<1>2. ASSUME UNCHANGED <<up, live>>, op' = op \/ op' = [op EXCEPT ![a] = Idle]
      PROVE  ServesInv'
  <2>1. DOMAIN op' = Actors /\ \A b \in Actors : op'[b] = op[b] \/ op'[b] = Idle
    BY <1>2
  <2>2. QED
    BY <1>1, <1>2, <2>1
<1>3. CASE CommitRefused(a) \/ CommitLost(a) \/ CommitFails(a)
  <2>1. op' = op \/ op' = [op EXCEPT ![a] = Idle]
    BY <1>3 DEF CommitRefused, CommitLost, CommitFails
  <2>2. UNCHANGED <<up, live>>
    BY <1>3 DEF CommitRefused, CommitLost, CommitFails, nodeVars
  <2>3. QED
    BY <1>2, <2>1, <2>2
<1>4. CASE CommitWins(a)
  <2> DEFINE c == Head(op[a].cmds)
  <2> DEFINE rest == Tail(op[a].cmds)
  <2> DEFINE next == IF rest = << >> THEN Idle ELSE [op[a] EXCEPT !.cmds = rest]
  <2>1. op[a] # Idle /\ op' = [op EXCEPT ![a] = next]
    BY <1>4 DEF CommitWins, Wins
  <2>2. IF a \in Nodes \ up /\ rest = << >>
        THEN up' = up \cup {a} /\ live' = [live EXCEPT ![a] = c.text]
        ELSE UNCHANGED <<up, live>>
    BY <1>4 DEF CommitWins
  <2>3. DOMAIN op[a] = OpFields
    OBVIOUS
  <2>4. DOMAIN next = OpFields /\ (rest # << >> => next.cmds = rest)
    BY <1>1, <2>3 DEF OpFields
  <2>5. a \in Nodes \ up =>
          \/ rest = << >> /\ ValidNames(c.text)
          \/ rest # << >> /\ FirstCommits(rest)
    BY <2>1, Firsts
  <2>6. rest = << >> => next = Idle
    OBVIOUS
  <2> HIDE DEF c, rest, next
  <2>7. DOMAIN op' = Actors /\ op'[a] = next /\ \A b \in Actors : b # a => op'[b] = op[b]
    BY <2>1
  <2>8. \A b \in Actors : DOMAIN op'[b] = OpFields
    BY <2>4, <2>7
  <2>9. DOMAIN live' = Nodes /\ up' \subseteq Nodes /\ up \subseteq up'
    BY <2>2
  <2>10. \A n \in up' : ValidNames(live'[n])
    BY <2>2, <2>5
  <2>11. \A n \in Nodes \ up' : op'[n] # Idle => FirstCommits(op'[n].cmds)
    BY <1>1, <2>4, <2>5, <2>6, <2>7, <2>9
  <2>12. QED
    BY <2>7, <2>8, <2>9, <2>10, <2>11 DEF Actors
<1>5. QED
  BY <1>3, <1>4 DEF Commit

\* A node starts with a document that is let through, or first commits one.
LEMMA BootServes ==
  ASSUME ServesInv, NEW n \in Nodes, Boot(n)
  PROVE  ServesInv'
<1> USE DEF ServesInv
<1>1. Nodes \subseteq Actors
  BY DEF Actors
<1>2. ASSUME NEW d, ValidNames(d), Serve(n, d)
      PROVE  ServesInv'
  <2>1. up' = up \cup {n} /\ live' = [live EXCEPT ![n] = d] /\ op' = op
    BY <1>2 DEF Serve
  <2>2. DOMAIN live' = Nodes /\ \A m \in Nodes : live'[m] = IF m = n THEN d ELSE live[m]
    BY <2>1
  <2>3. QED
    BY <1>2, <2>1, <2>2 DEF Actors
<1>3. ASSUME NEW cmds, FirstCommits(cmds), Begin(n, cmds)
      PROVE  ServesInv'
  <2> DEFINE next == [Idle EXCEPT !.cmds = cmds]
  <2>1. UNCHANGED <<up, live>> /\ op' = [op EXCEPT ![n] = next]
    BY <1>3 DEF Begin
  <2>2. DOMAIN next = OpFields /\ next.cmds = cmds
    BY DEF Idle, OpFields
  <2> HIDE DEF next
  <2>3. DOMAIN op' = Actors /\ \A m \in Actors : op'[m] = IF m = n THEN next ELSE op[m]
    BY <2>1
  <2>4. QED
    BY <1>1, <1>3, <2>1, <2>2, <2>3 DEF Actors
<1> DEFINE here == Readable(n, store.secrets)
<1>4. CASE n \in FromFile
  <2>1. \E d \in IF FileTexts = {} THEN MadeUp(here) ELSE FileTexts : Valid(d, here) /\ Serve(n, d)
    BY <1>4 DEF Boot
  <2>2. QED
    BY <1>2, <2>1, ValidServes
<1>5. CASE n \notin FromFile
  <2>1. \/ Valid(store.config, here) /\ Serve(n, store.config)
        \/ \E d \in Seeds : Valid(d, here) /\ Begin(n, <<PutConfig(d)>>)
        \/ \E d \in MadeUp(here) : Serve(n, d)
        \/ Begin(n, <<[do |-> "put_secret", name |-> "bootstrap_admin"], PutConfig(BootstrapText)>>)
    BY <1>5 DEF Boot
  <2>2. \A d \in MadeUp(here) : ValidNames(d)
    BY MadeUpServes DEF MadeUp
  <2>3. QED
    BY <1>2, <1>3, <2>1, <2>2, Firsts, ValidServes
<1>6. QED
  BY <1>4, <1>5

LEMMA ServesStep == ServesInv /\ [Next]_vars => ServesInv'
<1> SUFFICES ASSUME ServesInv, [Next]_vars
             PROVE  ServesInv'
  OBVIOUS
<1>1. Cli \notin Nodes /\ Nodes \subseteq Actors /\ Cli \in Actors
  BY DirectoryAssumption DEF DirectoryAssumption, Actors
<1>2. ASSUME NEW n \in Nodes, Writable(n), Edits(n) \/ Writes(n)
      PROVE  ServesInv'
  <2>1. n \in Actors /\ n \notin Nodes \ up
    BY <1>1, <1>2 DEF Writable
  <2>2. ASSUME NEW e, Edit(n, e)
        PROVE  ServesInv'
    <3>1. UNCHANGED <<up, live>> /\ Compose(n, <<PutConfig(After(e, Doc(n)))>>, Insists(n), {e})
      BY <2>2 DEF Edit, nodeVars
    <3>2. QED
      BY <2>1, <3>1, Composed
  <2>3. ASSUME NEW cmd, NEW expect, Console(n, cmd, expect)
        PROVE  ServesInv'
    <3>1. UNCHANGED <<up, live>> /\ Compose(n, <<cmd>>, expect, {})
      BY <2>3 DEF Console, Write, nodeVars
    <3>2. QED
      BY <2>1, <3>1, Composed
  <2>4. CASE PutCredentialFiles(n)
    BY <2>4 DEF PutCredentialFiles, ServesInv, Actors
  <2>5. QED
    BY <1>2, <2>2, <2>3, <2>4, EditsCompose, WritesCompose DEF Puts, Revises
<1>3. CASE Commands
  <2>1. PICK cmd : Shell(cmd)
    BY <1>3, CommandsCompose
  <2>2. UNCHANGED <<up, live>> /\ Compose(Cli, <<cmd>>, {}, {})
    BY <2>1 DEF Shell, Write, nodeVars
  <2>3. QED
    BY <1>1, <2>2, Composed
<1>4. ASSUME NEW n \in Nodes, Refresh(n) \/ RefreshKeys(n)
      PROVE  ServesInv'
  BY <1>4 DEF Refresh, RefreshKeys, ServesInv, Actors
<1>5. ASSUME NEW n \in Nodes, NEW d, ValidNames(d), UNCHANGED <<up, op>>,
             live' = live \/ live' = [live EXCEPT ![n] = d]
      PROVE  ServesInv'
  BY <1>5 DEF ServesInv, Actors
<1>6. ASSUME NEW n \in Nodes, Adopt(n)
      PROVE  ServesInv'
  <2>1. UNCHANGED <<up, op>> /\ (live' = live \/ (Loads(n) /\ live' = [live EXCEPT ![n] = Doc(n)]))
    BY <1>6 DEF Adopt
  <2>2. Loads(n) => ValidNames(Doc(n))
    BY ValidServes DEF Loads
  <2>3. QED
    BY <1>5, <2>1, <2>2, MadeUpServes
<1>7. ASSUME NEW n \in Nodes, Reload(n)
      PROVE  ServesInv'
  <2>1. PICK d \in FileTexts : Valid(d, Env(n)) /\ live' = [live EXCEPT ![n] = d]
    BY <1>7 DEF Reload
  <2>2. UNCHANGED <<up, op>>
    BY <1>7 DEF Reload
  <2>3. QED
    BY <1>5, <2>1, <2>2, ValidServes
<1>8. ASSUME NEW n \in Nodes, Crash(n)
      PROVE  ServesInv'
  <2>1. up' = up \ {n} /\ op' = [op EXCEPT ![n] = Idle] /\ live' = [live EXCEPT ![n] = EmptyDocument]
    BY <1>8 DEF Crash
  <2>2. DOMAIN Idle = OpFields
    BY DEF Idle, OpFields
  <2>3. QED
    BY <1>1, <2>1, <2>2 DEF ServesInv, Actors
<1>9. CASE UNCHANGED vars
  BY <1>9 DEF vars, ServesInv, Actors
<1>10. QED
  BY <1>2, <1>3, <1>4, <1>6, <1>7, <1>8, <1>9, BootServes, CommitServes DEF Next

\* Whatever is written, adopted or kept out, what a node serves is planned: what
\* it takes up it has loaded, and what it commits before it serves leads
\* nowhere or was loaded.  Its accounts and static keys are of services it has.
THEOREM Serves == Spec => []LiveServes
<1>1. ServesInv => LiveServes
  BY NamesLead DEF ServesInv, LiveServes, Leads
<1>2. QED
  BY <1>1, ServesInit, ServesStep, PTL DEF Spec

-----------------------------------------------------------------------------
(* Commits *)

IsStore(s) ==
  /\ s.version \in Nat
  /\ s = [version |-> s.version, seeded |-> s.seeded, config |-> s.config, keys |-> s.keys,
          users |-> s.users, teams |-> s.teams, secrets |-> s.secrets]

\* A copy is of the store as it was, and the same as the store while they agree
\* on the version.
Copies ==
  /\ IsStore(store) /\ DOMAIN cache = Actors
  /\ \A a \in Actors :
       /\ IsStore(cache[a]) /\ cache[a].version <= store.version
       /\ cache[a].version = store.version => cache[a] = store

\* What is to be committed: a command, or two one after the other.
OneOrTwo(cmds) ==
  \E c : /\ c.do \in Kinds
         /\ \/ cmds = <<c>>
            \/ \E b : b.do \in Kinds /\ cmds = <<c, b>>

IsOp(o) ==
  /\ o = [cmds |-> o.cmds, expect |-> o.expect, edit |-> o.edit]
  /\ o # Idle => OneOrTwo(o.cmds)

\* An edit that is not stale is what its author makes of the copy there is, and
\* loads with what can be read there.
Drafted(n, e) ==
  /\ op[n].cmds = <<PutConfig(After(e, Doc(n)))>>
  /\ Valid(After(e, Doc(n)), Env(n))

Current(n, e) ==
  \E v \in Nat :
    /\ op[n].expect = {v} /\ v <= cache[n].version
    /\ v = cache[n].version => Drafted(n, e)

Pending ==
  /\ DOMAIN op = Actors /\ DOMAIN machine = Actors
  /\ \A a \in Actors : IsOp(op[a])
  /\ \A n \in Nodes : \A e \in op[n].edit : Current(n, e)

EditsInv == Copies /\ Pending

LEMMA EditsInit == Init => EditsInv
<1> SUFFICES ASSUME Init
             PROVE  EditsInv
  OBVIOUS
<1>1. PICK s \in Starts : store = s.store /\ machine = s.machine
  BY DEF Init
<1>2. IsStore(store)
  BY <1>1, DirectoryAssumption DEF DirectoryAssumption, IsStore
<1>3. cache = [a \in Actors |-> store] /\ op = [a \in Actors |-> Idle]
  BY DEF Init
<1>4. Copies
  BY <1>2, <1>3 DEF Copies, IsStore
<1>5. IsOp(Idle) /\ Idle.edit = {}
  BY DEF IsOp, Idle
<1>6. \A a \in Nodes : a \in Actors
  BY DEF Actors
<1>7. DOMAIN machine = Actors
  BY <1>1, DirectoryAssumption DEF DirectoryAssumption, Actors
<1>8. Pending
  BY <1>3, <1>5, <1>6, <1>7 DEF Pending
<1>9. QED
  BY <1>4, <1>8 DEF EditsInv

\* A command makes another version of the store.
LEMMA Applied ==
  ASSUME NEW s, IsStore(s), NEW c, c.do \in Kinds
  PROVE  /\ IsStore(Apply(s, c)) /\ Apply(s, c).version = s.version + 1
         /\ c.do = "put_config"
              => Apply(s, c).config = c.text /\ Apply(s, c).secrets = s.secrets
<1> DEFINE t == [s EXCEPT !.version = @ + 1]
<1>1. IsStore(t) /\ t.version = s.version + 1 /\ t.secrets = s.secrets
  BY DEF IsStore
<1> HIDE DEF t
<1>2. t = [version |-> t.version, seeded |-> t.seeded, config |-> t.config, keys |-> t.keys,
           users |-> t.users, teams |-> t.teams, secrets |-> t.secrets]
      /\ t.version \in Nat
  BY <1>1 DEF IsStore
<1>3. CASE c.do = "put_config"
  <2>1. Apply(s, c) = [t EXCEPT !.config = c.text, !.seeded = TRUE]
    BY <1>3 DEF Apply, t
  <2>2. QED
    BY <1>1, <1>2, <2>1 DEF IsStore
<1>4. ASSUME NEW keys, Apply(s, c) = [t EXCEPT !.keys = keys]
      PROVE  IsStore(Apply(s, c)) /\ Apply(s, c).version = s.version + 1
  BY <1>1, <1>2, <1>4 DEF IsStore
<1>5. ASSUME NEW secrets, Apply(s, c) = [t EXCEPT !.secrets = secrets]
      PROVE  IsStore(Apply(s, c)) /\ Apply(s, c).version = s.version + 1
  BY <1>1, <1>2, <1>5 DEF IsStore
<1>6. ASSUME NEW users, NEW teams, Apply(s, c) = [t EXCEPT !.users = users, !.teams = teams]
      PROVE  IsStore(Apply(s, c)) /\ Apply(s, c).version = s.version + 1
  BY <1>1, <1>2, <1>6 DEF IsStore
<1>7. ASSUME NEW users, Apply(s, c) = [t EXCEPT !.users = users]
      PROVE  IsStore(Apply(s, c)) /\ Apply(s, c).version = s.version + 1
  BY <1>1, <1>2, <1>7 DEF IsStore
<1>8. ASSUME NEW teams, Apply(s, c) = [t EXCEPT !.teams = teams]
      PROVE  IsStore(Apply(s, c)) /\ Apply(s, c).version = s.version + 1
  BY <1>1, <1>2, <1>8 DEF IsStore
<1>9. CASE c.do \in {"put_key", "delete_key"}
  BY <1>4, <1>9 DEF Apply, t
<1>10. CASE c.do \in {"put_secret", "delete_secret"}
  BY <1>5, <1>10 DEF Apply, t
<1>11. CASE c.do = "delete_user"
  BY <1>6, <1>11 DEF Apply, t
<1>12. CASE c.do = "put_user"
  BY <1>7, <1>12 DEF Apply, t
<1>13. CASE c.do \in {"put_team", "delete_team"}
  BY <1>8, <1>13 DEF Apply, t
<1>14. QED
  BY <1>3, <1>9, <1>10, <1>11, <1>12, <1>13 DEF Kinds, Others

\* A command that is not of the document leaves it.
LEMMA AppliedElse ==
  ASSUME NEW s, IsStore(s), NEW c, c.do \in Others
  PROVE  Apply(s, c).config = s.config
<1> DEFINE t == [s EXCEPT !.version = @ + 1]
<1>1. t.config = s.config
  BY DEF IsStore
<1> HIDE DEF t
<1>2. IsStore(t)
  <2>1. QED
    BY DEF IsStore, t
<1>3. t = [version |-> t.version, seeded |-> t.seeded, config |-> t.config, keys |-> t.keys,
           users |-> t.users, teams |-> t.teams, secrets |-> t.secrets]
  BY <1>2 DEF IsStore
<1>4. \/ \E keys : Apply(s, c) = [t EXCEPT !.keys = keys]
      \/ \E secrets : Apply(s, c) = [t EXCEPT !.secrets = secrets]
      \/ \E users, teams : Apply(s, c) = [t EXCEPT !.users = users, !.teams = teams]
      \/ \E users : Apply(s, c) = [t EXCEPT !.users = users]
      \/ \E teams : Apply(s, c) = [t EXCEPT !.teams = teams]
  <2>1. CASE c.do \in {"put_key", "delete_key"}
    BY <2>1 DEF Apply, t
  <2>2. CASE c.do \in {"put_secret", "delete_secret"}
    BY <2>2 DEF Apply, t
  <2>3. CASE c.do = "delete_user"
    BY <2>3 DEF Apply, t
  <2>4. CASE c.do = "put_user"
    BY <2>4 DEF Apply, t
  <2>5. CASE c.do \in {"put_team", "delete_team"}
    BY <2>5 DEF Apply, t
  <2>6. QED
    BY <2>1, <2>2, <2>3, <2>4, <2>5 DEF Others
<1>5. Apply(s, c).config = t.config
  BY <1>3, <1>4
<1>6. QED
  BY <1>1, <1>5

\* Whatever is read anew is the store as it is.
LEMMA CopiesStay ==
  ASSUME Copies, UNCHANGED store,
         cache' = cache \/ \E a \in Actors : cache' = [cache EXCEPT ![a] = store]
  PROVE  Copies'
<1>1. DOMAIN cache' = Actors /\ \A a \in Actors : cache'[a] = cache[a] \/ cache'[a] = store
  BY DEF Copies
<1>2. store.version <= store.version
  BY DEF Copies, IsStore
<1>3. Actors' = Actors /\ IsStore(store)'
  BY DEF Actors, Copies, IsStore
<1>4. ASSUME NEW a \in Actors
      PROVE  /\ IsStore(cache'[a]) /\ cache'[a].version <= store'.version
             /\ cache'[a].version = store'.version => cache'[a] = store'
  BY <1>1, <1>2 DEF Copies
<1>5. QED
  BY <1>1, <1>3, <1>4 DEF Copies, IsStore

\* A copy only ever gets newer.
Ahead(a) ==
  /\ cache[a].version <= cache'[a].version
  /\ cache[a].version = cache'[a].version => cache'[a] = cache[a]

LEMMA CopiesAhead ==
  ASSUME Copies, UNCHANGED store,
         cache' = cache \/ \E a \in Actors : cache' = [cache EXCEPT ![a] = store]
  PROVE  \A a \in Actors : Ahead(a)
<1> SUFFICES ASSUME NEW a \in Actors
             PROVE  Ahead(a)
  OBVIOUS
<1>1. cache'[a] = cache[a] \/ cache'[a] = store
  BY DEF Copies
<1>2. cache[a].version \in Nat
  BY DEF Copies, IsStore
<1>3. QED
  BY <1>1, <1>2 DEF Ahead, Copies

\* An edit whose copy is read anew is stale from then on, and is else as it was.
LEMMA StillCurrent ==
  ASSUME Copies, Copies', NEW n \in Nodes, NEW e, Current(n, e), Ahead(n),
         op'[n] = op[n], machine'[n] = machine[n]
  PROVE  Current(n, e)'
<1>1. PICK v \in Nat : /\ op[n].expect = {v} /\ v <= cache[n].version
                       /\ v = cache[n].version => Drafted(n, e)
  BY DEF Current
<1>2. n \in Actors
  BY DEF Actors
<1>3. cache[n].version \in Nat /\ cache'[n].version \in Nat
  BY <1>2 DEF Copies, IsStore, Actors
<1>4. v <= cache'[n].version
  BY <1>1, <1>3 DEF Ahead
<1>5. ASSUME v = cache'[n].version
      PROVE  Drafted(n, e)'
  <2>1. v = cache[n].version /\ cache'[n] = cache[n]
    BY <1>1, <1>3, <1>5 DEF Ahead
  <2>2. Drafted(n, e)
    BY <1>1, <2>1
  <2>3. Doc(n)' = Doc(n) /\ Env(n)' = Env(n)
    BY <2>1 DEF Doc, Env, Readable
  <2>4. After(e, Doc(n))' = After(e, Doc(n))
    BY <2>3
  <2>5. QED
    BY <2>2, <2>3, <2>4 DEF Drafted
<1>6. QED
  BY <1>1, <1>4, <1>5 DEF Current

\* Nothing is committed, and what is pending is dropped or stays.
LEMMA PendingStays ==
  ASSUME EditsInv, Copies', UNCHANGED machine, \A a \in Actors : Ahead(a),
         op' = op \/ \E a \in Actors : op' = [op EXCEPT ![a] = Idle]
  PROVE  Pending'
<1>1. DOMAIN op' = Actors /\ \A a \in Actors : op'[a] = op[a] \/ op'[a] = Idle
  BY DEF EditsInv, Pending
<1>2. IsOp(Idle) /\ Idle.edit = {}
  BY DEF IsOp, Idle
<1>3. Actors' = Actors /\ Nodes \subseteq Actors
  BY DEF Actors
<1>4. \A a \in Actors : IsOp(op'[a])
  BY <1>1, <1>2 DEF EditsInv, Pending
<1>5. ASSUME NEW n \in Nodes, NEW e \in op'[n].edit
      PROVE  Current(n, e)'
  <2>1. op'[n] = op[n]
    BY <1>1, <1>2, <1>3, <1>5
  <2>2. Current(n, e)
    BY <1>5, <2>1 DEF EditsInv, Pending
  <2>3. QED
    BY <1>3, <2>1, <2>2, StillCurrent DEF EditsInv
<1>6. DOMAIN machine' = Actors
  BY DEF EditsInv, Pending
<1>7. QED
  BY <1>1, <1>3, <1>4, <1>5, <1>6 DEF Pending, IsOp, OneOrTwo, Kinds, Idle

\* An action that only makes an actor, that has nothing pending, commit something.
LEMMA NowPending ==
  ASSUME EditsInv, NEW a \in Actors, op[a] = Idle, Copies', UNCHANGED <<store, machine>>,
         \A b \in Actors : Ahead(b),
         NEW cmds, OneOrTwo(cmds), NEW expect, NEW edit,
         op' = [op EXCEPT ![a] = [cmds |-> cmds, expect |-> expect, edit |-> edit]],
         \A e \in edit : a \in Nodes => Current(a, e)'
  PROVE  EditsInv'
<1> DEFINE next == [cmds |-> cmds, expect |-> expect, edit |-> edit]
<1>1. IsOp(next) /\ next.edit = edit
  BY DEF IsOp
<1> HIDE DEF next
<1>2. DOMAIN op' = Actors /\ op'[a] = next /\ \A b \in Actors : b # a => op'[b] = op[b]
  BY DEF EditsInv, Pending, next
<1>3. Actors' = Actors /\ Nodes \subseteq Actors
  BY DEF Actors
<1>4. \A b \in Actors : IsOp(op'[b])
  BY <1>1, <1>2 DEF EditsInv, Pending
<1>5. ASSUME NEW n \in Nodes, NEW e \in op'[n].edit
      PROVE  Current(n, e)'
  <2>1. CASE n = a
    BY <1>1, <1>2, <1>5, <2>1
  <2>2. CASE n # a
    <3>1. op'[n] = op[n]
      BY <1>2, <1>3, <2>2
    <3>2. Current(n, e)
      BY <1>5, <3>1 DEF EditsInv, Pending
    <3>3. QED
      BY <1>3, <3>1, <3>2, StillCurrent DEF EditsInv
  <2>3. QED
    BY <2>1, <2>2
<1>6. DOMAIN machine' = Actors
  BY DEF EditsInv, Pending
<1>7. Pending'
  BY <1>2, <1>3, <1>4, <1>5, <1>6 DEF Pending, IsOp, OneOrTwo, Kinds, Idle
<1>8. QED
  BY <1>7 DEF EditsInv

\* An edit is drafted on the copy there is, which it insists on.
LEMMA EditCurrent ==
  ASSUME EditsInv, NEW n \in Nodes, NEW e, op[n] = Idle, Edit(n, e)
  PROVE  EditsInv'
<1>1. n \in Actors
  BY DEF Actors
<1> DEFINE cmds == <<PutConfig(After(e, Doc(n)))>>
<1>2. UNCHANGED <<store, cache, machine>>
  BY DEF Edit, nodeVars
<1>3. op' = [op EXCEPT ![n] = [cmds |-> cmds, expect |-> {cache[n].version}, edit |-> {e}]]
  BY DEF Edit, Compose, Insists
<1>4. op'[n] = [cmds |-> cmds, expect |-> {cache[n].version}, edit |-> {e}]
  BY <1>1, <1>3 DEF EditsInv, Pending
<1>5. OneOrTwo(cmds)
  <2> DEFINE put == PutConfig(After(e, Doc(n)))
  <2>1. put.do \in Kinds
    BY DEF PutConfig, Kinds
  <2> HIDE DEF put
  <2>2. OneOrTwo(<<put>>)
    BY <2>1 DEF OneOrTwo
  <2>3. QED
    BY <2>2 DEF put
<1>6. Current(n, e)'
  <2>1. Doc(n)' = Doc(n) /\ Env(n)' = Env(n)
    BY <1>2 DEF Doc, Env, Readable
  <2>2. After(e, Doc(n))' = After(e, Doc(n))
    BY <2>1
  <2>3. Valid(After(e, Doc(n)), Env(n))
    BY DEF Edit
  <2>4. op'[n].cmds = cmds /\ op'[n].expect = {cache[n].version}
    BY <1>4
  <2>5. Drafted(n, e)'
    BY <2>1, <2>2, <2>3, <2>4 DEF Drafted
  <2>6. cache[n].version \in Nat /\ cache'[n].version = cache[n].version
    BY <1>1, <1>2 DEF EditsInv, Copies, IsStore
  <2>7. cache[n].version <= cache'[n].version
    BY <2>6
  <2>8. QED
    BY <2>4, <2>5, <2>6, <2>7 DEF Current
<1>7. Copies' /\ \A b \in Actors : Ahead(b)
  BY <1>2, CopiesStay, CopiesAhead DEF EditsInv
<1> HIDE DEF cmds
<1>8. QED
  BY <1>1, <1>2, <1>3, <1>5, <1>6, <1>7, NowPending

\* Another write, of the console or of the shell.
LEMMA WriteCurrent ==
  ASSUME EditsInv, NEW a \in Actors, op[a] = Idle, NEW cmd, cmd.do \in Kinds, NEW expect,
         Write(a, cmd, expect), cache' = cache \/ cache' = [cache EXCEPT ![a] = store]
  PROVE  EditsInv'
<1>1. UNCHANGED <<store, machine>>
  BY DEF Write, nodeVars
<1>2. op' = [op EXCEPT ![a] = [cmds |-> <<cmd>>, expect |-> expect, edit |-> {}]]
  BY DEF Write, Compose
<1>3. OneOrTwo(<<cmd>>)
  BY DEF OneOrTwo
<1>4. Copies' /\ \A b \in Actors : Ahead(b)
  BY <1>1, CopiesStay, CopiesAhead DEF EditsInv
<1> DEFINE none == {}
<1>5. \A e \in none : a \in Nodes => Current(a, e)'
  OBVIOUS
<1>6. op' = [op EXCEPT ![a] = [cmds |-> <<cmd>>, expect |-> expect, edit |-> none]]
  BY <1>2
<1> HIDE DEF none
<1>7. QED
  BY <1>1, <1>3, <1>4, <1>5, <1>6, NowPending

\* A step that commits nothing, after which each actor has pending what it had or
\* nothing.
LEMMA OthersCurrent ==
  ASSUME EditsInv, UNCHANGED <<store, machine>>,
         cache' = cache \/ \E a \in Actors : cache' = [cache EXCEPT ![a] = store],
         op' = op \/ \E a \in Actors : op' = [op EXCEPT ![a] = Idle]
  PROVE  EditsInv'
<1>1. Copies' /\ \A a \in Actors : Ahead(a)
  BY CopiesStay, CopiesAhead DEF EditsInv
<1>2. QED
  BY <1>1, PendingStays DEF EditsInv

\* A commit is of the first command that is pending, on the version of the copy;
\* an edit that is made is the draft, and is then done.
LEMMA Won ==
  ASSUME EditsInv, NEW a \in Actors, CommitWins(a)
  PROVE  /\ cache[a] = store /\ IsStore(store') /\ store'.version = store.version + 1
         /\ op' = [op EXCEPT ![a] = op'[a]] /\ IsOp(op'[a])
         /\ op'[a] # Idle => op'[a].edit = op[a].edit /\ op[a].cmds # <<Head(op[a].cmds)>>
         /\ a \in Nodes => \A e \in op[a].edit :
              /\ Drafted(a, e) /\ op'[a] = Idle
              /\ store'.config = After(e, Doc(a)) /\ store'.secrets = store.secrets
<1> DEFINE c == Head(op[a].cmds)
<1> DEFINE rest == Tail(op[a].cmds)
<1>1. op[a] # Idle /\ ~Stale(a) /\ cache[a].version = store.version
  BY DEF CommitWins, Wins
<1>2. store' = Apply(store, c)
      /\ op' = [op EXCEPT ![a] = IF rest = << >> THEN Idle ELSE [@ EXCEPT !.cmds = rest]]
  BY DEF CommitWins
<1>3. cache[a] = store /\ IsStore(store) /\ DOMAIN op = Actors /\ IsOp(op[a])
  BY <1>1 DEF EditsInv, Copies, Pending
<1>4. c.do \in Kinds /\ (rest = << >> \/ OneOrTwo(rest))
      /\ (rest # << >> => op[a].cmds # <<c>>)
  <2>1. PICK x : /\ x.do \in Kinds
                 /\ \/ op[a].cmds = <<x>>
                    \/ \E b : b.do \in Kinds /\ op[a].cmds = <<x, b>>
    BY <1>1, <1>3 DEF IsOp, OneOrTwo
  <2>2. CASE op[a].cmds = <<x>>
    <3>1. c = x /\ rest = << >>
      BY <2>2
    <3>2. QED
      BY <2>1, <3>1
  <2>3. ASSUME NEW b, b.do \in Kinds, op[a].cmds = <<x, b>>
        PROVE  c = x /\ rest = <<b>> /\ op[a].cmds # <<c>>
    BY <2>3
  <2>4. \A b : b.do \in Kinds => OneOrTwo(<<b>>)
    BY DEF OneOrTwo
  <2> HIDE DEF c, rest
  <2>5. QED
    BY <2>1, <2>2, <2>3, <2>4
<1>5. op'[a] = IF rest = << >> THEN Idle ELSE [op[a] EXCEPT !.cmds = rest]
  BY <1>2, <1>3
<1>6. [op[a] EXCEPT !.cmds = rest] = [cmds |-> rest, expect |-> op[a].expect, edit |-> op[a].edit]
  <2> HIDE DEF rest
  <2>1. PICK x, y, z : op[a] = [cmds |-> x, expect |-> y, edit |-> z]
    BY <1>3 DEF IsOp
  <2>2. QED
    BY <2>1
<1>7. IsOp(Idle)
  BY DEF IsOp, Idle
<1>8. IsOp(op'[a]) /\ (op'[a] # Idle => op'[a].edit = op[a].edit /\ rest # << >>)
  <2> HIDE DEF rest, c
  <2>1. CASE rest = << >>
    BY <1>5, <1>7, <2>1
  <2>2. CASE rest # << >>
    BY <1>4, <1>5, <1>6, <2>2 DEF IsOp
  <2>3. QED
    BY <2>1, <2>2
<1>9. op' = [op EXCEPT ![a] = op'[a]]
  BY <1>2, <1>3
<1>10. /\ IsStore(store') /\ store'.version = store.version + 1
       /\ c.do = "put_config" => store'.config = c.text /\ store'.secrets = store.secrets
  <2> HIDE DEF c
  <2>1. QED
    BY <1>2, <1>3, <1>4, Applied
<1>11. ASSUME a \in Nodes, NEW e \in op[a].edit
       PROVE  /\ Drafted(a, e) /\ op'[a] = Idle
              /\ store'.config = After(e, Doc(a)) /\ store'.secrets = store.secrets
  <2>1. PICK v \in Nat : op[a].expect = {v} /\ (v = cache[a].version => Drafted(a, e))
    BY <1>11 DEF EditsInv, Pending, Current
  <2>2. v = cache[a].version
    BY <1>1, <2>1 DEF Stale
  <2>3. Drafted(a, e)
    BY <2>1, <2>2
  <2> DEFINE put == PutConfig(After(e, Doc(a)))
  <2>4. op[a].cmds = <<put>>
    BY <2>3 DEF Drafted
  <2>5. put.do = "put_config" /\ put.text = After(e, Doc(a))
    BY DEF PutConfig
  <2> HIDE DEF put
  <2>6. c = put /\ rest = << >>
    BY <2>4
  <2> HIDE DEF c, rest
  <2>7. QED
    BY <1>5, <1>10, <2>3, <2>5, <2>6
<1>12. QED
  BY <1>3, <1>4, <1>8, <1>9, <1>10, <1>11

LEMMA WonCurrent ==
  ASSUME EditsInv, NEW a \in Actors, CommitWins(a)
  PROVE  EditsInv'
<1>1. /\ IsStore(store') /\ store'.version = store.version + 1
      /\ op' = [op EXCEPT ![a] = op'[a]] /\ IsOp(op'[a])
      /\ op'[a] # Idle => op'[a].edit = op[a].edit
      /\ a \in Nodes => \A e \in op[a].edit : op'[a] = Idle
  BY Won
<1>2. cache' = [cache EXCEPT ![a] = store'] /\ machine' = machine
  BY DEF CommitWins
<1>3. DOMAIN cache' = Actors /\ cache'[a] = store' /\ \A b \in Actors : b # a => cache'[b] = cache[b]
  BY <1>2 DEF EditsInv, Copies
<1>4. DOMAIN op' = Actors /\ \A b \in Actors : b # a => op'[b] = op[b]
  BY <1>1 DEF EditsInv, Pending
<1>5. Actors' = Actors /\ Nodes \subseteq Actors
  BY DEF Actors
<1>6. store.version \in Nat /\ store'.version \in Nat
  BY <1>1 DEF EditsInv, Copies, IsStore
<1>7. ASSUME NEW b \in Actors
      PROVE  /\ IsStore(cache'[b]) /\ cache'[b].version <= store'.version
             /\ cache'[b].version = store'.version => cache'[b] = store'
  <2>1. CASE b = a
    BY <1>1, <1>3, <1>6, <2>1
  <2>2. CASE b # a
    <3>1. cache'[b] = cache[b] /\ IsStore(cache[b]) /\ cache[b].version <= store.version
      BY <1>3, <2>2 DEF EditsInv, Copies
    <3>2. cache[b].version \in Nat
      BY <3>1 DEF IsStore
    <3>3. QED
      BY <1>1, <1>6, <3>1, <3>2
  <2>3. QED
    BY <2>1, <2>2
<1>8. Copies'
  BY <1>1, <1>3, <1>5, <1>7 DEF Copies, IsStore
<1>9. \A b \in Actors : IsOp(op'[b])
  BY <1>1, <1>4 DEF EditsInv, Pending
<1>10. ASSUME NEW n \in Nodes, NEW e \in op'[n].edit
       PROVE  Current(n, e)'
  <2>1. CASE n = a
    <3>1. op'[a] = Idle
      BY <1>1, <1>10, <2>1
    <3>2. QED
      BY <1>10, <2>1, <3>1 DEF Idle
  <2>2. CASE n # a
    <3>1. op'[n] = op[n] /\ cache'[n] = cache[n] /\ machine'[n] = machine[n]
      BY <1>2, <1>3, <1>4, <1>5, <2>2
    <3>2. Current(n, e)
      BY <1>10, <3>1 DEF EditsInv, Pending
    <3>3. cache[n].version \in Nat
      BY <1>5 DEF EditsInv, Copies, IsStore
    <3>4. Ahead(n)
      BY <3>1, <3>3 DEF Ahead
    <3>5. QED
      BY <1>8, <3>1, <3>2, <3>4, StillCurrent DEF EditsInv
  <2>3. QED
    BY <2>1, <2>2
<1>11. DOMAIN machine' = Actors
  BY <1>2 DEF EditsInv, Pending
<1>12. Pending'
  BY <1>4, <1>5, <1>9, <1>10, <1>11 DEF Pending, IsOp, OneOrTwo, Kinds, Idle
<1>13. QED
  BY <1>8, <1>12 DEF EditsInv

LEMMA BootCurrent ==
  ASSUME EditsInv, NEW n \in Nodes, Boot(n)
  PROVE  EditsInv'
<1>1. /\ op[n] = Idle /\ cache' = [cache EXCEPT ![n] = store] /\ UNCHANGED <<store, machine>>
      /\ \/ \E d : Serve(n, d)
         \/ \E d : Begin(n, <<PutConfig(d)>>)
         \/ Begin(n, <<[do |-> "put_secret", name |-> "bootstrap_admin"], PutConfig(BootstrapText)>>)
  BY Zenon DEF Boot
<1>2. n \in Actors
  BY DEF Actors
<1>3. CASE \E d : Serve(n, d)
  <2>1. op' = op
    BY <1>3 DEF Serve
  <2>2. QED
    BY <1>1, <1>2, <2>1, OthersCurrent
<1>4. ASSUME NEW cmds, OneOrTwo(cmds), Begin(n, cmds)
      PROVE  EditsInv'
  <2> DEFINE none == {}
  <2>1. PICK x : Idle = [cmds |-> x, expect |-> {}, edit |-> none]
    BY DEF Idle
  <2> HIDE DEF none
  <2>2. op' = [op EXCEPT ![n] = [cmds |-> cmds, expect |-> {}, edit |-> none]]
    <3>1. [Idle EXCEPT !.cmds = cmds] = [cmds |-> cmds, expect |-> {}, edit |-> none]
      BY <2>1
    <3>2. QED
      BY <1>4, <3>1, Zenon DEF Begin
  <2>3. \A e \in none : n \in Nodes => Current(n, e)'
    BY DEF none
  <2>4. Copies' /\ \A b \in Actors : Ahead(b)
    BY <1>1, <1>2, CopiesStay, CopiesAhead DEF EditsInv
  <2>5. QED
    BY <1>1, <1>2, <1>4, <2>2, <2>3, <2>4, NowPending
<1>5. ASSUME NEW d
      PROVE  /\ OneOrTwo(<<PutConfig(d)>>)
             /\ OneOrTwo(<<[do |-> "put_secret", name |-> "bootstrap_admin"], PutConfig(d)>>)
  <2> DEFINE first == [do |-> "put_secret", name |-> "bootstrap_admin"]
  <2>1. first.do \in Kinds /\ PutConfig(d).do \in Kinds
    BY DEF PutConfig, Kinds, Others
  <2> HIDE DEF first
  <2>2. OneOrTwo(<<PutConfig(d)>>) /\ OneOrTwo(<<first, PutConfig(d)>>)
    BY <2>1 DEF OneOrTwo
  <2>3. QED
    BY <2>2 DEF first
<1>6. QED
  BY <1>1, <1>3, <1>4, <1>5

\* Files are uploaded by an operator who has nothing else to commit.
LEMMA FilesCurrent ==
  ASSUME EditsInv, NEW n \in Nodes, op[n] = Idle, PutCredentialFiles(n)
  PROVE  EditsInv'
<1>1. UNCHANGED <<store, cache, op>> /\ \E S : machine' = [machine EXCEPT ![n] = @ \cup S]
  BY DEF PutCredentialFiles
<1>2. DOMAIN machine' = Actors /\ \A b \in Actors : b # n => machine'[b] = machine[b]
  BY <1>1 DEF EditsInv, Pending
<1>3. Copies' /\ \A b \in Actors : Ahead(b)
  BY <1>1, CopiesStay, CopiesAhead DEF EditsInv
<1>4. Actors' = Actors /\ Nodes \subseteq Actors
  BY DEF Actors
<1>5. ASSUME NEW m \in Nodes, NEW e \in op'[m].edit
      PROVE  Current(m, e)'
  <2>1. m # n
    BY <1>1, <1>5 DEF Idle
  <2>2. Current(m, e)
    BY <1>1, <1>5 DEF EditsInv, Pending
  <2>3. QED
    BY <1>1, <1>2, <1>3, <1>4, <2>1, <2>2, StillCurrent DEF EditsInv
<1>6. DOMAIN op' = Actors /\ \A a \in Actors : IsOp(op'[a])
  BY <1>1 DEF EditsInv, Pending
<1>7. Pending'
  BY <1>2, <1>4, <1>5, <1>6 DEF Pending, IsOp, OneOrTwo, Kinds, Idle
<1>8. QED
  BY <1>3, <1>7 DEF EditsInv

LEMMA EditsStep == EditsInv /\ [Next]_vars => EditsInv'
<1> SUFFICES ASSUME EditsInv, [Next]_vars
             PROVE  EditsInv'
  OBVIOUS
<1>1. Nodes \subseteq Actors /\ Cli \in Actors
  BY DEF Actors
<1>2. ASSUME NEW n \in Nodes, Free(n), Edits(n) \/ Writes(n)
      PROVE  EditsInv'
  <2>1. op[n] = Idle
    BY <1>2 DEF Free
  <2>2. ASSUME Puts(n)
        PROVE  EditsInv'
    <3>1. PICK cmd, expect : cmd.do \in Kinds /\ Console(n, cmd, expect)
      BY <2>2 DEF Puts, Kinds
    <3>2. QED
      BY <1>1, <2>1, <3>1, WriteCurrent DEF Console
  <2>3. QED
    BY <1>2, <2>1, <2>2, EditsCompose, WritesCompose, EditCurrent, FilesCurrent DEF Revises
<1>3. CASE Free(Cli) /\ Commands
  <2>1. PICK cmd : cmd.do \in Kinds /\ Shell(cmd)
    BY <1>3, CommandsCompose DEF Told, PutConfig, Kinds
  <2>2. QED
    BY <1>1, <1>3, <2>1, WriteCurrent DEF Shell, Free
<1>4. ASSUME NEW n \in Nodes, Refresh(n) \/ RefreshKeys(n) \/ Adopt(n) \/ Crash(n) \/ Reload(n)
      PROVE  EditsInv'
  <2>1. /\ UNCHANGED <<store, machine>>
        /\ cache' = cache \/ cache' = [cache EXCEPT ![n] = store]
        /\ op' = op \/ op' = [op EXCEPT ![n] = Idle]
    BY <1>4 DEF Refresh, RefreshKeys, Adopt, Crash, Reload
  <2>2. QED
    BY <1>1, <2>1, OthersCurrent
<1>5. ASSUME NEW a \in Actors, CommitRefused(a) \/ CommitLost(a) \/ CommitFails(a)
      PROVE  EditsInv'
  <2>1. /\ UNCHANGED <<store, machine>>
        /\ cache' = cache \/ cache' = [cache EXCEPT ![a] = store]
        /\ op' = op \/ op' = [op EXCEPT ![a] = Idle]
    BY <1>5 DEF CommitRefused, CommitLost, CommitFails, nodeVars
  <2>2. QED
    BY <2>1, OthersCurrent
<1>6. CASE UNCHANGED vars
  BY <1>6, OthersCurrent DEF vars
<1>7. QED
  BY <1>2, <1>3, <1>4, <1>5, <1>6, WonCurrent, BootCurrent DEF Next, Commit

\* The store changes where a commit wins, and nowhere else.
LEMMA OnlyCommits ==
  ASSUME [Next]_vars, store' # store
  PROVE  \E a \in Actors : CommitWins(a)
<1>1. ASSUME NEW n \in Nodes, Edits(n) \/ Writes(n)
      PROVE  store' = store
  BY <1>1, EditsCompose, WritesCompose DEF Puts, Revises, Edit, Console, Write, PutCredentialFiles
<1>2. Commands => store' = store
  BY CommandsCompose DEF Shell, Write
<1>3. ASSUME NEW n \in Nodes,
             Refresh(n) \/ RefreshKeys(n) \/ Adopt(n) \/ Boot(n) \/ Crash(n) \/ Reload(n)
      PROVE  store' = store
  BY <1>3 DEF Refresh, RefreshKeys, Adopt, Boot, Crash, Reload
<1>4. ASSUME NEW a \in Actors, CommitRefused(a) \/ CommitLost(a) \/ CommitFails(a)
      PROVE  store' = store
  BY <1>4 DEF CommitRefused, CommitLost, CommitFails
<1>5. QED
  BY <1>1, <1>2, <1>3, <1>4 DEF Next, Commit, vars

\* An edit that is committed is made on the document as it is, and loads.
LEMMA Linearizes ==
  ASSUME EditsInv, [Next]_vars, NEW n \in Nodes, NEW e \in op[n].edit, Committed(n)
  PROVE  /\ store'.config = After(e, store.config)
         /\ Valid(store'.config, Env(n)')
<1>1. PICK a \in Actors : CommitWins(a)
  BY OnlyCommits DEF Committed
<1>2. /\ cache[a] = store /\ op' = [op EXCEPT ![a] = op'[a]]
      /\ a \in Nodes => \A x \in op[a].edit :
           /\ Drafted(a, x)
           /\ store'.config = After(x, Doc(a)) /\ store'.secrets = store.secrets
  BY <1>1, Won
<1>3. n = a
  <2>1. n \in Actors
    BY DEF Actors
  <2>2. n # a => op'[n] = op[n]
    BY <1>2, <2>1 DEF EditsInv, Pending
  <2>3. QED
    BY <2>2 DEF Committed
<1>4. /\ Drafted(n, e) /\ Doc(n) = store.config
      /\ store'.config = After(e, Doc(n)) /\ store'.secrets = store.secrets
  BY <1>2, <1>3 DEF Doc
<1>5. cache'[n] = store' /\ machine' = machine
  BY <1>1, <1>3 DEF CommitWins, EditsInv, Copies
<1>6. Env(n)' = Env(n)
  BY <1>2, <1>3, <1>4, <1>5 DEF Env, Readable
<1>7. After(e, Doc(n)) = After(e, store.config)
  BY <1>4
<1>8. QED
  BY <1>4, <1>6, <1>7 DEF Drafted

\* An edit made in the console is made on the document as it is when it is
\* committed, and what it makes loads where it was made: the draft insists on
\* the version it was read at, the copy of that version is the store while no
\* other commit is made, and one command is all there is to an edit.
THEOREM Linear == Spec => EditsLinearize
<1>1. EditsInv /\ [Next]_vars =>
        [\A n \in Nodes : \A e \in op[n].edit :
           Committed(n) =>
             /\ store'.config = After(e, store.config)
             /\ Valid(store'.config, Env(n)')]_vars
  BY Linearizes
<1>2. QED
  BY <1>1, EditsInit, EditsStep, PTL DEF Spec, EditsLinearize

-----------------------------------------------------------------------------
(* Induction: what holds of zero and of every next number is a set that has *)
(* all the numbers, as a number that is missing would leave a least one.    *)

LEMMA Least ==
  ASSUME NEW T \in SUBSET Nat, T # {}
  PROVE  \E m \in T : \A k \in T : m <= k
<1> DEFINE R == OpToRel(<, Nat)
<1>1. R = {ss \in Nat \X Nat : ss[1] < ss[2]}
  BY DEF OpToRel
<1>2. IsWellFoundedOn(R, Nat)
  BY NatLessThanWellFounded
<1> HIDE DEF R
<1>3. PICK x \in T : \A y \in T : ~ (<<y, x>> \in R)
  BY <1>2, WFMin
<1>4. \A y \in T : ~ (y < x)
  BY <1>1, <1>3
<1>5. QED
  BY <1>3, <1>4

LEMMA Climb ==
  ASSUME NEW T \in SUBSET Nat, 0 \in T, \A k \in T : k + 1 \in T
  PROVE  T = Nat
<1> SUFFICES ASSUME Nat \ T # {}
             PROVE  FALSE
  OBVIOUS
<1>1. PICK m \in Nat \ T : \A k \in Nat \ T : m <= k
  BY Least
<1>2. m # 0 /\ m - 1 \in Nat
  BY <1>1
<1>3. m - 1 \in T
  BY <1>1, <1>2
<1>4. m - 1 + 1 = m
  BY <1>1
<1>5. QED
  BY <1>1, <1>3, <1>4

\* A function of the numbers up to one may be defined by what it is of the number
\* before.
Iterate(f, N, X, x, G) ==
  /\ f \in [0 .. N -> X] /\ f[0] = x
  /\ \A k \in 1 .. N : f[k] = G[f[k - 1]]

LEMMA Iterates ==
  ASSUME NEW N \in Nat, NEW X, NEW x \in X, NEW G \in [X -> X]
  PROVE  \E f : Iterate(f, N, X, x, G)
<1> DEFINE T == {n \in Nat : \E f : Iterate(f, n, X, x, G)}
<1>1. 0 \in T
  <2> DEFINE f == [k \in 0 .. 0 |-> x]
  <2>1. Iterate(f, 0, X, x, G)
    BY DEF Iterate
  <2>2. QED
    BY <2>1
<1>2. ASSUME NEW n \in T
      PROVE  n + 1 \in T
  <2>1. PICK f : Iterate(f, n, X, x, G)
    BY <1>2
  <2> DEFINE g == [k \in 0 .. n + 1 |-> IF k = n + 1 THEN G[f[n]] ELSE f[k]]
  <2>2. n \in Nat /\ f[n] \in X
    BY <1>2, <2>1 DEF Iterate
  <2>3. g \in [0 .. n + 1 -> X]
    BY <2>1, <2>2 DEF Iterate
  <2>4. g[0] = x
    BY <2>1, <2>2 DEF Iterate
  <2>5. ASSUME NEW k \in 1 .. n + 1
        PROVE  g[k] = G[g[k - 1]]
    BY <2>1, <2>2, <2>5 DEF Iterate
  <2> HIDE DEF g
  <2>6. Iterate(g, n + 1, X, x, G)
    BY <2>3, <2>4, <2>5 DEF Iterate
  <2>7. QED
    BY <2>2, <2>3, <2>6
<1>3. T = Nat
  <2> HIDE DEF T
  <2>1. T \in SUBSET Nat
    BY DEF T
  <2>2. QED
    BY <1>1, <1>2, <2>1, Climb
<1>4. QED
  BY <1>3

-----------------------------------------------------------------------------
(* Aliases *)

Onward(d, x) == IF x \in DOMAIN d.aliases THEN d.aliases[x] ELSE x

\* The walk from a name, a step for each alias there is.
Path(d, ref, N, s) ==
  /\ N = Cardinality(DOMAIN d.aliases) /\ N \in Nat
  /\ s[0] = ref /\ Walk(d, ref) = s[N]
  /\ \A k \in 1 .. N : s[k] = Onward(d, s[k - 1])

LEMMA Paths ==
  ASSUME NEW d, NEW ref, IsFiniteSet(DOMAIN d.aliases)
  PROVE  \E N, s : Path(d, ref, N, s)
<1> DEFINE N == Cardinality(DOMAIN d.aliases)
<1> DEFINE X == {ref} \cup DOMAIN d.aliases \cup {d.aliases[x] : x \in DOMAIN d.aliases}
<1> DEFINE G == [x \in X |-> Onward(d, x)]
<1>1. N \in Nat
  BY FS_CardinalityType
<1>2. ref \in X /\ G \in [X -> X]
  BY DEF Onward
<1> HIDE DEF N
<1>3. \E f : f = [k \in 0 .. N |-> IF k = 0 THEN ref
                                 ELSE IF f[k - 1] \in DOMAIN d.aliases THEN d.aliases[f[k - 1]]
                                 ELSE f[k - 1]]
  <2> HIDE DEF X, G
  <2>1. PICK f : Iterate(f, N, X, ref, G)
    BY <1>1, <1>2, Iterates
  <2>2. f \in [0 .. N -> X] /\ f[0] = ref /\ \A k \in 1 .. N : f[k] = G[f[k - 1]]
    BY <2>1 DEF Iterate
  <2>3. f = [k \in 0 .. N |-> f[k]]
    BY <2>2
  <2>4. \A k \in 0 .. N : k # 0 => k \in 1 .. N /\ f[k - 1] \in X
    BY <1>1, <2>2
  <2>5. \A x \in X : G[x] = IF x \in DOMAIN d.aliases THEN d.aliases[x] ELSE x
    BY DEF G, Onward
  <2>6. f = [k \in 0 .. N |-> IF k = 0 THEN ref
                            ELSE IF f[k - 1] \in DOMAIN d.aliases THEN d.aliases[f[k - 1]]
                            ELSE f[k - 1]]
    BY <1>1, <2>2, <2>3, <2>4, <2>5
  <2>7. QED
    BY <2>6
<1> DEFINE step[k \in 0 .. N] ==
             IF k = 0 THEN ref
             ELSE IF step[k - 1] \in DOMAIN d.aliases THEN d.aliases[step[k - 1]] ELSE step[k - 1]
<1>4. Walk(d, ref) = step[N]
  BY DEF Walk, N
<1>5. step = [k \in 0 .. N |-> IF k = 0 THEN ref
                               ELSE IF step[k - 1] \in DOMAIN d.aliases THEN d.aliases[step[k - 1]]
                               ELSE step[k - 1]]
  BY <1>3
<1> HIDE DEF step
<1>6. Path(d, ref, N, step)
  BY <1>1, <1>4, <1>5 DEF Path, Onward, N
<1>7. QED
  BY <1>6

\* Where the walk leaves the aliases it stays.
LEMMA Settled ==
  ASSUME NEW d, NEW ref, NEW N, NEW s, Path(d, ref, N, s),
         NEW k \in 0 .. N, s[k] \notin DOMAIN d.aliases
  PROVE  \A j \in k .. N : s[j] = s[k]
<1> DEFINE T == {i \in Nat : k + i <= N => s[k + i] = s[k]}
<1>1. N \in Nat /\ k \in Nat
  BY DEF Path
<1>2. 0 \in T
  BY <1>1
<1>3. ASSUME NEW i \in T
      PROVE  i + 1 \in T
  <2>1. k + (i + 1) <= N => k + (i + 1) \in 1 .. N /\ k + (i + 1) - 1 = k + i
    BY <1>1
  <2>2. k + (i + 1) <= N => s[k + (i + 1)] = Onward(d, s[k + i])
    BY <2>1 DEF Path
  <2>3. QED
    BY <1>1, <2>2 DEF Onward
<1> HIDE DEF T
<1>4. T \in SUBSET Nat
  BY DEF T
<1>5. T = Nat
  BY <1>2, <1>3, <1>4, Climb
<1>6. ASSUME NEW j \in k .. N
      PROVE  s[j] = s[k]
  <2>1. j - k \in Nat /\ k + (j - k) = j /\ j <= N
    BY <1>1
  <2>2. QED
    BY <1>5, <2>1 DEF T
<1>7. QED
  BY <1>6

\* An alias of what is no alias is walked in one step.
LEMMA WalkOnce ==
  ASSUME NEW d, IsFiniteSet(DOMAIN d.aliases), NEW a \in DOMAIN d.aliases,
         d.aliases[a] \notin DOMAIN d.aliases
  PROVE  Walk(d, a) = d.aliases[a]
<1>1. PICK N, s : Path(d, a, N, s)
  BY Paths
<1>2. N \in Nat /\ N # 0
  BY <1>1, FS_EmptySet DEF Path
<1>3. 1 \in 0 .. N /\ N \in 1 .. N
  BY <1>2
<1>4. s[1] = d.aliases[a]
  BY <1>1, <1>2 DEF Path, Onward
<1>5. s[N] = s[1]
  BY <1>1, <1>3, <1>4, Settled
<1>6. QED
  BY <1>1, <1>4, <1>5 DEF Path

\* A walk from an alias that leaves the aliases ends at what an alias stands for.
LEMMA WalkEnds ==
  ASSUME NEW d, IsFiniteSet(DOMAIN d.aliases), NEW a \in DOMAIN d.aliases,
         Walk(d, a) \notin DOMAIN d.aliases
  PROVE  Walk(d, a) \in Range(d.aliases)
<1>1. PICK N, s : Path(d, a, N, s)
  BY Paths
<1> DEFINE T == {k \in 0 .. N : s[k] \notin DOMAIN d.aliases}
<1>2. N \in Nat
  BY <1>1 DEF Path
<1>3. N \in T /\ T \in SUBSET Nat
  BY <1>1, <1>2 DEF Path
<1>4. PICK m \in T : \A k \in T : m <= k
  <2> HIDE DEF T
  <2>1. QED
    BY <1>3, Least
<1>5. m # 0
  BY <1>1, <1>4 DEF Path
<1>6. m \in 1 .. N /\ m - 1 \in 0 .. N /\ m - 1 \notin T
  BY <1>2, <1>4, <1>5
<1>7. s[m] = d.aliases[s[m - 1]] /\ s[m - 1] \in DOMAIN d.aliases
  BY <1>1, <1>6 DEF Path, Onward
<1>8. s[m] \in Range(d.aliases)
  BY <1>7 DEF Range
<1>9. s[N] = s[m]
  <2>1. m \in 0 .. N /\ s[m] \notin DOMAIN d.aliases /\ N \in m .. N
    BY <1>2, <1>4
  <2>2. QED
    BY <1>1, <2>1, Settled
<1>10. QED
  BY <1>1, <1>8, <1>9 DEF Path

\* One alias gone, the others lead where they led if that is not to the one that
\* is gone.
LEMMA WalkStays ==
  ASSUME NEW d, NEW d1, NEW name, NEW a, IsFiniteSet(DOMAIN d.aliases),
         DOMAIN d1.aliases = DOMAIN d.aliases \ {name},
         \A x \in DOMAIN d1.aliases : d1.aliases[x] = d.aliases[x],
         Walk(d1, a) \notin DOMAIN d1.aliases, name \in DOMAIN d.aliases => Walk(d1, a) # name
  PROVE  Walk(d, a) = Walk(d1, a)
<1>1. /\ DOMAIN d1.aliases = DOMAIN d.aliases \ {name}
      /\ \A x \in DOMAIN d1.aliases : d1.aliases[x] = d.aliases[x]
  OBVIOUS
<1>2. IsFiniteSet(DOMAIN d1.aliases)
  BY <1>1, FS_Subset
<1>3. PICK N, s : Path(d, a, N, s)
  BY Paths
<1>4. PICK M, t : Path(d1, a, M, t)
  BY <1>2, Paths
<1>5. M \in Nat /\ N \in Nat /\ M <= N
  BY <1>1, <1>3, <1>4, FS_Subset DEF Path
<1>6. \A k \in 0 .. M : name \in DOMAIN d.aliases => t[k] # name
  <2> SUFFICES ASSUME NEW k \in 0 .. M, name \in DOMAIN d.aliases, t[k] = name
               PROVE  FALSE
    OBVIOUS
  <2>1. t[k] \notin DOMAIN d1.aliases
    BY <1>1
  <2>2. t[M] = t[k]
    <3>1. M \in k .. M
      BY <1>5
    <3>2. QED
      BY <1>4, <2>1, <3>1, Settled
  <2>3. QED
    BY <1>4, <2>2 DEF Path
<1> DEFINE T == {k \in Nat : k <= M => s[k] = t[k]}
<1>7. 0 \in T
  BY <1>3, <1>4 DEF Path
<1>8. ASSUME NEW k \in T
      PROVE  k + 1 \in T
  <2>1. k \in Nat
    OBVIOUS
  <2> SUFFICES ASSUME k + 1 <= M
               PROVE  s[k + 1] = t[k + 1]
    BY <2>1
  <2>2. k + 1 \in 1 .. M /\ k + 1 \in 1 .. N /\ (k + 1) - 1 = k /\ k \in 0 .. M /\ s[k] = t[k]
    BY <1>5, <2>1
  <2>3. s[k + 1] = Onward(d, s[k]) /\ t[k + 1] = Onward(d1, t[k])
    BY <1>3, <1>4, <2>2 DEF Path
  <2>4. t[k] \in DOMAIN d1.aliases <=> t[k] \in DOMAIN d.aliases
    BY <1>1, <1>6, <2>2
  <2>5. QED
    BY <1>1, <2>2, <2>3, <2>4 DEF Onward
<1>9. s[M] = t[M]
  <2> HIDE DEF T
  <2>1. T \in SUBSET Nat
    BY DEF T
  <2>2. T = Nat
    BY <1>7, <1>8, <2>1, Climb
  <2>3. QED
    BY <1>5, <2>2 DEF T
<1>10. s[M] \notin DOMAIN d.aliases
  <2>1. t[M] \notin DOMAIN d1.aliases /\ (name \in DOMAIN d.aliases => t[M] # name)
    BY <1>4 DEF Path
  <2>2. QED
    BY <1>1, <1>9, <2>1
<1>11. s[N] = s[M]
  <2>1. M \in 0 .. N /\ N \in M .. N
    BY <1>5
  <2>2. QED
    BY <1>3, <1>10, <2>1, Settled
<1>12. QED
  BY <1>3, <1>4, <1>9, <1>11 DEF Path

\* The models of a chain that are all configured are all tried.
LEMMA AllConfigured ==
  ASSUME NEW providers, NEW S, NEW chain \in Seq(S), \A x \in S : x[1] \in DOMAIN providers
  PROVE  Configured(providers, chain) = chain
<1> DEFINE n == Len(chain)
<1> DEFINE part == [i \in 0 .. n |-> [j \in 1 .. i |-> chain[j]]]
<1>1. n \in Nat /\ chain \in [1 .. n -> S] /\ chain = [j \in 1 .. n |-> chain[j]]
  BY LenProperties
<1>2. part[0] = << >> /\ part[n] = chain
  BY <1>1
<1>3. \A i \in 1 .. n : part[i] = Append(part[i - 1], chain[i])
  <2> SUFFICES ASSUME NEW i \in 1 .. n
               PROVE  part[i] = Append(part[i - 1], chain[i])
    OBVIOUS
  <2> DEFINE p == [j \in 1 .. i - 1 |-> chain[j]]
  <2>1. part[i] = [j \in 1 .. i |-> chain[j]] /\ part[i - 1] = p
    BY <1>1
  <2>2. p \in Seq(S) /\ Len(p) = i - 1 /\ i - 1 + 1 = i
    BY <1>1
  <2>3. Append(p, chain[i]) = [j \in 1 .. i |-> IF j = i THEN chain[i] ELSE p[j]]
    BY <1>1, <2>2
  <2>4. QED
    BY <1>1, <2>1, <2>3
<1>4. \A i \in 1 .. n : chain[i][1] \in DOMAIN providers
  BY <1>1
<1> DEFINE kept[i \in 0 .. n] ==
             IF i = 0 THEN << >>
             ELSE IF chain[i][1] \in DOMAIN providers THEN Append(kept[i - 1], chain[i])
             ELSE kept[i - 1]
<1>5. Configured(providers, chain) = kept[n]
  BY DEF Configured
<1> HIDE DEF n
<1>6. \E f : f = [i \in 0 .. n |->
                    IF i = 0 THEN << >>
                    ELSE IF chain[i][1] \in DOMAIN providers THEN Append(f[i - 1], chain[i])
                    ELSE f[i - 1]]
  <2>1. part = [i \in 0 .. n |->
                  IF i = 0 THEN << >>
                  ELSE IF chain[i][1] \in DOMAIN providers THEN Append(part[i - 1], chain[i])
                  ELSE part[i - 1]]
    <3>1. part = [i \in 0 .. n |-> part[i]]
      OBVIOUS
    <3>2. \A i \in 0 .. n : i = 0 \/ i \in 1 .. n
      BY <1>1
    <3> HIDE DEF part
    <3>3. QED
      BY <1>2, <1>3, <1>4, <3>1, <3>2
  <2>2. QED
    BY <2>1
<1> HIDE DEF part
<1>7. kept = [i \in 0 .. n |->
                IF i = 0 THEN << >>
                ELSE IF chain[i][1] \in DOMAIN providers THEN Append(kept[i - 1], chain[i])
                ELSE kept[i - 1]]
  BY <1>6
<1> HIDE DEF kept
<1> DEFINE T == {k \in Nat : k <= n => kept[k] = part[k]}
<1>8. 0 \in T
  BY <1>1, <1>2, <1>7
<1>9. ASSUME NEW k \in T
      PROVE  k + 1 \in T
  <2>1. k \in Nat
    OBVIOUS
  <2> SUFFICES ASSUME k + 1 <= n
               PROVE  kept[k + 1] = part[k + 1]
    BY <2>1
  <2>2. k + 1 \in 1 .. n /\ k + 1 \in 0 .. n /\ k + 1 # 0 /\ (k + 1) - 1 = k /\ kept[k] = part[k]
    BY <1>1, <2>1
  <2>3. kept[k + 1] = Append(kept[k], chain[k + 1])
    BY <1>4, <1>7, <2>2
  <2>4. part[k + 1] = Append(part[k], chain[k + 1])
    BY <1>3, <2>2
  <2>5. QED
    BY <2>2, <2>3, <2>4
<1>10. kept[n] = part[n]
  <2> HIDE DEF T
  <2>1. T \in SUBSET Nat
    BY DEF T
  <2>2. T = Nat
    BY <1>8, <1>9, <2>1, Climb
  <2>3. QED
    BY <1>1, <2>2 DEF T
<1>11. QED
  BY <1>2, <1>5, <1>10

-----------------------------------------------------------------------------
(* Routes *)

\* A function with some of its arguments taken away.
Narrows(g, f) == DOMAIN g \subseteq DOMAIN f /\ \A x \in DOMAIN g : g[x] = f[x]

\* What is left of a document where a route is written or deleted: the others,
\* and the chains but that of an alias that goes with nothing else named so.
Rerouted(d, d1, name) ==
  /\ IsFiniteSet(DOMAIN d.aliases) /\ ValidNames(d1) /\ d1.providers = d.providers
  /\ Narrows(d1.aliases, d.aliases) /\ DOMAIN d1.aliases = DOMAIN d.aliases \ {name}
  /\ Narrows(d1.fallbacks, d.fallbacks)
  /\ \A f \in DOMAIN d.fallbacks \ DOMAIN d1.fallbacks :
       name \in DOMAIN d.aliases /\ f = d.aliases[name] /\ f \notin Range(d1.aliases)
  /\ \A ref : ref # name =>
       /\ ref \in DOMAIN d1.groups <=> ref \in DOMAIN d.groups
       /\ ref \in DOMAIN d.groups => d1.groups[ref] = d.groups[ref]
  /\ name \in DOMAIN d.aliases => d.aliases[name] \notin DOMAIN d.aliases /\ ~IsTarget(name)

LEMMA TargetStays ==
  ASSUME NEW d, NEW d1, NEW name, Rerouted(d, d1, name), NEW ref, Resolvable(d1, ref)
  PROVE  Target(d, ref) = Target(d1, ref)
<1>1. Known(d1, Target(d1, ref)) /\ IsTarget(Target(d1, ref))
  BY DEF Resolvable, Known
<1>2. name \in DOMAIN d.aliases => Target(d1, ref) # name
  BY <1>1 DEF Rerouted
<1>3. CASE ref \in DOMAIN d1.aliases
  <2>1. Target(d1, ref) = Walk(d1, ref) /\ Target(d, ref) = Walk(d, ref)
    BY <1>3 DEF Target, Rerouted
  <2>2. Walk(d1, ref) \notin DOMAIN d1.aliases
    BY <1>3 DEF Rerouted, ValidNames, ValidAliases
  <2>3. Walk(d, ref) = Walk(d1, ref)
    BY <1>2, <2>1, <2>2, WalkStays DEF Rerouted, Narrows
  <2>4. QED
    BY <2>1, <2>3
<1>4. CASE ref \notin DOMAIN d1.aliases
  <2>1. Target(d1, ref) = ref
    BY <1>4 DEF Target
  <2>2. ref \notin DOMAIN d.aliases
    BY <1>2, <1>4, <2>1 DEF Rerouted
  <2>3. QED
    BY <2>1, <2>2 DEF Target
<1>5. QED
  BY <1>3, <1>4

\* The chain of what an alias that stays leads to stays.
LEMMA ChainStays ==
  ASSUME NEW d, NEW d1, NEW name, Rerouted(d, d1, name), NEW a \in DOMAIN d1.aliases
  PROVE  /\ Walk(d, a) = Walk(d1, a)
         /\ Chain(d, Walk(d, a)) = Chain(d1, Walk(d, a))
<1> DEFINE t == Walk(d, a)
<1>1. a \in DOMAIN d.aliases /\ IsFiniteSet(DOMAIN d1.aliases)
  BY FS_Subset DEF Rerouted, Narrows
<1>2. Walk(d1, a) \notin DOMAIN d1.aliases /\ Known(d1, Walk(d1, a))
  BY DEF Rerouted, ValidNames, ValidAliases
<1>3. t = Walk(d1, a)
  <2>1. Resolvable(d1, a) /\ Target(d1, a) = Walk(d1, a) /\ Target(d, a) = Walk(d, a)
    BY <1>1, <1>2 DEF Resolvable, Target
  <2>2. QED
    BY <2>1, TargetStays
<1>4. t \in Range(d1.aliases)
  BY <1>1, <1>2, <1>3, WalkEnds
<1> HIDE DEF t
<1> DEFINE F == {f \in DOMAIN d.fallbacks : Target(d, f) = t}
<1> DEFINE G == {f \in DOMAIN d1.fallbacks : Target(d1, f) = t}
<1>5. \A f \in DOMAIN d1.fallbacks :
        /\ Target(d, f) = Target(d1, f)
        /\ \A ref \in ToSet(d1.fallbacks[f]) : Target(d, ref) = Target(d1, ref)
  BY TargetStays DEF Rerouted, ValidNames, ValidFallbacks
<1>6. ASSUME NEW f \in DOMAIN d.fallbacks, f \notin DOMAIN d1.fallbacks
      PROVE  Target(d, f) # t
  <2>1. name \in DOMAIN d.aliases /\ f = d.aliases[name] /\ f \notin Range(d1.aliases)
        /\ f \notin DOMAIN d.aliases
    BY <1>6 DEF Rerouted
  <2>2. Target(d, f) = f
    BY <2>1 DEF Target
  <2>3. QED
    BY <1>4, <2>1, <2>2
<1>7. F = G
  <2>1. DOMAIN d1.fallbacks \subseteq DOMAIN d.fallbacks
    BY DEF Rerouted, Narrows
  <2>2. QED
    BY <1>5, <1>6, <2>1
<1>8. Chain(d, t) = IF F = {} THEN << >>
                    ELSE [i \in DOMAIN d.fallbacks[CHOOSE f \in F : TRUE] |->
                            Target(d, d.fallbacks[CHOOSE f \in F : TRUE][i])]
  BY DEF Chain
<1>9. Chain(d1, t) = IF G = {} THEN << >>
                     ELSE [i \in DOMAIN d1.fallbacks[CHOOSE f \in G : TRUE] |->
                             Target(d1, d1.fallbacks[CHOOSE f \in G : TRUE][i])]
  BY DEF Chain
<1>10. Chain(d, t) = Chain(d1, t)
  <2>1. CASE F = {}
    BY <1>7, <1>8, <1>9, <2>1
  <2>2. CASE F # {}
    <3> DEFINE first == CHOOSE f \in F : TRUE
    <3>1. first \in F
      BY <2>2
    <3>2. first = CHOOSE f \in G : TRUE
      BY <1>7
    <3>3. first \in DOMAIN d1.fallbacks
      BY <1>7, <3>1
    <3> HIDE DEF first, F, G
    <3>4. d1.fallbacks[first] = d.fallbacks[first]
      BY <3>3 DEF Rerouted, Narrows
    <3>5. \A i \in DOMAIN d.fallbacks[first] :
            Target(d, d.fallbacks[first][i]) = Target(d1, d1.fallbacks[first][i])
      BY <1>5, <3>3, <3>4 DEF ToSet
    <3>6. Chain(d, t) = [i \in DOMAIN d.fallbacks[first] |-> Target(d, d.fallbacks[first][i])]
      BY <1>8, <2>2 DEF first
    <3>7. Chain(d1, t) = [i \in DOMAIN d1.fallbacks[first] |-> Target(d1, d1.fallbacks[first][i])]
      BY <1>7, <1>9, <2>2, <3>2
    <3>8. QED
      BY <3>4, <3>5, <3>6, <3>7
  <2>3. QED
    BY <2>1, <2>2
<1>11. QED
  BY <1>3, <1>10 DEF t

LEMMA PoolStays ==
  ASSUME NEW d, NEW d1, NEW name, Rerouted(d, d1, name), NEW pool, ValidPool(d1, pool)
  PROVE  Pool(d, pool) = Pool(d1, pool)
<1>1. \A w \in ToSet(pool) : Target(d, w.target) = Target(d1, w.target)
  BY TargetStays DEF ValidPool
<1>2. {Target(d, w.target) : w \in ToSet(pool)} = {Target(d1, w.target) : w \in ToSet(pool)}
  BY <1>1
<1>3. \A t : Routable(d, t) <=> Routable(d1, t)
  BY DEF Routable, Rerouted
<1>4. QED
  BY <1>2, <1>3 DEF Pool

\* The plan of a group or an alias that is not the one written or deleted stays.
LEMMA PlanStays ==
  ASSUME NEW d, NEW d1, NEW name, Rerouted(d, d1, name), NEW ref \in Names(d), ref # name
  PROVE  Plan(d1, ref) = Plan(d, ref)
<1>1. CASE ref \in DOMAIN d.groups
  <2> DEFINE g == d.groups[ref]
  <2>1. ref \in DOMAIN d1.groups /\ d1.groups[ref] = g
    BY <1>1 DEF Rerouted
  <2>2. ValidPool(d1, g.primary) /\ ValidPool(d1, g.fallback)
    BY <2>1 DEF Rerouted, ValidNames, ValidGroups
  <2>3. Pool(d, g.primary) = Pool(d1, g.primary) /\ Pool(d, g.fallback) = Pool(d1, g.fallback)
    BY <2>2, PoolStays
  <2>4. Plan(d, ref) = Tier(Pool(d, g.primary)) \o Tier(Pool(d, g.fallback))
    BY <1>1 DEF Plan
  <2>5. Plan(d1, ref) = Tier(Pool(d1, g.primary)) \o Tier(Pool(d1, g.fallback))
    BY <2>1 DEF Plan
  <2>6. QED
    BY <2>3, <2>4, <2>5
<1>2. CASE ref \notin DOMAIN d.groups
  <2>1. ref \in DOMAIN d.aliases /\ ref \in DOMAIN d1.aliases /\ ref \notin DOMAIN d1.groups
    BY <1>2 DEF Names, Rerouted
  <2> DEFINE primary == Walk(d, ref)
  <2>2. primary = Walk(d1, ref) /\ Chain(d, primary) = Chain(d1, primary)
    BY <2>1, ChainStays
  <2>3. Reached(d, primary) = Reached(d1, primary)
    BY <2>2 DEF Reached, Rerouted
  <2>4. Routable(d, primary) <=> Routable(d1, primary)
    BY DEF Routable, Rerouted
  <2>5. Plan(d, ref) = IF primary = << >> \/ ~Routable(d, primary) THEN << >>
                       ELSE [i \in {1} \cup {j + 1 : j \in DOMAIN Reached(d, primary)} |->
                               IF i = 1 THEN {primary} ELSE {Reached(d, primary)[i - 1]}]
    BY <1>2, <2>1, Zenon DEF Plan
  <2>6. Plan(d1, ref) = IF primary = << >> \/ ~Routable(d1, primary) THEN << >>
                        ELSE [i \in {1} \cup {j + 1 : j \in DOMAIN Reached(d1, primary)} |->
                                IF i = 1 THEN {primary} ELSE {Reached(d1, primary)[i - 1]}]
    BY <2>1, <2>2, Zenon DEF Plan
  <2> HIDE DEF primary
  <2>7. QED
    BY <2>3, <2>4, <2>5, <2>6
<1>3. QED
  BY <1>1, <1>2

\* One tier, and one before another.
LEMMA Tiers ==
  ASSUME NEW P, NEW Q, P # {}
  PROVE  /\ (Tier(P) \o Tier(Q))[1] = P
         /\ Targets(Tier(P) \o Tier(Q)) = P \cup Q
<1> DEFINE S == {P, Q}
<1>1. Tier(P) = <<P>> /\ Tier(Q) = IF Q = {} THEN << >> ELSE <<Q>>
  BY DEF Tier
<1>2. <<P>> \in Seq(S) /\ Len(<<P>>) = 1 /\ <<P>>[1] = P /\ <<Q>> \in Seq(S) /\ Len(<<Q>>) = 1
      /\ <<Q>>[1] = Q
  OBVIOUS
<1> HIDE DEF S
<1>3. CASE Q = {}
  <2>1. Tier(P) \o Tier(Q) = <<P>>
    BY <1>1, <1>2, <1>3, ConcatEmptySeq
  <2>2. ToSet(<<P>>) = {P} /\ UNION {P} = P
    BY DEF ToSet
  <2>3. QED
    BY <1>2, <1>3, <2>1, <2>2 DEF Targets
<1>4. CASE Q # {}
  <2> DEFINE R == <<P>> \o <<Q>>
  <2>1. R \in Seq(S) /\ Len(R) = 2 /\ R[1] = P /\ R[2] = Q
    <3>1. /\ R \in Seq(S) /\ Len(R) = Len(<<P>>) + Len(<<Q>>)
          /\ \A i \in 1 .. Len(<<P>>) + Len(<<Q>>) :
               R[i] = IF i <= Len(<<P>>) THEN <<P>>[i] ELSE <<Q>>[i - Len(<<P>>)]
      BY <1>2, ConcatProperties
    <3> HIDE DEF R
    <3>2. QED
      BY <1>2, <3>1
  <2> HIDE DEF R
  <2>2. DOMAIN R = {1, 2}
    <3>1. DOMAIN R = 1 .. 2
      BY <2>1, LenProperties
    <3>2. QED
      BY <3>1
  <2>3. ToSet(R) = {P, Q} /\ UNION {P, Q} = P \cup Q
    BY <2>1, <2>2 DEF ToSet
  <2>4. Tier(P) \o Tier(Q) = R
    BY <1>1, <1>4 DEF R
  <2>5. QED
    BY <2>1, <2>3, <2>4 DEF Targets
<1>5. QED
  BY <1>3, <1>4

\* A route that is saved as an alias is shown leads to what the alias led to, and
\* falls back on what it fell back on.
LEMMA ShownStays ==
  ASSUME NEW d, NEW d1, NEW name, Rerouted(d, d1, name), IsDocument(d), ValidNames(d),
         name \in DOMAIN d.aliases, name \in DOMAIN d1.groups,
         d1.groups[name] = [primary |-> Listed(d, name).primary, fallback |-> Listed(d, name).fallback]
  PROVE  /\ Plan(d1, name)[1] = Plan(d, name)[1]
         /\ Targets(Plan(d1, name)) = Targets(Plan(d, name))
<1> DEFINE p == d.aliases[name]
<1> DEFINE chain == Chain(d, p)
<1> DEFINE C == ToSet(chain)
<1>1. Walk(d, name) = p /\ p \notin DOMAIN d.aliases
  BY WalkOnce DEF Rerouted
<1>2. Known(d, p) /\ name \notin DOMAIN d.groups
  BY <1>1 DEF ValidNames, ValidAliases, ValidGroups
<1>3. \A t : Routable(d, t) <=> Routable(d1, t)
  BY DEF Routable, Rerouted
<1>4. \A t : t \notin DOMAIN d.aliases => Target(d1, t) = t
  BY DEF Target, Rerouted
<1>5. Routable(d, p) /\ p # << >>
  BY <1>2, KnownIsRouted
<1>6. /\ chain \in Seq(C)
      /\ \A t \in C : Routable(d, t) /\ t \notin DOMAIN d.aliases
  <2> DEFINE F == {f \in DOMAIN d.fallbacks : Target(d, f) = p}
  <2> DEFINE first == CHOOSE f \in F : TRUE
  <2>1. chain = IF F = {} THEN << >>
                ELSE [i \in DOMAIN d.fallbacks[first] |-> Target(d, d.fallbacks[first][i])]
    BY DEF Chain
  <2>2. CASE F = {}
    <3>1. chain = << >> /\ C = {}
      BY <2>1, <2>2 DEF ToSet
    <3>2. QED
      BY <3>1
  <2>3. CASE F # {}
    <3>1. first \in DOMAIN d.fallbacks
      BY <2>3
    <3> DEFINE refs == d.fallbacks[first]
    <3>2. chain = [i \in DOMAIN refs |-> Target(d, refs[i])]
      BY <2>1, <2>3
    <3> HIDE DEF first, F
    <3>3. refs \in Seq(ToSet(refs))
      BY <3>1 DEF IsDocument
    <3>4. \A ref \in ToSet(refs) : Resolvable(d, ref)
      BY <3>1 DEF ValidNames, ValidFallbacks
    <3>5. PICK n \in Nat : DOMAIN refs = 1 .. n
      BY <3>3, LenProperties
    <3> HIDE DEF refs, chain
    <3>6. chain \in [1 .. n -> C]
      BY <3>2, <3>5 DEF ToSet
    <3>7. chain \in Seq(C)
      BY <3>6, SeqDef
    <3>8. \A t \in C : \E ref \in ToSet(refs) : t = Target(d, ref)
      BY <3>2 DEF ToSet
    <3>9. \A ref \in ToSet(refs) : Routable(d, Target(d, ref)) /\ Target(d, ref) \notin DOMAIN d.aliases
      BY <3>4, KnownIsRouted DEF Resolvable, Target, ValidNames, ValidAliases
    <3>10. QED
      BY <3>7, <3>8, <3>9
  <2>4. QED
    BY <2>2, <2>3
<1> HIDE DEF C, chain
<1>7. Reached(d, p) = chain
  <2>1. \A t \in C : t[1] \in DOMAIN d.providers
    BY <1>6 DEF Routable
  <2>2. QED
    BY <1>6, <2>1, AllConfigured DEF Reached, chain
<1>8. Plan(d, name) = [i \in {1} \cup {j + 1 : j \in DOMAIN chain} |->
                         IF i = 1 THEN {p} ELSE {chain[i - 1]}]
  <2>1. Plan(d, name) = IF p = << >> \/ ~Routable(d, p) THEN << >>
                        ELSE [i \in {1} \cup {j + 1 : j \in DOMAIN Reached(d, p)} |->
                                IF i = 1 THEN {p} ELSE {Reached(d, p)[i - 1]}]
    BY <1>1, <1>2, Zenon DEF Plan
  <2> HIDE DEF p
  <2>2. QED
    BY <1>5, <1>7, <2>1
<1>9. Plan(d, name)[1] = {p} /\ Targets(Plan(d, name)) = {p} \cup C
  <2> DEFINE plan == Plan(d, name)
  <2> HIDE DEF p
  <2>1. PICK n \in Nat : DOMAIN chain = 1 .. n
    BY <1>6, LenProperties
  <2>2. plan[1] = {p} /\ 1 \in DOMAIN plan
    BY <1>8
  <2>3. \A j \in DOMAIN chain : j + 1 \in DOMAIN plan /\ plan[j + 1] = {chain[j]}
    BY <1>8, <2>1
  <2>4. \A i \in DOMAIN plan : i = 1 \/ \E j \in DOMAIN chain : i = j + 1
    BY <1>8
  <2> HIDE DEF plan
  <2>5. ToSet(plan) = {{p}} \cup {{chain[j]} : j \in DOMAIN chain}
    BY <2>2, <2>3, <2>4 DEF ToSet
  <2>6. UNION ToSet(plan) = {p} \cup C
    <3>1. C = {chain[j] : j \in DOMAIN chain}
      BY DEF C, ToSet
    <3>2. \A x : x \in UNION ToSet(plan) <=> x \in {p} \/ \E j \in DOMAIN chain : x \in {chain[j]}
      BY <2>5
    <3>3. QED
      BY <3>1, <3>2
  <2>7. QED
    BY <2>2, <2>6 DEF plan, Targets
<1> DEFINE g == d1.groups[name]
<1>10. Pool(d1, g.primary) = {p}
  <2>1. g.primary = [i \in DOMAIN <<p>> |-> Weighted(<<p>>[i])]
    BY <1>1 DEF Listed
  <2>2. ToSet(g.primary) = {Weighted(p)}
    BY <2>1 DEF ToSet
  <2>3. Weighted(p).target = p
    BY DEF Weighted
  <2>4. {Target(d1, w.target) : w \in ToSet(g.primary)} = {p}
    BY <1>1, <1>4, <2>2, <2>3
  <2>5. QED
    BY <1>3, <1>5, <2>4 DEF Pool
<1>11. Pool(d1, g.fallback) = C
  <2>1. g.fallback = [i \in DOMAIN chain |-> Weighted(chain[i])]
    BY <1>1 DEF Listed, chain
  <2>2. ToSet(g.fallback) = {Weighted(t) : t \in C}
    BY <2>1 DEF ToSet, C
  <2>3. \A t : Weighted(t).target = t
    BY DEF Weighted
  <2>4. {Target(d1, w.target) : w \in ToSet(g.fallback)} = C
    BY <1>4, <1>6, <2>2, <2>3
  <2>5. QED
    BY <1>3, <1>6, <2>4 DEF Pool
<1>12. Plan(d1, name) = Tier({p}) \o Tier(C)
  BY <1>10, <1>11 DEF Plan
<1>13. Plan(d1, name)[1] = {p} /\ Targets(Plan(d1, name)) = {p} \cup C
  BY <1>12, Tiers
<1>14. QED
  BY <1>9, <1>13

-----------------------------------------------------------------------------
(* What is written *)

Sound(d) == IsDocument(d) /\ ValidNames(d)

\* A document that is to be written.
Written(cmds) == \A i \in DOMAIN cmds : cmds[i].do = "put_config" => Sound(cmds[i].text)

DocsInv ==
  /\ Sound(store.config)
  /\ \A a \in Actors : Sound(cache[a].config) /\ Written(op[a].cmds)

LEMMA DocsInit == Init => DocsInv
<1> SUFFICES ASSUME Init
             PROVE  DocsInv
  OBVIOUS
<1>1. PICK s \in Starts : store = s.store
  BY DEF Init
<1>2. Sound(store.config)
  BY <1>1, DirectoryAssumption DEF DirectoryAssumption, Sound
<1>3. cache = [a \in Actors |-> store] /\ op = [a \in Actors |-> Idle]
  BY DEF Init
<1>4. Written(Idle.cmds)
  BY DEF Idle, Written
<1>5. QED
  BY <1>2, <1>3, <1>4 DEF DocsInv

\* The documents a node makes up.
LEMMA BootstrapSound == Sound(BootstrapText)
<1>1. DOMAIN BootstrapText = DOMAIN EmptyDocument
  BY DEF BootstrapText, EmptyDocument
<1>2. BootstrapText.aliases = << >> /\ BootstrapText.fallbacks = << >>
  BY DEF BootstrapText, EmptyDocument
<1>3. DOMAIN << >> = {}
  OBVIOUS
<1>4. QED
  BY <1>1, <1>2, <1>3, FS_EmptySet, MadeUpServes DEF Sound, IsDocument

\* An alias that goes leaves a document.
LEMMA DocumentWithout ==
  ASSUME NEW d, IsDocument(d), NEW name
  PROVE  IsDocument(WithoutAlias(d, name))
<1>1. CASE name \notin DOMAIN d.aliases
  BY <1>1 DEF WithoutAlias
<1>2. CASE name \in DOMAIN d.aliases
  <2> DEFINE w == WithoutAlias(d, name)
  <2> DEFINE others == Without(d.aliases, {name})
  <2>1. \E f : w = [d EXCEPT !.aliases = others, !.fallbacks = f]
                /\ (f = d.fallbacks \/ f = Without(d.fallbacks, {d.aliases[name]}))
    BY <1>2 DEF WithoutAlias
  <2>2. PICK f : w = [d EXCEPT !.aliases = others, !.fallbacks = f]
                 /\ (f = d.fallbacks \/ f = Without(d.fallbacks, {d.aliases[name]}))
    BY <2>1
  <2> HIDE DEF w
  <2>3. DOMAIN others \subseteq DOMAIN d.aliases
    BY DEF Without, Restrict
  <2>4. DOMAIN f \subseteq DOMAIN d.fallbacks /\ \A x \in DOMAIN f : f[x] = d.fallbacks[x]
    BY <2>2 DEF Without, Restrict
  <2> HIDE DEF others
  <2>5. DOMAIN w = DOMAIN d /\ w.aliases = others /\ w.fallbacks = f
    BY <2>2 DEF IsDocument, EmptyDocument
  <2>6. IsFiniteSet(DOMAIN others)
    BY <2>3, FS_Subset DEF IsDocument
  <2>7. QED
    BY <2>4, <2>5, <2>6 DEF IsDocument, w
<1>3. QED
  BY <1>1, <1>2

\* An edit of a document makes a document.
LEMMA DocumentAfter ==
  ASSUME NEW d, IsDocument(d), NEW e, IsEdit(e)
  PROVE  IsDocument(After(e, d))
<1>1. ASSUME NEW x, DOMAIN x = DOMAIN d, x.aliases = d.aliases, x.fallbacks = d.fallbacks
      PROVE  IsDocument(x)
  BY <1>1 DEF IsDocument
<1>2. ASSUME NEW x
      PROVE  IsDocument([d EXCEPT !.providers = x])
  <2> DEFINE y == [d EXCEPT !.providers = x]
  <2>1. DOMAIN y = DOMAIN d /\ y.aliases = d.aliases /\ y.fallbacks = d.fallbacks
    BY DEF IsDocument, EmptyDocument
  <2> HIDE DEF y
  <2>2. IsDocument(y)
    BY <1>1, <2>1
  <2>3. QED
    BY <2>2 DEF y
<1>3. ASSUME NEW x
      PROVE  IsDocument([d EXCEPT !.tenants = x])
  <2> DEFINE y == [d EXCEPT !.tenants = x]
  <2>1. DOMAIN y = DOMAIN d /\ y.aliases = d.aliases /\ y.fallbacks = d.fallbacks
    BY DEF IsDocument, EmptyDocument
  <2> HIDE DEF y
  <2>2. IsDocument(y)
    BY <1>1, <2>1
  <2>3. QED
    BY <2>2 DEF y
<1>4. ASSUME NEW x
      PROVE  IsDocument([d EXCEPT !.groups = x])
  <2> DEFINE y == [d EXCEPT !.groups = x]
  <2>1. DOMAIN y = DOMAIN d /\ y.aliases = d.aliases /\ y.fallbacks = d.fallbacks
    BY DEF IsDocument, EmptyDocument
  <2> HIDE DEF y
  <2>2. IsDocument(y)
    BY <1>1, <2>1
  <2>3. QED
    BY <2>2 DEF y
<1>5. CASE e.what = "put_config"
  <2>1. After(e, d) = e.draft
    BY <1>5 DEF After
  <2>2. QED
    BY <1>5, <2>1, DirectoryAssumption DEF IsEdit, DirectoryAssumption
<1>6. CASE e.what = "put_route"
  <2> DEFINE g == With(d.groups, e.route.name,
                       [primary |-> e.route.primary, fallback |-> e.route.fallback])
  <2>1. After(e, d) = WithoutAlias([d EXCEPT !.groups = g], e.route.name)
    BY <1>6 DEF After
  <2> HIDE DEF g
  <2>2. IsDocument([d EXCEPT !.groups = g])
    BY <1>4
  <2>3. QED
    BY <2>1, <2>2, DocumentWithout
<1>7. CASE e.what = "delete_route"
  <2> DEFINE g == Without(d.groups, {e.ref})
  <2>1. After(e, d) = WithoutAlias([d EXCEPT !.groups = g], e.ref)
    BY <1>7 DEF After
  <2> HIDE DEF g
  <2>2. IsDocument([d EXCEPT !.groups = g])
    BY <1>4
  <2>3. QED
    BY <2>1, <2>2, DocumentWithout
<1>8. CASE e.what \in {"create_tenant", "delete_tenant"}
  <2>1. \E x : After(e, d) = [d EXCEPT !.tenants = x]
    BY <1>8 DEF After
  <2>2. QED
    BY <1>3, <2>1
<1>9. CASE e.what \in {"create_provider", "update_provider", "delete_provider"}
  <2>1. \E x : After(e, d) = [d EXCEPT !.providers = x]
    BY <1>9 DEF After
  <2>2. QED
    BY <1>2, <2>1
<1>10. CASE e.what \in {"set_account_tenant", "add_provider_keys", "add_provider_key",
                       "delete_provider_keys", "add_model", "delete_model"}
  <2>1. \A p, k : \E x : OfProvider(d, p, k) = [d EXCEPT !.providers = x]
    BY DEF OfProvider
  <2>2. \E p, k : After(e, d) = OfProvider(d, p, k)
    BY <1>10 DEF After
  <2>3. QED
    BY <1>2, <2>1, <2>2
<1>11. QED
  BY <1>5, <1>6, <1>7, <1>8, <1>9, <1>10 DEF IsEdit, EditKinds

\* A document that is sound may be written, and any other command.
LEMMA MayWrite ==
  /\ \A d : Sound(d) => Written(<<PutConfig(d)>>)
  /\ \A cmd : cmd.do \in Others => Written(<<cmd>>)
  /\ Written(<<[do |-> "put_secret", name |-> "bootstrap_admin"], PutConfig(BootstrapText)>>)
<1>1. \A d : PutConfig(d).do = "put_config" /\ PutConfig(d).text = d
  BY DEF PutConfig
<1>2. ASSUME NEW cmd, cmd.do = "put_config" => Sound(cmd.text)
      PROVE  Written(<<cmd>>)
  <2>1. DOMAIN <<cmd>> = {1} /\ <<cmd>>[1] = cmd
    OBVIOUS
  <2>2. QED
    BY <1>2, <2>1 DEF Written
<1>3. ASSUME NEW x, NEW y, x.do # "put_config", Sound(y.text)
      PROVE  Written(<<x, y>>)
  <2>1. \A i \in DOMAIN <<x, y>> : <<x, y>>[i] = x \/ <<x, y>>[i] = y
    OBVIOUS
  <2>2. QED
    BY <1>3, <2>1 DEF Written
<1>4. \A cmd : cmd.do \in Others => Written(<<cmd>>)
  BY <1>2 DEF Others
<1>5. \A d : Sound(d) => Written(<<PutConfig(d)>>)
  BY <1>1, <1>2
<1>6. [do |-> "put_secret", name |-> "bootstrap_admin"].do # "put_config"
  OBVIOUS
<1>7. QED
  BY <1>1, <1>3, <1>4, <1>5, <1>6, BootstrapSound

\* Whoever reads a copy anew reads what was written.
LEMMA DocsStay ==
  ASSUME EditsInv, DocsInv, UNCHANGED store,
         cache' = cache \/ \E a \in Actors : cache' = [cache EXCEPT ![a] = store],
         op' = op \/ \E a \in Actors : \E o : op' = [op EXCEPT ![a] = o] /\ Written(o.cmds)
  PROVE  DocsInv'
<1>1. \A a \in Actors : cache'[a] = cache[a] \/ cache'[a] = store
  BY DEF EditsInv, Copies
<1>2. \A a \in Actors : op'[a] = op[a] \/ Written(op'[a].cmds)
  <2>1. CASE op' = op
    BY <2>1
  <2>2. ASSUME NEW b \in Actors, NEW o, op' = [op EXCEPT ![b] = o], Written(o.cmds)
        PROVE  \A a \in Actors : op'[a] = op[a] \/ Written(op'[a].cmds)
    <3>1. op'[b] = o /\ \A a \in Actors : a # b => op'[a] = op[a]
      BY <2>2 DEF EditsInv, Pending
    <3>2. QED
      BY <2>2, <3>1
  <2>3. QED
    BY <2>1, <2>2
<1>3. \A a \in Actors : Sound(cache'[a].config) /\ Written(op'[a].cmds)
  BY <1>1, <1>2 DEF DocsInv
<1>4. Sound(store'.config) /\ Actors' = Actors
  BY DEF DocsInv, Actors
<1>5. QED
  BY <1>3, <1>4 DEF DocsInv, Written, Sound

LEMMA DocsIdle == Written(Idle.cmds)
BY DEF Written, Idle

\* A commit writes what was to be written.
LEMMA DocsWon ==
  ASSUME EditsInv, DocsInv, NEW a \in Actors, CommitWins(a)
  PROVE  DocsInv'
<1> DEFINE c == Head(op[a].cmds)
<1> DEFINE rest == Tail(op[a].cmds)
<1>1. op[a] # Idle /\ cache[a].version = store.version
  BY DEF CommitWins, Wins
<1>2. /\ store' = Apply(store, c) /\ cache' = [cache EXCEPT ![a] = store']
      /\ op' = [op EXCEPT ![a] = IF rest = << >> THEN Idle ELSE [@ EXCEPT !.cmds = rest]]
  BY DEF CommitWins
<1>3. IsStore(store) /\ DOMAIN cache = Actors /\ DOMAIN op = Actors /\ IsOp(op[a])
  BY DEF EditsInv, Copies, Pending
<1>4. /\ c.do \in Kinds /\ (c.do = "put_config" => Sound(c.text))
      /\ Written(rest)
  <2>1. PICK x : /\ x.do \in Kinds
                 /\ \/ op[a].cmds = <<x>>
                    \/ \E b : b.do \in Kinds /\ op[a].cmds = <<x, b>>
    BY <1>1, <1>3 DEF IsOp, OneOrTwo
  <2>2. Written(op[a].cmds)
    BY DEF DocsInv
  <2>3. CASE op[a].cmds = <<x>>
    <3>1. c = x /\ rest = << >> /\ DOMAIN op[a].cmds = {1} /\ op[a].cmds[1] = x /\ DOMAIN rest = {}
      BY <2>3
    <3> HIDE DEF c, rest
    <3>2. QED
      BY <2>1, <2>2, <3>1 DEF Written
  <2>4. ASSUME NEW b, op[a].cmds = <<x, b>>
        PROVE  (c.do = "put_config" => Sound(c.text)) /\ Written(rest) /\ c = x
    <3>1. c = x /\ rest = <<b>> /\ DOMAIN op[a].cmds = {1, 2} /\ op[a].cmds[1] = x
          /\ op[a].cmds[2] = b
      BY <2>4
    <3>2. DOMAIN <<b>> = {1} /\ <<b>>[1] = b
      OBVIOUS
    <3> HIDE DEF c, rest
    <3>3. QED
      BY <2>2, <3>1, <3>2 DEF Written
  <2> HIDE DEF c, rest
  <2>5. QED
    BY <2>1, <2>3, <2>4
<1> HIDE DEF c, rest
<1>5. Sound(store'.config)
  <2>1. CASE c.do = "put_config"
    <3>1. store'.config = c.text
      BY <1>2, <1>3, <1>4, <2>1, Applied
    <3>2. QED
      BY <1>4, <2>1, <3>1
  <2>2. CASE c.do # "put_config"
    <3>1. store'.config = store.config
      BY <1>2, <1>3, <1>4, <2>2, AppliedElse DEF Kinds
    <3>2. QED
      BY <3>1 DEF DocsInv
  <2>3. QED
    BY <2>1, <2>2
<1>6. \A b \in Actors : cache'[b] = cache[b] \/ cache'[b] = store'
  BY <1>2, <1>3
<1>7. \A b \in Actors : op'[b] = op[b] \/ Written(op'[b].cmds)
  <2>1. \A b \in Actors : b # a => op'[b] = op[b]
    BY <1>2, <1>3
  <2>2. op'[a] = IF rest = << >> THEN Idle ELSE [op[a] EXCEPT !.cmds = rest]
    BY <1>2, <1>3
  <2>3. [op[a] EXCEPT !.cmds = rest].cmds = rest
    <3>1. PICK x, y, z : op[a] = [cmds |-> x, expect |-> y, edit |-> z]
      BY <1>3 DEF IsOp
    <3>2. QED
      BY <3>1
  <2>4. Written(op'[a].cmds)
    BY <1>4, <2>2, <2>3, DocsIdle
  <2>5. QED
    BY <2>1, <2>4
<1>8. \A b \in Actors : Sound(cache'[b].config) /\ Written(op'[b].cmds)
  BY <1>5, <1>6, <1>7 DEF DocsInv
<1>9. Actors' = Actors
  BY DEF Actors
<1>10. QED
  BY <1>5, <1>8, <1>9 DEF DocsInv, Written, Sound

LEMMA DocsStep == EditsInv /\ DocsInv /\ [Next]_vars => DocsInv'
<1> SUFFICES ASSUME EditsInv, DocsInv, [Next]_vars
             PROVE  DocsInv'
  OBVIOUS
<1>1. Nodes \subseteq Actors /\ Cli \in Actors
  BY DEF Actors
<1>2. ASSUME NEW a \in Actors, NEW cmds, Written(cmds), NEW x, NEW y,
             op' = [op EXCEPT ![a] = [cmds |-> cmds, expect |-> x, edit |-> y]],
             UNCHANGED store, cache' = cache \/ cache' = [cache EXCEPT ![a] = store]
      PROVE  DocsInv'
  <2> DEFINE o == [cmds |-> cmds, expect |-> x, edit |-> y]
  <2>1. o.cmds = cmds
    OBVIOUS
  <2>2. op' = [op EXCEPT ![a] = o]
    BY <1>2
  <2> HIDE DEF o
  <2>3. QED
    BY <1>2, <2>1, <2>2, DocsStay
<1>3. ASSUME NEW n \in Nodes, Edits(n)
      PROVE  DocsInv'
  <2>1. PICK e : IsEdit(e) /\ Edit(n, e)
    BY <1>3, EditsCompose DEF Revises
  <2> DEFINE d == After(e, Doc(n))
  <2>2. IsDocument(Doc(n))
    BY <1>1 DEF DocsInv, Sound, Doc
  <2>3. IsDocument(d)
    BY <2>1, <2>2, DocumentAfter
  <2>4. Valid(d, Env(n)) /\ UNCHANGED <<store, cache>>
        /\ op' = [op EXCEPT ![n] = [cmds |-> <<PutConfig(d)>>, expect |-> Insists(n), edit |-> {e}]]
    BY <2>1 DEF Edit, Compose
  <2> HIDE DEF d
  <2>5. Written(<<PutConfig(d)>>)
    BY <2>3, <2>4, MayWrite, ValidServes DEF Sound
  <2>6. QED
    BY <1>1, <1>2, <2>4, <2>5
<1>4. ASSUME NEW a \in Actors, NEW cmd, NEW expect, Written(<<cmd>>), Write(a, cmd, expect),
             cache' = cache \/ cache' = [cache EXCEPT ![a] = store]
      PROVE  DocsInv'
  <2>1. UNCHANGED store
        /\ op' = [op EXCEPT ![a] = [cmds |-> <<cmd>>, expect |-> expect, edit |-> {}]]
    BY <1>4 DEF Write, Compose
  <2> DEFINE none == {}
  <2>2. op' = [op EXCEPT ![a] = [cmds |-> <<cmd>>, expect |-> expect, edit |-> none]]
    BY <2>1
  <2> HIDE DEF none
  <2> DEFINE cmds == <<cmd>>
  <2>3. Written(cmds) /\ op' = [op EXCEPT ![a] = [cmds |-> cmds, expect |-> expect, edit |-> none]]
    BY <1>4, <2>2
  <2>4. UNCHANGED store /\ (cache' = cache \/ cache' = [cache EXCEPT ![a] = store])
    BY <1>4, <2>1
  <2> HIDE DEF cmds
  <2>5. QED
    BY <1>2, <2>3, <2>4
<1>5. ASSUME NEW n \in Nodes, Writes(n)
      PROVE  DocsInv'
  <2>1. CASE Puts(n)
    <3>1. PICK cmd, expect : cmd.do \in Others /\ Console(n, cmd, expect)
      BY <2>1 DEF Puts
    <3>2. Written(<<cmd>>)
      BY <3>1, MayWrite
    <3>3. QED
      BY <1>1, <1>4, <3>1, <3>2 DEF Console
  <2>2. CASE PutCredentialFiles(n)
    <3>1. UNCHANGED <<store, cache, op>>
      BY <2>2 DEF PutCredentialFiles
    <3>2. QED
      BY <3>1, DocsStay
  <2>3. QED
    BY <1>5, <2>1, <2>2, WritesCompose
<1>6. CASE Commands
  <2>1. PICK cmd : Told(cmd) /\ Shell(cmd)
    BY <1>6, CommandsCompose
  <2>2. Written(<<cmd>>)
    <3>1. \A d \in Drafts : Valid(d, Here) => Sound(d)
      BY ValidServes, DirectoryAssumption DEF DirectoryAssumption, Sound
    <3>2. QED
      BY <2>1, <3>1, MayWrite DEF Told
  <2>3. QED
    BY <1>1, <1>4, <2>1, <2>2 DEF Shell
<1>7. ASSUME NEW n \in Nodes, Boot(n)
      PROVE  DocsInv'
  <2>1. /\ cache' = [cache EXCEPT ![n] = store] /\ UNCHANGED store
        /\ \/ \E d : Serve(n, d)
           \/ \E d \in Seeds : \E here : Valid(d, here) /\ Begin(n, <<PutConfig(d)>>)
           \/ Begin(n, <<[do |-> "put_secret", name |-> "bootstrap_admin"], PutConfig(BootstrapText)>>)
    BY <1>7, Zenon DEF Boot
  <2>2. CASE \E d : Serve(n, d)
    <3>1. op' = op
      BY <2>2 DEF Serve
    <3>2. QED
      BY <1>1, <2>1, <3>1, DocsStay
  <2>3. ASSUME NEW cmds, Written(cmds), Begin(n, cmds)
        PROVE  DocsInv'
    <3> DEFINE o == [Idle EXCEPT !.cmds = cmds]
    <3>1. o.cmds = cmds
      BY DEF Idle
    <3>2. op' = [op EXCEPT ![n] = o]
      BY <2>3 DEF Begin
    <3> HIDE DEF o
    <3>3. QED
      BY <1>1, <2>1, <2>3, <3>1, <3>2, DocsStay
  <2>4. \A d \in Seeds : \A here : Valid(d, here) => Written(<<PutConfig(d)>>)
    BY ValidServes, DirectoryAssumption, MayWrite DEF DirectoryAssumption, Sound
  <2>5. QED
    BY <2>1, <2>2, <2>3, <2>4, MayWrite
<1>8. ASSUME NEW n \in Nodes, Refresh(n) \/ RefreshKeys(n) \/ Adopt(n) \/ Crash(n) \/ Reload(n)
      PROVE  DocsInv'
  <2>1. /\ UNCHANGED store
        /\ cache' = cache \/ cache' = [cache EXCEPT ![n] = store]
        /\ op' = op \/ op' = [op EXCEPT ![n] = Idle]
    BY <1>8 DEF Refresh, RefreshKeys, Adopt, Crash, Reload
  <2>2. QED
    BY <1>1, <2>1, DocsStay, DocsIdle
<1>9. ASSUME NEW a \in Actors, CommitRefused(a) \/ CommitLost(a) \/ CommitFails(a)
      PROVE  DocsInv'
  <2>1. /\ UNCHANGED store
        /\ cache' = cache \/ cache' = [cache EXCEPT ![a] = store]
        /\ op' = op \/ op' = [op EXCEPT ![a] = Idle]
    BY <1>9 DEF CommitRefused, CommitLost, CommitFails
  <2>2. QED
    BY <2>1, DocsStay, DocsIdle
<1>10. CASE UNCHANGED vars
  BY <1>10, DocsStay DEF vars
<1>11. QED
  BY <1>3, <1>5, <1>6, <1>7, <1>8, <1>9, <1>10, DocsWon DEF Next, Commit

\* What the edits of a route do.
LEMMA Reroutes ==
  ASSUME NEW d, Sound(d), NEW name, NEW groups, NEW d1,
         d1 = WithoutAlias([d EXCEPT !.groups = groups], name), ValidNames(d1),
         \A ref : ref # name =>
           /\ ref \in DOMAIN groups <=> ref \in DOMAIN d.groups
           /\ ref \in DOMAIN d.groups => groups[ref] = d.groups[ref],
         name \in DOMAIN d.aliases => d.aliases[name] \notin DOMAIN d.aliases /\ ~IsTarget(name)
  PROVE  Rerouted(d, d1, name) /\ d1.groups = groups
<1> DEFINE d0 == [d EXCEPT !.groups = groups]
<1>1. /\ d0.providers = d.providers /\ d0.aliases = d.aliases /\ d0.fallbacks = d.fallbacks
      /\ d0.groups = groups /\ DOMAIN d0 = DOMAIN EmptyDocument
  BY DEF Sound, IsDocument, EmptyDocument
<1>2. d1 = WithoutAlias(d0, name)
  OBVIOUS
<1> HIDE DEF d0
<1>3. IsFiniteSet(DOMAIN d.aliases)
  BY DEF Sound, IsDocument
<1>4. CASE name \notin DOMAIN d.aliases
  <2>1. d1 = d0
    BY <1>1, <1>2, <1>4 DEF WithoutAlias
  <2>2. QED
    BY <1>1, <1>3, <1>4, <2>1 DEF Rerouted, Narrows
<1>5. CASE name \in DOMAIN d.aliases
  <2> DEFINE p == d.aliases[name]
  <2> DEFINE others == Without(d.aliases, {name})
  <2> DEFINE chains == IF p \in Range(others) THEN d.fallbacks ELSE Without(d.fallbacks, {p})
  <2>1. d1 = [d0 EXCEPT !.aliases = others, !.fallbacks = chains]
    BY <1>1, <1>2, <1>5 DEF WithoutAlias
  <2>2. DOMAIN others = DOMAIN d.aliases \ {name} /\ \A x \in DOMAIN others : others[x] = d.aliases[x]
    BY DEF Without, Restrict
  <2>3. /\ DOMAIN chains \subseteq DOMAIN d.fallbacks
        /\ \A x \in DOMAIN chains : chains[x] = d.fallbacks[x]
        /\ \A x \in DOMAIN d.fallbacks \ DOMAIN chains : x = p /\ p \notin Range(others)
    BY DEF Without, Restrict
  <2> HIDE DEF others, chains
  <2>4. /\ d1.providers = d.providers /\ d1.aliases = others /\ d1.fallbacks = chains
        /\ d1.groups = groups
    BY <1>1, <2>1 DEF EmptyDocument
  <2>5. QED
    BY <1>1, <1>3, <1>5, <2>2, <2>3, <2>4 DEF Rerouted, Narrows
<1>6. QED
  BY <1>4, <1>5

\* Writing or deleting a route leaves the others as they were, if it is no alias of an
\* alias and not named like a target: a document that
\* loads has no alias that leads nowhere, so none led through the one that is
\* gone, and its chain goes only when no other alias stands for the same model.
THEOREM Routing == Spec => RoutesKept
<1> DEFINE Kept(n, e) ==
      LET d == store.config
          name == IF e.what = "put_route" THEN e.route.name ELSE e.ref
          direct == name \in DOMAIN d.aliases =>
                      d.aliases[name] \notin DOMAIN d.aliases /\ ~IsTarget(name)
      IN direct =>
           /\ \A ref \in Names(d) \ {name} : Plan(store'.config, ref) = Plan(d, ref)
           /\ e.what = "put_route" /\ name \in DOMAIN d.aliases /\ e.route = Listed(d, name) =>
                /\ Plan(store'.config, name)[1] = Plan(d, name)[1]
                /\ Targets(Plan(store'.config, name)) = Targets(Plan(d, name))
<1>1. ASSUME EditsInv, DocsInv, [Next]_vars, NEW n \in Nodes, NEW e \in op[n].edit, Committed(n),
             e.what \in {"put_route", "delete_route"}
      PROVE  Kept(n, e)
  <2> DEFINE d == store.config
  <2> DEFINE d1 == store'.config
  <2>1. d1 = After(e, d) /\ ValidNames(d1) /\ Sound(d)
    BY <1>1, Linearizes, ValidServes DEF DocsInv
  <2> HIDE DEF d, d1
  <2>2. CASE e.what = "put_route"
    <3> DEFINE name == e.route.name
    <3> DEFINE g == [primary |-> e.route.primary, fallback |-> e.route.fallback]
    <3> DEFINE groups == With(d.groups, name, g)
    <3>1. d1 = WithoutAlias([d EXCEPT !.groups = groups], name)
      BY <2>1, <2>2 DEF After
    <3>2. /\ name \in DOMAIN groups /\ groups[name] = g
          /\ \A ref : ref # name =>
               /\ ref \in DOMAIN groups <=> ref \in DOMAIN d.groups
               /\ ref \in DOMAIN d.groups => groups[ref] = d.groups[ref]
      BY DEF With
    <3> HIDE DEF groups
    <3> SUFFICES ASSUME name \in DOMAIN d.aliases =>
                          d.aliases[name] \notin DOMAIN d.aliases /\ ~IsTarget(name)
                 PROVE  /\ \A ref \in Names(d) \ {name} : Plan(d1, ref) = Plan(d, ref)
                        /\ name \in DOMAIN d.aliases /\ e.route = Listed(d, name) =>
                             /\ Plan(d1, name)[1] = Plan(d, name)[1]
                             /\ Targets(Plan(d1, name)) = Targets(Plan(d, name))
      BY <2>2 DEF d, d1
    <3>3. Rerouted(d, d1, name) /\ d1.groups = groups
      BY <2>1, <3>1, <3>2, Reroutes
    <3>4. \A ref \in Names(d) \ {name} : Plan(d1, ref) = Plan(d, ref)
      BY <3>3, PlanStays
    <3>5. ASSUME name \in DOMAIN d.aliases, e.route = Listed(d, name)
          PROVE  /\ Plan(d1, name)[1] = Plan(d, name)[1]
                 /\ Targets(Plan(d1, name)) = Targets(Plan(d, name))
      <4>1. d1.groups[name] = [primary |-> Listed(d, name).primary, fallback |-> Listed(d, name).fallback]
        BY <3>2, <3>3, <3>5
      <4>2. QED
        BY <2>1, <3>2, <3>3, <3>5, <4>1, ShownStays DEF Sound
    <3>6. QED
      BY <3>4, <3>5
  <2>3. CASE e.what = "delete_route"
    <3> DEFINE name == e.ref
    <3> DEFINE groups == Without(d.groups, {name})
    <3>1. d1 = WithoutAlias([d EXCEPT !.groups = groups], name)
      BY <2>1, <2>3 DEF After
    <3>2. \A ref : ref # name =>
            /\ ref \in DOMAIN groups <=> ref \in DOMAIN d.groups
            /\ ref \in DOMAIN d.groups => groups[ref] = d.groups[ref]
      BY DEF Without, Restrict
    <3> HIDE DEF groups
    <3> SUFFICES ASSUME name \in DOMAIN d.aliases =>
                          d.aliases[name] \notin DOMAIN d.aliases /\ ~IsTarget(name)
                 PROVE  \A ref \in Names(d) \ {name} : Plan(d1, ref) = Plan(d, ref)
      BY <2>3 DEF d, d1
    <3>3. Rerouted(d, d1, name)
      BY <2>1, <3>1, <3>2, Reroutes
    <3>4. QED
      BY <3>3, PlanStays
  <2>4. QED
    BY <1>1, <2>2, <2>3
<1>2. EditsInv /\ DocsInv /\ [Next]_vars =>
        [\A n \in Nodes : \A e \in op[n].edit :
           Committed(n) /\ e.what \in {"put_route", "delete_route"} => Kept(n, e)]_vars
  <2> HIDE DEF Kept
  <2>1. QED
    BY <1>1
<1>3. QED
  BY <1>2, EditsInit, EditsStep, DocsInit, DocsStep, PTL DEF Spec, RoutesKept
=============================================================================
