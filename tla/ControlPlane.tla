---------------------------- MODULE ControlPlane -----------------------------
(***************************************************************************)
(* The control plane: the document in the store (router-store), the copy   *)
(* each node caches, and the tables each node serves from (AppState in     *)
(* router-server).                                                         *)
(*                                                                         *)
(* The document is the sequence of the edits it is made of; its version is *)
(* their number.  An action is what a task does between two awaits, or     *)
(* between two accesses of what it shares with tasks on other threads.     *)
(*                                                                         *)
(* A definition named <name>_<fault> is <name> with a fault, kept to show  *)
(* that the properties detect it; no specification uses it.                *)
(***************************************************************************)
EXTENDS Integers, Sequences, SequencesExt

CONSTANTS
  Nodes,
  Admins,       \* tasks that carry the requests of operators
  Backends,     \* those the fleet may have: one that writes if the version
                \* matches (s3, dynamodb, memory), or one that checks the
                \* version and then replaces the document (file)
  SharedVolume, \* whether several nodes write a file: it is on a volume they share
  CommitAttempts,
  MaxEdits,     \* bound on the edits operators ask for
  MaxRestarts   \* bound on the restarts of nodes

ASSUME ControlPlaneAssumption ==
  /\ Backends \subseteq {"conditional", "file"}
  /\ SharedVolume \in BOOLEAN
  /\ Admins \cap {<<"refresher", n>> : n \in Nodes} = {} /\ "free" \notin Admins
  /\ CommitAttempts \in Nat \ {0}
  /\ MaxEdits \in Nat \ {0}
  /\ MaxRestarts \in Nat

VARIABLES
  backend,   \* the one the fleet has
  store,     \* the document in the backend
  temp,      \* that in the temporary file next to a file, << >> if there is none
  cached,    \* the copy of it on each node
  serving,   \* what each node's tables were built from: [keys, config]
  applied,   \* the config text each node took up last (applied_text)
  writing,   \* who holds the lock of each node's commits
  home,      \* the node each task runs on
  pc,        \* where each task stands
  job,       \* what it knows there
  issued,    \* edits asked for
  restarts,
  acked      \* history: edits whose operator was told they were made

vars == <<backend, store, temp, cached, serving, applied, writing, home, pc, job,
          issued, restarts, acked>>

Refreshers == {<<"refresher", n>> : n \in Nodes}
Tasks == Admins \cup Refreshers

None == -1
Free == "free"

\* What an edit is about: virtual keys and the config are served from tables
\* built from the document, the rest (users, teams, settings, secrets) from
\* the document itself.
Objects == {"key", "config", "other"}
Edit == [id : 1 .. MaxEdits, object : Objects]
Document == Seq(Edit)

version(doc) == Len(doc)
text(doc) == LET about == SelectSeq(doc, LAMBDA e : e.object = "config")
             IN  IF about = << >> THEN 0 ELSE Last(about).id
keys(doc) == {e \in ToSet(doc) : e.object = "key"}

\* edit: what an operator asked for; expect: the version it was composed
\* against; base: the document the task starts from; doc: the one it has
\* loaded, written or is building tables from; tries: commits attempted;
\* adopts: whether the tables it builds include the routing table.
Job == [edit : Edit, expect : Nat \cup {None}, base : Document, doc : Document,
        tries : 0 .. CommitAttempts, adopts : BOOLEAN]

\* The document and its copies are sequences of edits; a commit is retried no
\* more often than it may be.
TypeOK ==
  /\ backend \in Backends
  /\ store \in Document
  /\ temp \in Document
  /\ cached \in [Nodes -> Document]
  /\ serving \in [Nodes -> [keys : Document, config : 0 .. MaxEdits]]
  /\ applied \in [Nodes -> 0 .. MaxEdits]
  /\ writing \in [Nodes -> Admins \cup {Free}]
  /\ home \in [Tasks -> Nodes]
  /\ pc \in [Tasks -> {"idle", "lock", "write", "stage", "replace", "written",
                       "conflict", "loaded", "collect", "publish"}]
  /\ job \in [Tasks -> Job]
  /\ issued \in 0 .. MaxEdits
  /\ restarts \in 0 .. MaxRestarts
  /\ acked \subseteq Edit

Idle == [edit |-> [id |-> 1, object |-> "other"], expect |-> None, base |-> << >>,
         doc |-> << >>, tries |-> 0, adopts |-> FALSE]

\* Nodes that have opened an empty store.  A file that is not on a shared volume
\* is written through one node.
Init ==
  /\ backend \in Backends
  /\ store = << >>
  /\ temp = << >>
  /\ cached = [n \in Nodes |-> << >>]
  /\ serving = [n \in Nodes |-> [keys |-> << >>, config |-> 0]]
  /\ applied = [n \in Nodes |-> 0]
  /\ writing = [n \in Nodes |-> Free]
  /\ home \in {h \in [Tasks -> Nodes] :
                 /\ \A n \in Nodes : h[<<"refresher", n>>] = n
                 /\ backend = "file" /\ ~SharedVolume => \A a, b \in Admins : h[a] = h[b]}
  /\ pc = [t \in Tasks |-> "idle"]
  /\ job = [t \in Tasks |-> Idle]
  /\ issued = 0
  /\ restarts = 0
  /\ acked = {}

-----------------------------------------------------------------------------
Goto(t, label, j) ==
  /\ pc' = [pc EXCEPT ![t] = label]
  /\ job' = [job EXCEPT ![t] = IF label = "idle" THEN Idle ELSE j]

counters == <<issued, restarts>>
stored == <<store, temp>>
tables == <<serving, applied>>
places == <<backend, home>>

-----------------------------------------------------------------------------
(* Store::commit *)

\* An operator edits: a handler that has read the document says which version
\* it read, one that makes something new does not (nor do the handlers of
\* users, teams, settings and secrets, whatever they have read).
Ask(a) ==
  \E object \in Objects, guarded \in BOOLEAN :
    /\ pc[a] = "idle" /\ issued < MaxEdits
    /\ object = "config" => guarded
    /\ object = "other" => ~guarded
    /\ issued' = issued + 1
    /\ Goto(a, "lock", [Idle EXCEPT
              !.edit = [id |-> issued', object |-> object],
              !.expect = IF guarded THEN version(cached[home[a]]) ELSE None])
    /\ UNCHANGED <<stored, cached, tables, writing, places, restarts, acked>>

Start(a, base) ==
  Goto(a, "write", [job[a] EXCEPT !.base = base, !.tries = @ + 1,
                                  !.doc = Append(base, job[a].edit)])

Unexpected(a, base) == job[a].expect # None /\ job[a].expect # version(base)

Lock_Unguarded(a) ==
  LET n == home[a] IN
    /\ pc[a] = "lock" /\ writing[n] = Free
    /\ writing' = [writing EXCEPT ![n] = a] /\ Start(a, cached[n])
    /\ UNCHANGED <<stored, cached, tables, places, counters, acked>>

\* One commit at a time on a node; an edit composed against another version
\* is refused.
Lock(a) ==
  LET n == home[a] IN
    /\ pc[a] = "lock" /\ writing[n] = Free
    /\ IF Unexpected(a, cached[n])
       THEN UNCHANGED writing /\ Goto(a, "idle", Idle)
       ELSE writing' = [writing EXCEPT ![n] = a] /\ Start(a, cached[n])
    /\ UNCHANGED <<stored, cached, tables, places, counters, acked>>

Write_Blind(a) ==
  /\ pc[a] = "write" /\ backend = "conditional"
  /\ store' = job[a].doc /\ Goto(a, "written", job[a])
  /\ UNCHANGED <<temp, cached, tables, writing, places, counters, acked>>

\* The conditional write of s3 and dynamodb, atomic in the backend.
Write(a) ==
  /\ pc[a] = "write" /\ backend = "conditional"
  /\ IF version(store) = version(job[a].base)
     THEN store' = job[a].doc /\ Goto(a, "written", job[a])
     ELSE UNCHANGED store /\ Goto(a, "conflict", job[a])
  /\ UNCHANGED <<temp, cached, tables, writing, places, counters, acked>>

\* FileStore::commit reads the version ...
ReadVersion(a) ==
  /\ pc[a] = "write" /\ backend = "file"
  /\ Goto(a, IF version(store) = version(job[a].base) THEN "stage" ELSE "conflict", job[a])
  /\ UNCHANGED <<stored, cached, tables, writing, places, counters, acked>>

\* ... writes the temporary file, which has one name for all processes, ...
Stage(a) ==
  /\ pc[a] = "stage"
  /\ temp' = job[a].doc
  /\ Goto(a, "replace", job[a])
  /\ UNCHANGED <<store, cached, tables, writing, places, counters, acked>>

\* The operator is told of a failure or a conflict.
Refused(a) ==
  /\ writing' = [writing EXCEPT ![home[a]] = Free]
  /\ Goto(a, "idle", Idle)

\* ... and renames it over the document, if nobody else has by then.
Rename(a) ==
  /\ pc[a] = "replace"
  /\ \/ /\ temp # << >>
        /\ store' = temp /\ temp' = << >>
        /\ Goto(a, "written", job[a]) /\ UNCHANGED writing
     \/ temp = << >> /\ Refused(a) /\ UNCHANGED stored
  /\ UNCHANGED <<cached, tables, places, counters, acked>>

\* The backend's answer: the node caches what it wrote and the operator is
\* told.  The handlers of keys rebuild the key table, that of the config
\* adopts the document, the others return.
Acknowledge(a) ==
  /\ pc[a] = "written"
  /\ cached' = [cached EXCEPT ![home[a]] = job[a].doc]
  /\ acked' = acked \cup {job[a].edit}
  /\ writing' = [writing EXCEPT ![home[a]] = Free]
  /\ Goto(a, IF job[a].edit.object = "other" THEN "idle" ELSE "collect",
          [Idle EXCEPT !.adopts = job[a].edit.object = "config"])
  /\ UNCHANGED <<stored, tables, places, counters>>

Fail_Caches(a) ==
  /\ pc[a] \in {"write", "written"}
  /\ cached' = [cached EXCEPT ![home[a]] = job[a].doc]
  /\ writing' = [writing EXCEPT ![home[a]] = Free]
  /\ Goto(a, "idle", Idle)
  /\ UNCHANGED <<stored, tables, places, counters, acked>>

\* The request or its answer is lost, or the file system refuses: the operator
\* is told it failed, whether or not the edit was made.
Fail(a) ==
  /\ pc[a] \in {"write", "stage", "replace", "written"}
  /\ Refused(a)
  /\ UNCHANGED <<stored, cached, tables, places, counters, acked>>

\* What a commit does after a conflict: the operator who named a version is
\* told of it; for another the edit is made again, on what the node caches.
Again(a, base) ==
  IF job[a].expect # None \/ job[a].tries = CommitAttempts
  THEN Refused(a)
  ELSE Start(a, base) /\ UNCHANGED writing

\* A node takes another version up, be it newer or older.
TakeUp(n, doc) ==
  cached' = IF version(doc) = version(cached[n]) THEN cached
            ELSE [cached EXCEPT ![n] = doc]

\* The document is read again; a failure to is ignored.
Reload(a) ==
  /\ pc[a] = "conflict"
  /\ \/ Goto(a, "loaded", [job[a] EXCEPT !.doc = store]) /\ UNCHANGED writing
     \/ Again(a, cached[home[a]])
  /\ UNCHANGED <<stored, cached, tables, places, counters, acked>>

Retry(a) ==
  /\ pc[a] = "loaded"
  /\ TakeUp(home[a], job[a].doc)
  /\ Again(a, cached'[home[a]])
  /\ UNCHANGED <<stored, tables, places, counters, acked>>

-----------------------------------------------------------------------------
(* spawn_refresher *)

Fetch(r) ==
  /\ pc[r] = "idle"
  /\ Goto(r, "loaded", [Idle EXCEPT !.doc = store])
  /\ UNCHANGED <<stored, cached, tables, writing, places, counters, acked>>

\* The node adopts what the refresher has read, if it is another version than
\* the one it holds by then.
Refresh(r) ==
  /\ pc[r] = "loaded"
  /\ TakeUp(home[r], job[r].doc)
  /\ IF cached' = cached THEN Goto(r, "idle", Idle)
     ELSE Goto(r, "collect", [Idle EXCEPT !.adopts = TRUE])
  /\ UNCHANGED <<stored, tables, writing, places, counters, acked>>

-----------------------------------------------------------------------------
(* adopt_store_state, apply_config, refresh_vkeys *)

\* The tables are built from the cached document: the routing table only if
\* the text of the config is not the one taken up last.
Collect(t) ==
  LET n == home[t]
      changed == job[t].adopts /\ text(cached[n]) # applied[n]
  IN
    /\ pc[t] = "collect"
    /\ applied' = IF changed THEN [applied EXCEPT ![n] = text(cached[n])] ELSE applied
    /\ Goto(t, "publish", [Idle EXCEPT !.doc = cached[n], !.adopts = changed])
    /\ UNCHANGED <<stored, cached, serving, writing, places, counters, acked>>

\* ... and swapped in.
Publish(t) ==
  LET n == home[t] IN
    /\ pc[t] = "publish"
    /\ serving' = [serving EXCEPT
         ![n] = [keys |-> job[t].doc,
                 config |-> IF job[t].adopts THEN text(job[t].doc) ELSE @.config]]
    /\ Goto(t, "idle", Idle)
    /\ UNCHANGED <<stored, cached, applied, writing, places, counters, acked>>

-----------------------------------------------------------------------------
\* A node is destroyed, whatever its tasks are doing, and replaced by one that
\* opens the store and adopts what it says.
Restart(n) ==
  /\ restarts < MaxRestarts
  /\ restarts' = restarts + 1
  /\ cached' = [cached EXCEPT ![n] = store]
  /\ serving' = [serving EXCEPT ![n] = [keys |-> store, config |-> text(store)]]
  /\ applied' = [applied EXCEPT ![n] = text(store)]
  /\ writing' = [writing EXCEPT ![n] = Free]
  /\ pc' = [t \in Tasks |-> IF home[t] = n THEN "idle" ELSE pc[t]]
  /\ job' = [t \in Tasks |-> IF home[t] = n THEN Idle ELSE job[t]]
  /\ UNCHANGED <<stored, places, issued, acked>>

Work(a) ==
  \/ Lock(a) \/ Write(a) \/ ReadVersion(a) \/ Stage(a) \/ Rename(a)
  \/ Acknowledge(a) \/ Reload(a) \/ Retry(a)
Poll(r) == Fetch(r) \/ Refresh(r)
Build(t) == Collect(t) \/ Publish(t)

Next ==
  \/ \E a \in Admins : Ask(a) \/ Work(a) \/ Fail(a)
  \/ \E r \in Refreshers : Poll(r)
  \/ \E t \in Tasks : Build(t)
  \/ \E n \in Nodes : Restart(n)

Spec == Init /\ [][Next]_vars

\* The runtime schedules every task, the backend answers or times out, and
\* the refresher polls for ever.
Fairness ==
  /\ \A a \in Admins : WF_vars(Work(a))
  /\ \A r \in Refreshers : WF_vars(Poll(r))
  /\ \A t \in Tasks : WF_vars(Build(t))

FairSpec == Spec /\ Fairness

-----------------------------------------------------------------------------
(* Properties *)

\* No edit is silently overwritten: the document of a node that told its
\* operator an edit was made, and every later one in the store, contains it.
NoLostEdit == acked \subseteq ToSet(store)

\* An edit composed against a version is made on that version, whatever its
\* node has seen meanwhile, or is refused.
GuardedEdits ==
  [][\A e \in ToSet(store') \ ToSet(store) : \A a \in Admins :
       job[a].edit = e /\ job[a].expect # None => job[a].expect = version(store)]_vars

\* The store and the caches add up to one document that edits extend.
Shared == INSTANCE SharedDocument
            WITH Edits <- Edit, log <- store,
                 view <- [n \in Nodes |-> version(cached[n])]
DocumentShared == Shared!DocumentSpec

\* A change is live on every node once the nodes have polled: their tables
\* are those of the document ("everywhere else within refresh_interval_secs").
Propagates ==
  <>[](\A n \in Nodes : /\ keys(serving[n].keys) = keys(store)
                        /\ serving[n].config = text(store))
=============================================================================
