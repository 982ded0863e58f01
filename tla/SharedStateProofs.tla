--------------------------- MODULE SharedStateProofs ---------------------------
(***************************************************************************)
(* Theorems about the two records that several writers share through a     *)
(* file or a database: the control-plane document, for any number of       *)
(* nodes, operators, edits, attempts and restarts, and the credential of   *)
(* a subscription seat, for any number of seats on one file, requests,     *)
(* rotations, reloads and crashes.                                         *)
(***************************************************************************)
EXTENDS ControlPlane, SeatRefresh, TLAPS

-----------------------------------------------------------------------------
(* The control plane                                                       *)

Labels == {"idle", "lock", "write", "stage", "replace", "written", "conflict", "loaded",
           "collect", "publish"}

\* The labels at which an operator's task holds the lock of its node's commits,
\* those at which it has yet to write, and those at which its edit is under way.
Writers == {"write", "stage", "replace", "written", "conflict", "loaded"}
Composing == {"write", "stage", "replace"}
Committing == Writers \cup {"lock"}

Known == [edit : Edit, expect : Nat \cup {None}, base : Document, doc : Document,
          tries : Nat, adopts : BOOLEAN]

Typed ==
  /\ backend \in Backends
  /\ store \in Document /\ temp \in Document
  /\ cached \in [Nodes -> Document]
  /\ writing \in [Nodes -> Admins \cup {Free}]
  /\ home \in [Tasks -> Nodes]
  /\ pc \in [Tasks -> Labels]
  /\ job \in [Tasks -> Known]
  /\ issued \in 0 .. MaxEdits

\* A document that the store has been: all that was added to it is still there.
Held(doc) == Len(doc) <= Len(store) /\ \A i \in 1 .. Len(doc) : doc[i] = store[i]

\* What a task may rely on where it stands.
Sound(t, label, j) ==
  /\ label = "loaded" => Held(j.doc)
  /\ t \in Admins =>
       /\ label \in Composing =>
            Held(j.base) /\ j.doc = Append(j.base, j.edit) /\ j.expect \in {None, Len(j.base)}
       /\ label \in {"stage", "replace"} => backend = "file" /\ j.base = store
       /\ label = "replace" => temp = j.doc
       /\ label = "written" => Held(j.doc) /\ j.doc # << >> /\ j.doc[Len(j.doc)] = j.edit
       /\ label \in Writers => writing[home[t]] = t
       /\ label \in Committing => j.edit.id <= issued
       /\ j.expect # None => label \in Committing

\* No two edits under way are one.
Numbered ==
  \A a, b \in Admins : a # b /\ pc[a] \in Committing /\ pc[b] \in Committing =>
    job[a].edit.id # job[b].edit.id

IInv ==
  /\ Typed
  /\ backend = "file" => \A a, b \in Admins : home[a] = home[b]
  /\ \A n \in Nodes : Held(cached[n])
  /\ \A t \in Tasks : Sound(t, pc[t], job[t])
  /\ Numbered
  /\ NoLostEdit

-----------------------------------------------------------------------------
(* Documents *)

\* What a document has been it still is when an edit is made on it.
LEMMA Extends ==
  ASSUME Typed, store' = store \/ \E e \in Edit : store' = Append(store, e)
  PROVE  /\ store' \in Document /\ ToSet(store) \subseteq ToSet(store')
         /\ \A doc \in Document : Held(doc) => Held(doc)'
<1>1. store \in Seq(Edit)
  BY DEF Typed, Document
<1>2. CASE store' = store
  BY <1>1, <1>2 DEF Held, Document
<1>3. ASSUME NEW e \in Edit, store' = Append(store, e)
      PROVE  /\ store' \in Document /\ ToSet(store) \subseteq ToSet(store')
             /\ \A doc \in Document : Held(doc) => Held(doc)'
  <2>1. store' \in Seq(Edit) /\ Len(store') = Len(store) + 1 /\ Len(store) \in Nat
        /\ \A i \in 1 .. Len(store) : store'[i] = store[i]
    BY <1>1, <1>3
  <2>2. ToSet(store) \subseteq ToSet(store')
    BY <1>1, <2>1 DEF ToSet
  <2>3. ASSUME NEW doc \in Document, Held(doc)
        PROVE  Held(doc)'
    <3>1. Len(doc) \in Nat
      BY DEF Document
    <3>2. QED
      BY <2>1, <2>3, <3>1 DEF Held
  <2>4. QED
    BY <2>1, <2>2, <2>3 DEF Document
<1>4. QED
  BY <1>2, <1>3

\* version: of the documents the store has been one only has its length, and that
\* is the store itself.
LEMMA SameVersion ==
  ASSUME Typed, NEW doc \in Document, Held(doc), Len(doc) = Len(store)
  PROVE  doc = store
<1>1. store \in Seq(Edit) /\ doc \in Seq(Edit)
  BY DEF Typed, Document
<1>2. QED
  BY <1>1 DEF Held

\* The document of the store is one the store has been.
LEMMA Itself ==
  ASSUME Typed
  PROVE  Held(store) /\ Held(<< >>) /\ << >> \in Document
BY DEF Typed, Document, Held

\* What a task knows when it begins.
LEMMA Idles ==
  /\ Idle \in Known /\ Idle.expect = None
  /\ \A doc \in Document :
       [Idle EXCEPT !.doc = doc] \in Known /\ [Idle EXCEPT !.doc = doc].doc = doc
         /\ [Idle EXCEPT !.doc = doc].expect = None
  /\ \A b \in BOOLEAN : [Idle EXCEPT !.adopts = b] \in Known
       /\ [Idle EXCEPT !.adopts = b].expect = None
  /\ \A b \in BOOLEAN, doc \in Document :
       [Idle EXCEPT !.doc = doc, !.adopts = b] \in Known
         /\ [Idle EXCEPT !.doc = doc, !.adopts = b].expect = None
  /\ \A e \in Edit, x \in Nat \cup {None} :
       [Idle EXCEPT !.edit = e, !.expect = x] \in Known
         /\ [Idle EXCEPT !.edit = e, !.expect = x].edit = e
<1>1. Idle \in Known /\ Idle.expect = None
  <2>1. [id |-> 1, object |-> "other"] \in Edit
    BY ControlPlaneAssumption DEF ControlPlaneAssumption, Edit, Objects
  <2>2. << >> \in Document
    BY DEF Document
  <2>3. FALSE \in BOOLEAN /\ None \in Nat \cup {None}
    OBVIOUS
  <2>4. QED
    BY <2>1, <2>2, <2>3 DEF Idle, Known
<1>2. ASSUME NEW doc \in Document
      PROVE  [Idle EXCEPT !.doc = doc] \in Known /\ [Idle EXCEPT !.doc = doc].doc = doc
               /\ [Idle EXCEPT !.doc = doc].expect = None
  BY <1>1 DEF Known
<1>3. ASSUME NEW b \in BOOLEAN
      PROVE  [Idle EXCEPT !.adopts = b] \in Known /\ [Idle EXCEPT !.adopts = b].expect = None
  BY <1>1 DEF Known
<1>4. ASSUME NEW b \in BOOLEAN, NEW doc \in Document
      PROVE  [Idle EXCEPT !.doc = doc, !.adopts = b] \in Known
               /\ [Idle EXCEPT !.doc = doc, !.adopts = b].expect = None
  BY <1>1 DEF Known
<1>5. ASSUME NEW e \in Edit, NEW x \in Nat \cup {None}
      PROVE  [Idle EXCEPT !.edit = e, !.expect = x] \in Known
               /\ [Idle EXCEPT !.edit = e, !.expect = x].edit = e
  BY <1>1 DEF Known
<1>6. QED
  BY <1>1, <1>2, <1>3, <1>4, <1>5, Zenon

\* A fleet that has opened an empty store.
LEMMA Opened == ~SharedVolume /\ Init => IInv
<1> SUFFICES ASSUME ~SharedVolume, Init
             PROVE  IInv
  OBVIOUS
<1>1. Typed
  <2>1. store \in Document /\ temp \in Document /\ cached \in [Nodes -> Document]
    BY DEF Init, Document
  <2>2. /\ writing \in [Nodes -> Admins \cup {Free}] /\ home \in [Tasks -> Nodes]
        /\ backend \in Backends
    BY DEF Init
  <2>3. pc \in [Tasks -> Labels] /\ job \in [Tasks -> Known]
    BY Idles DEF Init, Labels
  <2>4. issued \in 0 .. MaxEdits
    BY ControlPlaneAssumption DEF Init, ControlPlaneAssumption
  <2>5. QED
    BY <2>1, <2>2, <2>3, <2>4 DEF Typed
<1>2. \A n \in Nodes : Held(cached[n])
  BY DEF Init, Held
<1>3. \A t \in Tasks : Sound(t, pc[t], job[t])
  BY Idles DEF Init, Sound, Composing, Writers, Committing
<1>4. Numbered /\ NoLostEdit
  BY DEF Init, Numbered, NoLostEdit, Committing, Writers, Tasks
<1>5. QED
  BY <1>1, <1>2, <1>3, <1>4 DEF IInv, Init

-----------------------------------------------------------------------------
(* A step of a task *)

\* No other task is between its look at the file and the rename.
Alone(t) == \A a \in Admins \ {t} : pc[a] \notin {"stage", "replace"}

\* A task that goes on to a label, knowing j: the documents and the locks of the
\* others are left as they were.
LEMMA Moved ==
  ASSUME IInv, NEW t \in Tasks, NEW l \in Labels, NEW j \in Known,
         pc' = [pc EXCEPT ![t] = l], job' = [job EXCEPT ![t] = j], UNCHANGED places,
         store' = store \/ \E e \in Edit : store' = Append(store, e),
         temp' \in Document,
         <<store, temp>>' # <<store, temp>> => Alone(t),
         cached' \in [Nodes -> Document], \A n \in Nodes : Held(cached[n])',
         writing' \in [Nodes -> Admins \cup {Free}],
         \A a \in Admins \ {t} : writing[home[a]] = a => writing'[home[a]] = a,
         issued' \in issued .. MaxEdits,
         Sound(t, l, j)',
         t \in Admins /\ l \in Committing => \A a \in Admins \ {t} :
           pc[a] \in Committing => job[a].edit.id # j.edit.id,
         NoLostEdit'
  PROVE  IInv'
<1> USE DEF IInv
<1>1. store' \in Document /\ \A doc \in Document : Held(doc) => Held(doc)'
  BY Extends
<1>2. Typed'
  <2>1. pc' \in [Tasks -> Labels] /\ job' \in [Tasks -> Known]
    BY DEF Typed
  <2>2. issued' \in 0 .. MaxEdits
    BY DEF Typed
  <2>3. QED
    BY <1>1, <2>1, <2>2 DEF Typed, places
<1>3. \A u \in Tasks \ {t} : pc'[u] = pc[u] /\ job'[u] = job[u]
  BY DEF Typed
<1>4. pc'[t] = l /\ job'[t] = j
  BY DEF Typed
<1>5. ASSUME NEW u \in Tasks, u # t
      PROVE  Sound(u, pc[u], job[u])'
  <2>1. job[u] \in Known /\ job[u].doc \in Document /\ job[u].base \in Document
        /\ (u \in Admins => job[u].edit.id \in Nat)
    BY DEF Typed, Known, Edit
  <2>2. issued <= issued' /\ issued \in Nat /\ issued' \in Nat
    BY DEF Typed
  <2>3. Sound(u, pc[u], job[u])
    OBVIOUS
  <2>4. u \in Admins /\ pc[u] \in {"stage", "replace"} => store' = store /\ temp' = temp
    BY <1>5 DEF Alone
  <2>5. QED
    BY <1>1, <1>3, <1>5, <2>1, <2>2, <2>3, <2>4 DEF Sound, Composing, places
<1>6. \A u \in Tasks : Sound(u, pc[u], job[u])'
  BY <1>4, <1>5
<1>7. Numbered'
  BY <1>3, <1>4 DEF Numbered, Tasks
<1>8. QED
  BY <1>2, <1>6, <1>7 DEF places

\* What a task at work holds: the lock of its node, and it alone.
LEMMA Locks ==
  ASSUME IInv, NEW a \in Admins, pc[a] \in Writers
  PROVE  /\ writing[home[a]] = a /\ home[a] \in Nodes
         /\ [writing EXCEPT ![home[a]] = Free] \in [Nodes -> Admins \cup {Free}]
         /\ \A b \in Admins \ {a} : writing[home[b]] = b =>
              [writing EXCEPT ![home[a]] = Free][home[b]] = b
         /\ backend = "file" => \A b \in Admins \ {a} : pc[b] \notin Writers
<1>1. a \in Tasks /\ \A b \in Admins : b \in Tasks
  BY DEF IInv, Tasks
<1>2. \A b \in Admins : pc[b] \in Writers => writing[home[b]] = b
  BY <1>1 DEF IInv, Sound
<1>3. QED
  BY <1>1, <1>2 DEF IInv, Typed

\* A task that is done, or goes on to build tables.
LEMMA Done ==
  ASSUME IInv, NEW t \in Tasks, NEW l \in {"idle", "collect", "publish"}, NEW j \in Known,
         j.expect = None, Goto(t, l, j), UNCHANGED <<store, temp, places, acked, issued>>,
         cached' \in [Nodes -> Document], \A n \in Nodes : Held(cached[n])',
         writing' \in [Nodes -> Admins \cup {Free}],
         \A a \in Admins \ {t} : writing[home[a]] = a => writing'[home[a]] = a
  PROVE  IInv'
<1> DEFINE k == IF l = "idle" THEN Idle ELSE j
<1>1. k \in Known /\ k.expect = None /\ pc' = [pc EXCEPT ![t] = l] /\ job' = [job EXCEPT ![t] = k]
  BY Idles DEF IInv, Goto
<1> HIDE DEF k
<1>2. Sound(t, l, k)'
  BY <1>1 DEF IInv, Sound, Composing, Writers, Committing
<1>3. issued' \in issued .. MaxEdits /\ NoLostEdit' /\ l \in Labels /\ l \notin Committing
  BY DEF IInv, Typed, NoLostEdit, Labels, Committing, Writers
<1>4. QED
  BY <1>1, <1>2, <1>3, Moved DEF IInv, Typed

\* A task that begins an attempt on a document.
LEMMA Starts ==
  ASSUME IInv, NEW a \in Admins, pc[a] \in Committing, NEW base \in Document, Held(base),
         job[a].expect \in {None, Len(base)}, Start(a, base),
         UNCHANGED <<store, temp, places, acked, issued>>,
         cached' \in [Nodes -> Document], \A n \in Nodes : Held(cached[n])',
         writing' \in [Nodes -> Admins \cup {Free}], writing'[home[a]] = a,
         \A b \in Admins \ {a} : writing[home[b]] = b => writing'[home[b]] = b
  PROVE  IInv'
<1>1. a \in Tasks /\ job[a] \in Known
  BY DEF IInv, Tasks, Typed
<1>2. Append(base, job[a].edit) \in Document /\ job[a].tries + 1 \in Nat
  BY <1>1 DEF Known, Document
<1>3. PICK j : j = [job[a] EXCEPT !.base = base, !.tries = @ + 1, !.doc = Append(base, job[a].edit)]
  OBVIOUS
<1>4. j \in Known /\ j.edit = job[a].edit /\ j.expect = job[a].expect /\ j.base = base
      /\ j.doc = Append(base, job[a].edit)
  BY <1>1, <1>2, <1>3 DEF Known
<1>5. pc' = [pc EXCEPT ![a] = "write"] /\ job' = [job EXCEPT ![a] = j]
  BY <1>3 DEF Start, Goto
<1>6. Held(j.base)'
  BY <1>4 DEF Held
<1>7. j.edit.id <= issued'
  BY <1>1, <1>4 DEF IInv, Sound
<1>8. Sound(a, "write", j)'
  BY <1>4, <1>6, <1>7 DEF Sound, Composing, places, Writers, Committing
<1>9. issued' \in issued .. MaxEdits /\ NoLostEdit' /\ "write" \in Labels
  BY DEF IInv, Typed, NoLostEdit, Labels
<1>10. \A b \in Admins \ {a} : pc[b] \in Committing => job[b].edit.id # j.edit.id
  BY <1>4 DEF IInv, Numbered
<1>11. QED
  BY <1>1, <1>4, <1>5, <1>8, <1>9, <1>10, Moved DEF IInv, Typed

\* An operator asks: the edit has a number that no other has.
LEMMA AskStep ==
  ASSUME IInv, NEW a \in Admins, Ask(a)
  PROVE  IInv'
<1>1. /\ issued' = issued + 1 /\ issued < MaxEdits
      /\ UNCHANGED <<store, temp, cached, writing, places, acked>>
  BY DEF Ask, stored
<1>2. PICK object \in Objects, guarded \in BOOLEAN :
        Goto(a, "lock", [Idle EXCEPT
               !.edit = [id |-> issued', object |-> object],
               !.expect = IF guarded THEN version(cached[home[a]]) ELSE None])
  BY DEF Ask
<1>3. PICK e, x : /\ e = [id |-> issued', object |-> object]
                  /\ x = IF guarded THEN version(cached[home[a]]) ELSE None
  OBVIOUS
<1>4. a \in Tasks /\ e \in Edit /\ e.id = issued + 1 /\ x \in Nat \cup {None}
  BY <1>1, <1>3, ControlPlaneAssumption
     DEF IInv, Tasks, Typed, Edit, version, Document, ControlPlaneAssumption
<1>5. PICK j : j = [Idle EXCEPT !.edit = e, !.expect = x]
  OBVIOUS
<1>6. j \in Known /\ j.edit = e
  BY <1>4, <1>5, Idles
<1>7. pc' = [pc EXCEPT ![a] = "lock"] /\ job' = [job EXCEPT ![a] = j]
  BY <1>2, <1>3, <1>5 DEF Goto
<1>8. j.edit.id <= issued'
  BY <1>1, <1>4, <1>6 DEF IInv, Typed
<1>9. Sound(a, "lock", j)'
  BY <1>8 DEF Sound, Composing, Writers, Committing
<1>10. \A b \in Admins \ {a} : pc[b] \in Committing => job[b].edit.id # j.edit.id
  <2>1. \A b \in Admins : pc[b] \in Committing => job[b].edit.id <= issued /\ job[b].edit.id \in Nat
    BY DEF IInv, Sound, Tasks, Typed, Known, Edit
  <2>2. QED
    BY <1>4, <1>6, <2>1 DEF IInv, Typed
<1>11. issued' \in issued .. MaxEdits /\ NoLostEdit' /\ "lock" \in Labels
  BY <1>1, ControlPlaneAssumption DEF IInv, Typed, NoLostEdit, Labels, ControlPlaneAssumption
<1>12. cached' \in [Nodes -> Document] /\ writing' \in [Nodes -> Admins \cup {Free}]
       /\ \A n \in Nodes : Held(cached[n])'
  BY <1>1 DEF IInv, Typed, Held
<1>13. QED
  BY <1>1, <1>4, <1>6, <1>7, <1>9, <1>10, <1>11, <1>12, Moved DEF IInv, Typed

\* Store::commit takes the lock of the node, and starts on the copy it caches.
LEMMA LockStep ==
  ASSUME IInv, NEW a \in Admins, Lock(a)
  PROVE  IInv'
<1> DEFINE n == home[a]
<1>1. a \in Tasks /\ n \in Nodes /\ cached[n] \in Document /\ Held(cached[n])
      /\ Idle \in Known /\ Idle.expect = None
  BY Idles DEF IInv, Tasks, Typed
<1>2. pc[a] = "lock" /\ writing[n] = Free
      /\ UNCHANGED <<store, temp, cached, places, acked, issued>>
  BY DEF IInv, Lock, counters, stored
<1>3. cached' \in [Nodes -> Document] /\ \A m \in Nodes : Held(cached[m])'
  BY <1>2 DEF IInv, Typed, Held
<1>4. CASE Unexpected(a, cached[n])
  <2>1. writing' = writing /\ Goto(a, "idle", Idle)
    BY <1>4 DEF Lock
  <2>2. writing' \in [Nodes -> Admins \cup {Free}]
    BY <2>1 DEF IInv, Typed
  <2>3. QED
    BY <1>1, <1>2, <1>3, <2>1, <2>2, Done
<1>5. CASE ~Unexpected(a, cached[n])
  <2>1. writing' = [writing EXCEPT ![n] = a] /\ Start(a, cached[n])
    BY <1>5 DEF IInv, Lock
  <2>2. writing' \in [Nodes -> Admins \cup {Free}] /\ writing'[home[a]] = a
        /\ \A b \in Admins \ {a} : writing[home[b]] = b => writing'[home[b]] = b
    BY <1>1, <1>2, <2>1, ControlPlaneAssumption DEF IInv, Typed, Tasks, Free, ControlPlaneAssumption
  <2>3. job[a].expect \in {None, Len(cached[n])}
    BY <1>5 DEF IInv, Unexpected, version
  <2>4. QED
    BY <1>1, <1>2, <1>3, <2>1, <2>2, <2>3, Starts DEF Committing
<1>6. QED
  BY <1>4, <1>5

\* A task that goes on with its edit, holding the lock.
LEMMA Works ==
  ASSUME IInv, NEW a \in Admins, pc[a] \in Writers, NEW l \in Writers, NEW j \in Known,
         j.edit = job[a].edit, Goto(a, l, j),
         UNCHANGED <<cached, writing, places, acked, issued>>,
         store' = store \/ \E e \in Edit : store' = Append(store, e),
         temp' \in Document, <<store, temp>>' # <<store, temp>> => Alone(a),
         Sound(a, l, j)'
  PROVE  IInv'
<1>1. pc' = [pc EXCEPT ![a] = l] /\ job' = [job EXCEPT ![a] = j] /\ l \in Labels /\ a \in Tasks
  BY DEF Goto, Writers, Labels, Tasks
<1>2. ToSet(store) \subseteq ToSet(store') /\ \A doc \in Document : Held(doc) => Held(doc)'
  BY Extends DEF IInv
<1>3. cached' \in [Nodes -> Document] /\ writing' \in [Nodes -> Admins \cup {Free}]
      /\ \A n \in Nodes : cached[n] \in Document /\ Held(cached[n])
  BY DEF IInv, Typed
<1>4. \A n \in Nodes : Held(cached[n])'
  BY <1>2, <1>3
<1>5. issued' \in issued .. MaxEdits /\ NoLostEdit'
  BY <1>2 DEF IInv, Typed, NoLostEdit
<1>6. \A b \in Admins \ {a} : pc[b] \in Committing => job[b].edit.id # j.edit.id
  BY DEF IInv, Numbered, Committing
<1>7. QED
  BY <1>1, <1>3, <1>4, <1>5, <1>6, Moved

\* What a task knows of the document it is about to write.
LEMMA Composed ==
  ASSUME IInv, NEW a \in Admins, pc[a] \in Composing
  PROVE  /\ job[a] \in Known /\ Held(job[a].base) /\ job[a].doc = Append(job[a].base, job[a].edit)
         /\ job[a].doc \in Document /\ job[a].doc # << >>
         /\ job[a].expect \in {None, Len(job[a].base)}
         /\ pc[a] # "write" => backend = "file" /\ job[a].base = store /\ Alone(a)
         /\ pc[a] = "replace" => temp = job[a].doc
         /\ pc[a] \in Writers /\ a \in Tasks /\ job[a].edit.id <= issued
         /\ Len(job[a].base) = Len(store) => job[a].base = store
<1>1. a \in Tasks /\ job[a] \in Known /\ Sound(a, pc[a], job[a])
  BY DEF IInv, Typed, Tasks
<1>2. job[a].base \in Document /\ job[a].doc \in Document /\ job[a].edit \in Edit
  BY <1>1 DEF Known
<1>3. Held(job[a].base) /\ (Len(job[a].base) = Len(store) => job[a].base = store)
  BY <1>1, <1>2, SameVersion DEF Sound, Composing, IInv
<1>4. job[a].doc # << >>
  BY <1>1, <1>2 DEF Sound, Composing, Document
<1>5. pc[a] \in Writers
  BY DEF Composing, Writers
<1>6. pc[a] # "write" => backend = "file" /\ job[a].base = store
  BY <1>1 DEF Sound, Composing
<1>7. pc[a] # "write" => Alone(a)
  BY <1>5, <1>6, Locks DEF Alone, Writers
<1>8. QED
  BY <1>1, <1>2, <1>3, <1>4, <1>5, <1>6, <1>7 DEF Sound, Composing, Writers, Committing

\* The edit is made on the document as it is, conditionally or by a rename.
LEMMA Makes ==
  ASSUME IInv, NEW a \in Admins, pc[a] \in Composing, job[a].base = store,
         store' = job[a].doc, temp' \in Document, Goto(a, "written", job[a]), Alone(a),
         UNCHANGED <<cached, writing, places, acked, issued>>
  PROVE  IInv'
<1>1. job[a] \in Known /\ pc[a] \in Writers /\ a \in Tasks /\ store \in Document
      /\ store' = Append(store, job[a].edit) /\ job[a].edit.id <= issued
      /\ job[a].edit \in Edit
  BY Composed DEF IInv, Typed, Known
<1>2. PICK j : j = job[a]
  OBVIOUS
<1>3. j \in Known /\ j.doc = store' /\ j.edit = job[a].edit
  BY <1>1, <1>2
<1>4. Held(j.doc)' /\ j.doc # << >> /\ j.doc[Len(j.doc)] = j.edit
  BY <1>1, <1>3 DEF Held, Document
<1>5. writing[home[a]] = a
  BY <1>1, Locks
<1>6. Sound(a, "written", j)'
  BY <1>1, <1>3, <1>4, <1>5 DEF Sound, Composing, places, Writers, Committing
<1>7. Goto(a, "written", j) /\ "written" \in Writers
  BY <1>2 DEF Writers
<1>8. QED
  BY <1>1, <1>3, <1>6, <1>7, Works

\* The write did not match, or is yet to be made over a file whose version did.
LEMMA Looks ==
  ASSUME IInv, NEW a \in Admins, pc[a] \in Composing,
         NEW l \in {"conflict", "stage", "replace"}, Goto(a, l, job[a]),
         l # "conflict" => backend = "file" /\ job[a].base = store,
         temp' \in Document, temp' # temp => Alone(a), l = "replace" => temp' = job[a].doc,
         UNCHANGED <<store, cached, writing, places, acked, issued>>
  PROVE  IInv'
<1>1. PICK j : j = job[a]
  OBVIOUS
<1>2. /\ j \in Known /\ pc[a] \in Writers /\ a \in Tasks
      /\ Held(j.base) /\ j.doc = Append(j.base, j.edit)
      /\ j.expect \in {None, Len(j.base)} /\ j.edit.id <= issued /\ writing[home[a]] = a
  BY <1>1, Composed, Locks
<1>3. Held(j.base)'
  BY <1>2 DEF Held
<1>4. Sound(a, l, j)'
  BY <1>1, <1>2, <1>3 DEF Sound, Composing, places, Writers, Committing
<1>5. l \in Writers
  BY DEF Writers
<1>6. QED
  BY <1>1, <1>2, <1>4, <1>5, Works

\* The conditional write, and the steps of that of FileStore.
LEMMA WriteStep ==
  ASSUME IInv, NEW a \in Admins, Write(a) \/ ReadVersion(a) \/ Stage(a) \/ Rename(a)
  PROVE  IInv'
<1>1. UNCHANGED <<cached, places, acked, issued>> /\ pc[a] \in Composing
  BY DEF Write, ReadVersion, Stage, Rename, counters, Composing
<1>2. temp \in Document /\ << >> \in Document
  BY Itself DEF IInv, Typed
<1>3. CASE Write(a) \/ ReadVersion(a)
  <2>1. pc[a] = "write" /\ UNCHANGED <<temp, writing>>
    BY <1>3 DEF Write, ReadVersion, stored
  <2>2. CASE Goto(a, "conflict", job[a]) /\ UNCHANGED store
    BY <1>1, <1>2, <2>1, <2>2, Looks
  <2>3. CASE Write(a) /\ version(store) = version(job[a].base)
    <3>1. store' = job[a].doc /\ Goto(a, "written", job[a]) /\ backend # "file"
      BY <2>3 DEF Write
    <3>2. job[a].base = store
      BY <1>1, <2>3, Composed DEF version
    <3>3. Alone(a)
      BY <3>1, Composed DEF Alone, Composing
    <3>4. QED
      BY <1>1, <1>2, <2>1, <3>1, <3>2, <3>3, Makes
  <2>4. CASE ReadVersion(a) /\ version(store) = version(job[a].base)
    <3>1. Goto(a, "stage", job[a]) /\ backend = "file" /\ UNCHANGED store
      BY <2>4 DEF ReadVersion, stored
    <3>2. job[a].base = store
      BY <1>1, <2>4, Composed DEF version
    <3>3. QED
      BY <1>1, <1>2, <2>1, <3>1, <3>2, Looks
  <2>5. QED
    BY <1>3, <2>2, <2>3, <2>4 DEF Write, ReadVersion, stored
<1>4. CASE Stage(a)
  <2>1. pc[a] = "stage" /\ temp' = job[a].doc /\ Goto(a, "replace", job[a])
        /\ UNCHANGED <<store, writing>>
    BY <1>4 DEF Stage
  <2>2. QED
    BY <1>1, <2>1, Composed, Looks
<1>5. CASE Rename(a)
  <2>1. pc[a] = "replace"
    BY <1>5 DEF Rename
  <2>2. job[a].base = store /\ Alone(a) /\ temp = job[a].doc /\ temp # << >>
    BY <1>1, <2>1, Composed
  <2>3. store' = job[a].doc /\ temp' = << >> /\ Goto(a, "written", job[a]) /\ UNCHANGED writing
    BY <1>5, <2>2 DEF Rename
  <2>4. QED
    BY <1>1, <1>2, <2>2, <2>3, Makes
<1>6. QED
  BY <1>3, <1>4, <1>5

\* The answer of the backend: what the operator is told is in the document.
LEMMA AcknowledgeStep ==
  ASSUME IInv, NEW a \in Admins, Acknowledge(a)
  PROVE  IInv'
<1>1. PICK j : j = [Idle EXCEPT !.adopts = job[a].edit.object = "config"]
  OBVIOUS
<1>2. PICK l \in {"idle", "collect"} : Goto(a, l, j)
  BY <1>1 DEF Acknowledge
<1>3. pc[a] = "written" /\ cached' = [cached EXCEPT ![home[a]] = job[a].doc]
      /\ acked' = acked \cup {job[a].edit} /\ writing' = [writing EXCEPT ![home[a]] = Free]
      /\ UNCHANGED <<store, temp, places, issued>>
  BY DEF Acknowledge, counters, stored
<1>4. a \in Tasks /\ job[a] \in Known /\ Sound(a, pc[a], job[a]) /\ home[a] \in Nodes
  BY DEF IInv, Tasks, Typed
<1>5. Held(job[a].doc) /\ job[a].doc # << >> /\ job[a].doc[Len(job[a].doc)] = job[a].edit
      /\ job[a].doc \in Document
  BY <1>3, <1>4 DEF Sound, Known
<1>6. cached' \in [Nodes -> Document] /\ \A n \in Nodes : Held(cached[n])'
  BY <1>3, <1>4, <1>5 DEF IInv, Typed, Held
<1>7. job[a].edit \in ToSet(store)
  <2>1. Len(job[a].doc) \in Nat \ {0}
    BY <1>5 DEF Document
  <2>2. store \in Seq(Edit) /\ Len(store) \in Nat /\ Len(job[a].doc) \in 1 .. Len(store)
    BY <1>5, <2>1 DEF Held, IInv, Typed, Document
  <2>3. DOMAIN store = 1 .. Len(store) /\ store[Len(job[a].doc)] = job[a].edit
    BY <1>5, <2>2 DEF Held
  <2>4. QED
    BY <2>2, <2>3 DEF ToSet
<1>8. NoLostEdit'
  BY <1>3, <1>7 DEF IInv, NoLostEdit
<1>9. j \in Known /\ j.expect = None
  <2>1. (job[a].edit.object = "config") \in BOOLEAN
    OBVIOUS
  <2>2. QED
    BY <1>1, <2>1, Idles, Zenon
<1>10. writing' \in [Nodes -> Admins \cup {Free}]
       /\ \A b \in Admins \ {a} : writing[home[b]] = b => writing'[home[b]] = b
  BY <1>3, Locks DEF Writers
<1>11. PICK k \in Known :
         k.expect = None /\ pc' = [pc EXCEPT ![a] = l] /\ job' = [job EXCEPT ![a] = k]
  BY <1>2, <1>9, Idles DEF Goto
<1>12. Sound(a, l, k)' /\ l \in Labels /\ l \notin Committing
  BY <1>11 DEF Sound, Composing, Writers, Committing, Labels
<1>13. issued' \in issued .. MaxEdits
  BY <1>3 DEF IInv, Typed
<1>14. QED
  BY <1>3, <1>4, <1>6, <1>8, <1>10, <1>11, <1>12, <1>13, Moved DEF IInv, Typed

\* The answer is lost: the operator is told of a failure.
LEMMA FailStep ==
  ASSUME IInv, NEW a \in Admins, Fail(a)
  PROVE  IInv'
<1>1. pc[a] \in Writers /\ Goto(a, "idle", Idle) /\ writing' = [writing EXCEPT ![home[a]] = Free]
      /\ UNCHANGED <<store, temp, cached, places, acked, issued>>
  BY DEF Fail, Refused, counters, stored, Writers
<1>2. writing' \in [Nodes -> Admins \cup {Free}]
      /\ \A b \in Admins \ {a} : writing[home[b]] = b => writing'[home[b]] = b
  BY <1>1, Locks
<1>3. cached' \in [Nodes -> Document] /\ \A n \in Nodes : Held(cached[n])'
  BY <1>1 DEF IInv, Typed, Held
<1>4. a \in Tasks
  BY DEF Tasks
<1>5. QED
  BY <1>1, <1>2, <1>3, <1>4, Done, Idles

\* TakeUp: a node changes to a document the store has been.
LEMMA TakesUp ==
  ASSUME IInv, NEW n \in Nodes, NEW doc \in Document, Held(doc), TakeUp(n, doc), UNCHANGED store
  PROVE  cached' \in [Nodes -> Document] /\ \A m \in Nodes : Held(cached[m])' /\ Held(cached'[m])
<1>1. cached' \in [Nodes -> Document] /\ \A m \in Nodes : Held(cached'[m])
  BY DEF IInv, Typed, TakeUp
<1>2. QED
  BY <1>1 DEF Held

\* After a conflict: done, or the edit is made again on what the node caches.
LEMMA AgainStep ==
  ASSUME IInv, NEW a \in Admins, pc[a] \in Writers, Again(a, cached'[home[a]]),
         UNCHANGED <<store, temp, places, acked, issued>>,
         cached' \in [Nodes -> Document],
         \A m \in Nodes : Held(cached[m])' /\ Held(cached'[m])
  PROVE  IInv'
<1>1. a \in Tasks /\ home[a] \in Nodes
  BY DEF IInv, Tasks, Typed
<1>2. CASE Goto(a, "idle", Idle) /\ writing' = [writing EXCEPT ![home[a]] = Free]
  <2>1. writing' \in [Nodes -> Admins \cup {Free}]
        /\ \A b \in Admins \ {a} : writing[home[b]] = b => writing'[home[b]] = b
    BY <1>2, Locks
  <2>2. QED
    BY <1>1, <1>2, <2>1, Done, Idles
<1>3. CASE job[a].expect = None /\ Start(a, cached'[home[a]]) /\ UNCHANGED writing
  <2>1. PICK base \in Document : base = cached'[home[a]]
    BY <1>1
  <2>2. Held(base) /\ Start(a, base)
    BY <1>1, <1>3, <2>1
  <2>3. writing' \in [Nodes -> Admins \cup {Free}] /\ writing'[home[a]] = a
        /\ \A b \in Admins \ {a} : writing[home[b]] = b => writing'[home[b]] = b
    BY <1>3, Locks DEF IInv, Typed
  <2>4. QED
    BY <1>3, <2>2, <2>3, Starts DEF Committing
<1>4. QED
  BY <1>2, <1>3 DEF Again, Refused

\* The document is read again after a conflict.
LEMMA ReloadStep ==
  ASSUME IInv, NEW a \in Admins, Reload(a)
  PROVE  IInv'
<1>1. pc[a] \in Writers /\ UNCHANGED <<store, temp, cached, places, acked, issued>>
  BY DEF Reload, Writers, counters, stored
<1>2. CASE Goto(a, "loaded", [job[a] EXCEPT !.doc = store]) /\ UNCHANGED writing
  <2>1. PICK j : j = [job[a] EXCEPT !.doc = store]
    OBVIOUS
  <2>2. a \in Tasks /\ job[a] \in Known /\ store \in Document /\ Sound(a, pc[a], job[a])
    BY DEF IInv, Typed, Tasks
  <2>3. j \in Known /\ j.doc = store /\ j.edit = job[a].edit
    BY <2>1, <2>2 DEF Known
  <2>4. Held(j.doc)'
    BY <1>1, <2>2, <2>3 DEF Held, Document
  <2>5. writing[home[a]] = a /\ j.edit.id <= issued
    BY <1>1, <2>2, <2>3 DEF Sound, Committing
  <2>6. Sound(a, "loaded", j)'
    BY <1>1, <1>2, <2>4, <2>5 DEF Sound, Composing, places, Writers, Committing
  <2>7. Goto(a, "loaded", j) /\ "loaded" \in Writers
    BY <1>2, <2>1 DEF Writers
  <2>8. QED
    BY <1>1, <1>2, <2>3, <2>6, <2>7, Works DEF IInv, Typed
<1>3. CASE Again(a, cached[home[a]])
  <2>1. Again(a, cached'[home[a]])
    BY <1>1, <1>3
  <2>2. cached' \in [Nodes -> Document] /\ \A m \in Nodes : Held(cached[m])' /\ Held(cached'[m])
    BY <1>1 DEF IInv, Typed, Held
  <2>3. QED
    BY <1>1, <2>1, <2>2, AgainStep
<1>4. QED
  BY <1>2, <1>3 DEF Reload

\* What was read is taken up before the edit is made again.
LEMMA RetryStep ==
  ASSUME IInv, NEW a \in Admins, Retry(a)
  PROVE  IInv'
<1>1. pc[a] = "loaded" /\ TakeUp(home[a], job[a].doc) /\ Again(a, cached'[home[a]])
      /\ UNCHANGED <<store, temp, places, acked, issued>>
  BY DEF Retry, counters, stored
<1>2. home[a] \in Nodes /\ job[a].doc \in Document /\ Held(job[a].doc) /\ pc[a] \in Writers
  BY <1>1 DEF IInv, Typed, Tasks, Known, Sound, Writers
<1>3. cached' \in [Nodes -> Document] /\ \A m \in Nodes : Held(cached[m])' /\ Held(cached'[m])
  BY <1>1, <1>2, TakesUp
<1>4. QED
  BY <1>1, <1>2, <1>3, AgainStep

\* The refresher reads the store, and the node takes it up.
LEMMA PollStep ==
  ASSUME IInv, NEW r \in Refreshers, Poll(r)
  PROVE  IInv'
<1>1. r \in Tasks /\ r \notin Admins /\ home[r] \in Nodes /\ job[r].doc \in Document
      /\ Sound(r, pc[r], job[r]) /\ store \in Document
      /\ \A a \in Admins : a \in Tasks /\ home[a] \in Nodes
  BY ControlPlaneAssumption DEF IInv, Typed, Tasks, Refreshers, Known, ControlPlaneAssumption
<1>2. UNCHANGED <<store, temp, writing, places, acked, issued>>
  BY DEF Poll, Fetch, Refresh, counters, stored
<1>3. writing' \in [Nodes -> Admins \cup {Free}]
      /\ \A b \in Admins \ {r} : writing[home[b]] = b => writing'[home[b]] = b
  BY <1>2 DEF IInv, Typed
<1>4. CASE Fetch(r)
  <2>1. PICK j : j = [Idle EXCEPT !.doc = store]
    OBVIOUS
  <2>2. j \in Known /\ j.doc = store
    BY <1>1, <2>1, Idles
  <2>3. pc' = [pc EXCEPT ![r] = "loaded"] /\ job' = [job EXCEPT ![r] = j] /\ UNCHANGED cached
    BY <1>4, <2>1 DEF Fetch, Goto
  <2>4. Sound(r, "loaded", j)'
    BY <1>1, <1>2, <2>2 DEF Sound, Held, Document
  <2>5. cached' \in [Nodes -> Document] /\ \A n \in Nodes : Held(cached[n])'
    BY <1>2, <2>3 DEF IInv, Typed, Held
  <2>6. issued' \in issued .. MaxEdits /\ NoLostEdit' /\ "loaded" \in Labels
    BY <1>2 DEF IInv, Typed, NoLostEdit, Labels
  <2>7. QED
    BY <1>1, <1>2, <1>3, <2>2, <2>3, <2>4, <2>5, <2>6, Moved DEF IInv, Typed
<1>5. CASE Refresh(r)
  <2>1. pc[r] = "loaded" /\ TakeUp(home[r], job[r].doc)
    BY <1>5 DEF Refresh
  <2>2. Held(job[r].doc)
    BY <1>1, <2>1 DEF Sound
  <2>3. cached' \in [Nodes -> Document] /\ \A m \in Nodes : Held(cached[m])'
    BY <1>1, <1>2, <2>1, <2>2, TakesUp
  <2>4. PICK j \in Known, l \in {"idle", "collect", "publish"} : Goto(r, l, j) /\ j.expect = None
    BY <1>5, Idles DEF Refresh
  <2>5. QED
    BY <1>1, <1>2, <1>3, <2>3, <2>4, Done
<1>6. QED
  BY <1>4, <1>5 DEF Poll

\* Tables are built and published.
LEMMA BuildStep ==
  ASSUME IInv, NEW t \in Tasks, Build(t)
  PROVE  IInv'
<1>1. UNCHANGED <<store, temp, cached, writing, places, acked, issued>>
  BY DEF Build, Collect, Publish, counters, stored
<1>2. cached' \in [Nodes -> Document] /\ \A n \in Nodes : Held(cached[n])'
  BY <1>1 DEF IInv, Typed, Held
<1>3. writing' \in [Nodes -> Admins \cup {Free}]
      /\ \A b \in Admins \ {t} : writing[home[b]] = b => writing'[home[b]] = b
  BY <1>1 DEF IInv, Typed
<1>4. CASE Collect(t)
  <2>1. PICK b, doc, j :
          /\ b = (job[t].adopts /\ text(cached[home[t]]) # applied[home[t]])
          /\ doc = cached[home[t]] /\ j = [Idle EXCEPT !.doc = doc, !.adopts = b]
    OBVIOUS
  <2>2. Goto(t, "publish", j)
    BY <1>4, <2>1, Zenon DEF Collect
  <2>3. b \in BOOLEAN
    BY <2>1, Zenon
  <2>4. doc \in Document
    BY <2>1 DEF IInv, Typed
  <2>5. j \in Known /\ j.expect = None
    BY <2>1, <2>3, <2>4, Idles, Zenon
  <2>6. QED
    BY <1>1, <1>2, <1>3, <2>2, <2>5, Done
<1>5. CASE Publish(t)
  <2>1. Goto(t, "idle", Idle)
    BY <1>5 DEF Publish
  <2>2. QED
    BY <1>1, <1>2, <1>3, <2>1, Done, Idles
<1>6. QED
  BY <1>4, <1>5 DEF Build

\* A node is replaced: its tasks and its lock are gone, the new one opens the store.
LEMMA RestartStep ==
  ASSUME IInv, NEW n \in Nodes, Restart(n)
  PROVE  IInv'
<1>1. UNCHANGED <<store, temp, backend, home, issued, acked>>
      /\ cached' = [cached EXCEPT ![n] = store] /\ writing' = [writing EXCEPT ![n] = Free]
      /\ pc' = [t \in Tasks |-> IF home[t] = n THEN "idle" ELSE pc[t]]
      /\ job' = [t \in Tasks |-> IF home[t] = n THEN Idle ELSE job[t]]
  BY DEF Restart, stored, places
<1>2. Typed'
  <2>1. pc' \in [Tasks -> Labels] /\ job' \in [Tasks -> Known]
    BY <1>1, Idles DEF IInv, Typed, Labels
  <2>2. cached' \in [Nodes -> Document] /\ writing' \in [Nodes -> Admins \cup {Free}]
    BY <1>1 DEF IInv, Typed
  <2>3. QED
    BY <1>1, <2>1, <2>2 DEF IInv, Typed
<1>3. \A m \in Nodes : Held(cached[m])'
  BY <1>1 DEF IInv, Typed, Held, Document
<1>4. ASSUME NEW t \in Tasks
      PROVE  Sound(t, pc[t], job[t])'
  <2>1. CASE home[t] = n
    <3>1. pc'[t] = "idle" /\ job'[t] = Idle
      BY <1>1, <2>1
    <3>2. QED
      BY <3>1, Idles DEF Sound, Composing, Writers, Committing
  <2>2. CASE home[t] # n
    <3>1. pc'[t] = pc[t] /\ job'[t] = job[t] /\ Sound(t, pc[t], job[t])
      BY <1>1, <2>2 DEF IInv
    <3>2. t \in Admins => writing'[home[t]] = writing[home[t]]
      BY <1>1, <2>2 DEF IInv, Typed
    <3>3. QED
      BY <1>1, <3>1, <3>2 DEF Sound, Held
  <2>3. QED
    BY <2>1, <2>2
<1>5. Numbered' /\ NoLostEdit'
  BY <1>1 DEF IInv, Numbered, NoLostEdit, Tasks, Writers, Committing
<1>6. QED
  BY <1>1, <1>2, <1>3, <1>4, <1>5 DEF IInv

-----------------------------------------------------------------------------
(* Theorems *)

\* The invariant that the properties rest on: every document in the fleet is one
\* the store has been (conditional writes, or the one lock before a file that no
\* other process writes).
THEOREM Invariance == ~SharedVolume => (Spec => []IInv)
<1> SUFFICES ASSUME ~SharedVolume PROVE Spec => []IInv
  OBVIOUS
<1>1. IInv /\ [Next]_vars => IInv'
  <2> SUFFICES ASSUME IInv, [Next]_vars
               PROVE  IInv'
    OBVIOUS
  <2>1. ASSUME NEW a \in Admins, Ask(a) \/ Work(a) \/ Fail(a)
        PROVE  IInv'
    BY <2>1, AskStep, LockStep, WriteStep, AcknowledgeStep, FailStep, ReloadStep, RetryStep
       DEF Work
  <2>2. CASE UNCHANGED vars
    BY <2>2 DEF IInv, vars, Typed, Held, Sound, Numbered, NoLostEdit
  <2>3. QED
    BY <2>1, <2>2, PollStep, BuildStep, RestartStep DEF Next
<1>2. Init => IInv
  BY Opened
<1>3. QED
  BY <1>1, <1>2, PTL DEF Spec

\* An edit whose operator was told it was made stays in the document
\* (Store::commit and its retries), unless several nodes write one file.
THEOREM EditsKept == ~SharedVolume => (Spec => []NoLostEdit)
<1> SUFFICES ASSUME ~SharedVolume PROVE Spec => []NoLostEdit
  OBVIOUS
<1>1. IInv => NoLostEdit
  BY DEF IInv
<1>2. QED
  BY Invariance, <1>1, PTL

\* The document changes by the edit of one commit, made on the document as it is.
LEMMA Made ==
  ASSUME IInv, [Next]_vars, store' # store
  PROVE  \E a \in Admins : /\ pc[a] \in Composing /\ job[a].base = store
                           /\ store' = Append(store, job[a].edit) /\ job[a].edit \in Edit
                           /\ UNCHANGED <<cached, acked>>
<1>1. PICK a \in Admins : Write(a) \/ Rename(a)
  BY DEF Next, vars, Ask, Work, Lock, ReadVersion, Stage, Acknowledge, Reload, Retry, Fail, Poll, Fetch,
         Refresh, Build, Collect, Publish, Restart, Refused, stored
<1>2. pc[a] \in Composing /\ store' = job[a].doc /\ UNCHANGED <<cached, acked>>
      /\ (pc[a] = "write" => version(store) = version(job[a].base))
  BY <1>1, Composed DEF Write, Rename, Composing, stored
<1>3. job[a].doc = Append(job[a].base, job[a].edit) /\ job[a].base = store /\ job[a].edit \in Edit
  BY <1>2, Composed DEF version, Known
<1>4. QED
  BY <1>2, <1>3

\* An edit composed against a version is made on that version or not at all
\* (the expected version of Store::commit), unless several nodes write one file.
THEOREM GuardsHold == ~SharedVolume => (Spec => GuardedEdits)
<1> SUFFICES ASSUME ~SharedVolume PROVE Spec => GuardedEdits
  OBVIOUS
<1> DEFINE Guarded ==
      \A e \in ToSet(store') \ ToSet(store) : \A a \in Admins :
        job[a].edit = e /\ job[a].expect # None => job[a].expect = version(store)
<1>1. IInv /\ [Next]_vars => Guarded
  <2> SUFFICES ASSUME IInv, [Next]_vars,
                      NEW e \in ToSet(store') \ ToSet(store), NEW a \in Admins,
                      job[a].edit = e, job[a].expect # None
               PROVE  job[a].expect = version(store)
    OBVIOUS
  <2>1. store' # store
    OBVIOUS
  <2>2. PICK b \in Admins : /\ pc[b] \in Composing /\ job[b].base = store
                            /\ store' = Append(store, job[b].edit)
    BY <2>1, Made
  <2>3. e = job[b].edit
    <3>1. store \in Seq(Edit) /\ job[b].edit \in Edit
      BY <2>2, Composed DEF IInv, Typed, Document, Known
    <3>2. \A i \in DOMAIN store' :
            (i \in DOMAIN store /\ store'[i] = store[i]) \/ store'[i] = job[b].edit
      BY <2>2, <3>1
    <3>3. QED
      BY <3>2 DEF ToSet
  <2>4. pc[a] \in Committing /\ pc[b] \in Committing
    BY <2>2 DEF IInv, Sound, Composing, Tasks, Committing, Writers
  <2>5. a = b
    BY <2>3, <2>4 DEF IInv, Numbered
  <2>6. QED
    BY <2>2, <2>5, Composed DEF version
<1>2. IInv /\ [Next]_vars => [Guarded]_vars
  BY <1>1
<1>3. QED
  BY Invariance, <1>2, PTL DEF Spec, GuardedEdits

\* The copies of the nodes, by version.
View == [n \in Nodes |-> version(cached[n])]

\* A node whose copy becomes one the store has been reflects so many of its edits.
LEMMA Viewed ==
  ASSUME IInv, NEW n \in Nodes, NEW doc \in Document, Held(doc),
         cached' = [cached EXCEPT ![n] = doc]
  PROVE  View' = [View EXCEPT ![n] = Len(doc)] /\ Len(doc) \in 0 .. Len(store)
<1>1. cached \in [Nodes -> Document] /\ Len(doc) \in Nat /\ Len(store) \in Nat
  BY DEF IInv, Typed, Document
<1>2. Len(doc) \in 0 .. Len(store)
  BY <1>1 DEF Held
<1>3. View' = [View EXCEPT ![n] = Len(doc)]
  BY <1>1 DEF View, version
<1>4. QED
  BY <1>2, <1>3

\* The store with its caches, conflicts and retries implements SharedDocument: one
\* document that edits extend, of which each node holds a beginning, unless
\* several nodes write one file.
THEOREM Refinement == ~SharedVolume => (Spec => DocumentShared)
<1> SUFFICES ASSUME ~SharedVolume PROVE Spec => DocumentShared
  OBVIOUS
<1>1. Init => Shared!DocumentInit
  BY DEF Init, Shared!DocumentInit, version
<1>2. IInv /\ [Next]_vars => [Shared!DocumentNext]_(Shared!dvars)
  <2> SUFFICES ASSUME IInv, [Next]_vars
               PROVE  Shared!DocumentNext \/ UNCHANGED Shared!dvars
    OBVIOUS
  <2>1. CASE store' # store
    <3>1. PICK a \in Admins : store' = Append(store, job[a].edit) /\ job[a].edit \in Edit
                              /\ UNCHANGED <<cached, acked>>
      BY <2>1, Made
    <3>2. Shared!Extend
      BY <3>1 DEF Shared!Extend
    <3>3. QED
      BY <3>2 DEF Shared!DocumentNext
  <2>2. CASE UNCHANGED <<store, cached, acked>>
    BY <2>2 DEF Shared!dvars
  <2>3. ASSUME NEW n \in Nodes, NEW doc \in Document, Held(doc), UNCHANGED <<store, acked>>,
               cached' = [cached EXCEPT ![n] = doc]
        PROVE  Shared!DocumentNext
    <3>1. Shared!Look(n)
      BY <2>3, Viewed DEF Shared!Look, View
    <3>2. QED
      BY <2>3, <3>1 DEF Shared!DocumentNext
  <2>4. ASSUME NEW a \in Admins, Acknowledge(a)
        PROVE  Shared!DocumentNext
    <3>1. pc[a] = "written" /\ cached' = [cached EXCEPT ![home[a]] = job[a].doc]
          /\ acked' = acked \cup {job[a].edit} /\ UNCHANGED store
      BY <2>4 DEF Acknowledge, stored
    <3>2. job[a].doc \in Document /\ home[a] \in Nodes /\ Held(job[a].doc)
          /\ job[a].doc # << >> /\ job[a].doc[Len(job[a].doc)] = job[a].edit
      BY <3>1 DEF IInv, Typed, Tasks, Known, Sound
    <3>3. PICK i : i = Len(job[a].doc)
      OBVIOUS
    <3>4. i \in 1 .. Len(store) /\ store[i] = job[a].edit
      <4>1. i \in Nat \ {0}
        BY <3>2, <3>3 DEF Document
      <4>2. i \in 1 .. Len(store)
        BY <3>2, <3>3, <4>1 DEF Held
      <4>3. QED
        BY <3>2, <3>3, <4>1, <4>2 DEF Held
    <3>5. View' = [View EXCEPT ![home[a]] = i]
      BY <3>1, <3>2, <3>3, Viewed
    <3>6. Shared!Acknowledge(home[a])
      BY <3>1, <3>4, <3>5 DEF Shared!Acknowledge, View
    <3>7. QED
      BY <3>2, <3>6 DEF Shared!DocumentNext
  <2>5. ASSUME NEW t \in Tasks, UNCHANGED <<store, acked>>, pc[t] = "loaded",
               TakeUp(home[t], job[t].doc)
        PROVE  Shared!DocumentNext \/ UNCHANGED Shared!dvars
    <3>1. job[t].doc \in Document /\ home[t] \in Nodes /\ Held(job[t].doc)
      BY <2>5 DEF IInv, Typed, Known, Sound
    <3>2. QED
      BY <2>2, <2>3, <2>5, <3>1 DEF TakeUp
  <2>6. ASSUME NEW a \in Admins, Retry(a)
        PROVE  Shared!DocumentNext \/ UNCHANGED Shared!dvars
    BY <2>5, <2>6 DEF Retry, stored, Tasks
  <2>7. ASSUME NEW r \in Refreshers, Refresh(r)
        PROVE  Shared!DocumentNext \/ UNCHANGED Shared!dvars
    BY <2>5, <2>7 DEF Refresh, stored, Tasks
  <2>8. ASSUME NEW n \in Nodes, Restart(n)
        PROVE  Shared!DocumentNext
    <3>1. store \in Document /\ Held(store)
      BY Itself DEF IInv, Typed
    <3>2. QED
      BY <2>3, <2>8, <3>1 DEF Restart, stored
  <2>9. ASSUME NEW a \in Admins,
               Ask(a) \/ Lock(a) \/ ReadVersion(a) \/ Stage(a) \/ Reload(a) \/ Fail(a)
        PROVE  UNCHANGED <<store, cached, acked>>
    BY <2>9 DEF Ask, Lock, ReadVersion, Stage, Reload, Fail, stored
  <2>10. ASSUME NEW a \in Admins, Write(a) \/ Rename(a)
         PROVE  UNCHANGED <<cached, acked>>
    BY <2>10 DEF Write, Rename
  <2>11. ASSUME NEW t \in Tasks, Build(t) \/ Fetch(t)
         PROVE  UNCHANGED <<store, cached, acked>>
    BY <2>11 DEF Build, Collect, Publish, Fetch, stored
  <2>12. CASE UNCHANGED vars
    BY <2>2, <2>12 DEF vars
  <2>13. QED
    BY <2>1, <2>2, <2>4, <2>6, <2>7, <2>8, <2>9, <2>10, <2>11, <2>12
       DEF Next, Work, Poll, Tasks
<1>3. QED
  BY <1>1, <1>2, Invariance, PTL DEF Spec, DocumentShared, Shared!DocumentSpec

-----------------------------------------------------------------------------
(* The credential of a seat                                                *)

Phases == {"idle", "sent", "gate", "post", "answered", "persisted"}
Ages == {"fresh", "near", "expired"}
Local == [seat : Seats, cred : Credential, why : Why]

\* The labels at which a task has the gate of the file, and those at which its
\* rotation has been answered.
AtGate == {"post", "answered", "persisted"}
Answered == {"answered", "persisted"}

\* What is newer comes first to the endpoint, then to the file, then to memory;
\* what is stale can be replaced within bounds.
InOrder ==
  /\ file <= endpoint
  /\ PersistedFirst
  /\ loaded <= file
  /\ loaded # Unread => table <= MaxReloads
  /\ \A c \in Credential : Stale(c) => c < MaxCred

\* What a task may rely on where it stands.
Settled(t) ==
  /\ phase[t] # "idle" => local[t].seat[2] <= table
  /\ phase[t] \in AtGate => gate = t
  /\ phase[t] = "post" => local[t].cred = seat[local[t].seat] /\ Stale(local[t].cred)
  /\ phase[t] = "answered" => local[t].cred = endpoint
  /\ phase[t] = "persisted" => local[t].cred = file

\* A Seat is past the credentials it was renewed from, or about to be, or an
\* answer was lost.
Past(s, c) ==
  /\ s[2] <= table
  /\ c < endpoint
  /\ \/ c < seat[s]
     \/ lost
     \/ \E t \in Renewers : phase[t] \in Answered /\ local[t].seat = s /\ c < local[t].cred

SeatInv ==
  /\ SeatTypeOK
  /\ InOrder
  /\ \A t \in Renewers : Settled(t)
  /\ \A s \in Seats : \A c \in Credential : <<s, c>> \in rotated => Past(s, c)
  /\ RotationHeld
-----------------------------------------------------------------------------
(* What the steps have in common *)

\* A Seat is of one of the tables.
LEMMA SeatOfTable == \A s \in Seats : s[2] \in 1 .. MaxReloads + 1
BY SeatAssumption DEF SeatAssumption, Seats

\* What a task knows when it begins.
LEMMA Begins == Fresh \in Local
<1>1. Seats # {}
  <2>1. PICK slot \in Slots : TRUE
    BY SeatAssumption DEF SeatAssumption
  <2>2. 1 \in 1 .. MaxReloads + 1
    BY SeatAssumption DEF SeatAssumption
  <2>3. <<slot, 1>> \in Seats
    BY <2>1, <2>2 DEF Seats
  <2>4. QED
    BY <2>3
<1>2. (CHOOSE s \in Seats : TRUE) \in Seats
  BY <1>1
<1>3. 1 \in Credential /\ "tick" \in Why
  BY SeatAssumption DEF SeatAssumption, Credential, Why
<1>4. QED
  BY <1>2, <1>3 DEF Fresh, Local

\* Nobody is no task.
LEMMA FreeIsNobody == Nobody \notin Renewers
BY SeatAssumption DEF SeatAssumption, Nobody, Maintenance, Renewers

\* Move: the other tasks stay where they are.
LEMMA GotoFacts ==
  ASSUME SeatTypeOK, NEW t \in Renewers, NEW label \in Phases, NEW l \in Local, Move(t, label, l)
  PROVE  /\ phase' \in [Renewers -> Phases] /\ local' \in [Renewers -> Local]
         /\ phase'[t] = label /\ (label # "idle" => local'[t] = l)
         /\ \A u \in Renewers \ {t} : phase'[u] = phase[u] /\ local'[u] = local[u]
BY Begins DEF SeatTypeOK, Phases, Local, Move

\* A task moves on without an answered rotation: it gives up, is dropped, goes
\* on without a renewal, or has the gate and a stale credential to renew.
LEMMA Quiet ==
  ASSUME SeatInv, NEW t \in Renewers, NEW label \in Phases \ Answered, NEW l \in Local,
         Move(t, label, l), UNCHANGED <<endpoint, age, revoked, file, memory, crashes, rotated>>,
         lost' \in BOOLEAN, lost \/ phase[t] \in Answered => lost',
         gate' \in Renewers \cup {Nobody}, \A u \in Renewers \ {t} : gate = u => gate' = u,
         label # "idle" => l.seat[2] <= table,
         label = "post" => gate' = t /\ l.cred = seat[l.seat] /\ Stale(l.cred)
  PROVE  SeatInv'
<1> USE DEF SeatInv
<1>1. /\ phase' \in [Renewers -> Phases] /\ local' \in [Renewers -> Local]
      /\ phase'[t] = label /\ (label # "idle" => local'[t] = l)
      /\ \A u \in Renewers \ {t} : phase'[u] = phase[u] /\ local'[u] = local[u]
  BY GotoFacts
<1>2. SeatTypeOK'
  BY <1>1 DEF SeatTypeOK, Phases, Local, memory
<1>3. InOrder'
  BY DEF InOrder, PersistedFirst, Stale, memory
<1>4. ASSUME NEW u \in Renewers
      PROVE  Settled(u)'
  <2>1. CASE u = t
    BY <1>1, <2>1 DEF Settled, AtGate, Answered, Phases, Stale, memory
  <2>2. CASE u # t
    BY <1>1, <2>2 DEF Settled, AtGate, Stale, memory
  <2>3. QED
    BY <2>1, <2>2
<1>5. ASSUME NEW s \in Seats, NEW c \in Credential, (<<s, c>> \in rotated)'
      PROVE  Past(s, c)'
  <2>1. Past(s, c)
    BY <1>5
  <2>2. QED
    BY <1>1, <2>1 DEF Past, memory
<1>6. RotationHeld'
  BY <1>1 DEF RotationHeld, Answered
<1>7. QED
  BY <1>2, <1>3, <1>4, <1>5, <1>6

\* Return, with what a Seat holds or will hold.
LEMMA Returns ==
  ASSUME SeatTypeOK, NEW t \in Renewers, NEW held \in Credential, Return(t, held)
  PROVE  \E label \in {"idle", "sent"}, l \in Local :
           Move(t, label, l) /\ (label = "sent" => l.seat = local[t].seat)
<1>1. local[t] \in Local
  BY DEF SeatTypeOK, Local
<1>2. [local[t] EXCEPT !.cred = held] \in Local
      /\ [local[t] EXCEPT !.cred = held].seat = local[t].seat
  BY <1>1 DEF Local
<1>3. CASE local[t].why = "lease"
  BY <1>2, <1>3 DEF Return
<1>4. CASE local[t].why # "lease"
  BY <1>4, Begins DEF Return
<1>5. QED
  BY <1>3, <1>4

\* GiveUp: no more than that happens, unless an answer was lost.
LEMMA GivesUp ==
  ASSUME SeatInv, NEW t \in Renewers, phase[t] \in AtGate, GiveUp(t),
         UNCHANGED <<endpoint, age, revoked, file, memory, crashes, rotated>>,
         lost' \in BOOLEAN, lost \/ phase[t] \in Answered => lost'
  PROVE  SeatInv'
<1>1. SeatTypeOK /\ Settled(t)
  BY DEF SeatInv
<1>2. seat[local[t].seat] \in Credential
  BY <1>1 DEF SeatTypeOK
<1>3. PICK label \in {"idle", "sent"}, l \in Local :
        Move(t, label, l) /\ (label = "sent" => l.seat = local[t].seat)
  BY <1>1, <1>2, Returns DEF GiveUp
<1>4. label \in Phases \ Answered /\ label # "post"
  BY DEF Phases, Answered
<1>5. gate = t /\ gate' = Nobody /\ local[t].seat[2] <= table
  BY <1>1 DEF Settled, AtGate, GiveUp
<1>6. QED
  BY <1>3, <1>4, <1>5, Quiet
-----------------------------------------------------------------------------
(* Requests and the maintenance of seats *)

\* Lease: a request starts with the Seat of the table in force.
LEMMA LeaseStep == ASSUME SeatInv, NEW t \in Requests, Lease(t) PROVE SeatInv'
<1>1. SeatTypeOK /\ t \in Renewers
  BY DEF SeatInv, Renewers
<1>2. PICK slot \in Slots :
        LET s == <<slot, table>> IN
          /\ phase[t] = "idle"
          /\ Move(t, IF Stale(seat[s]) THEN "gate" ELSE "sent",
                  [seat |-> s, cred |-> seat[s], why |-> "lease"])
          /\ UNCHANGED <<world, file, memory, gate, crashes, history>>
  BY DEF Lease
<1> DEFINE s == <<slot, table>>
           l == [seat |-> s, cred |-> seat[s], why |-> "lease"]
           label == IF Stale(seat[s]) THEN "gate" ELSE "sent"
<1>3. s \in Seats /\ s[2] = table
  BY <1>1 DEF SeatTypeOK, Seats
<1>4. l \in Local /\ l.seat = s
  BY <1>1, <1>3 DEF SeatTypeOK, Local, Why
<1>5. label \in Phases \ Answered /\ label # "post"
  BY DEF Phases, Answered
<1>6. table \in 1 .. MaxReloads + 1
  BY <1>1 DEF SeatTypeOK
<1>7. l.seat[2] <= table
  BY <1>3, <1>4, <1>6, SeatAssumption DEF SeatAssumption
<1>8. Move(t, label, l) /\ UNCHANGED <<world, file, memory, gate, crashes, history>>
      /\ phase[t] = "idle"
  BY <1>2
<1>9. lost' \in BOOLEAN /\ gate' \in Renewers \cup {Nobody}
      /\ (lost \/ phase[t] \in Answered => lost')
  BY <1>1, <1>8 DEF SeatTypeOK, history, Answered
<1>10. UNCHANGED <<endpoint, age, revoked, file, memory, crashes, rotated, gate>>
  BY <1>8 DEF world, history
<1> HIDE DEF s, l, label
<1>11. QED
  BY <1>1, <1>4, <1>5, <1>7, <1>8, <1>9, <1>10, Quiet

\* Answer: the provider answers; a refusal sends the request to the gate.
LEMMA AnswerStep == ASSUME SeatInv, NEW t \in Requests, Answer(t) PROVE SeatInv'
<1>1. SeatTypeOK /\ t \in Renewers /\ Settled(t)
  BY DEF SeatInv, Renewers
<1>2. local[t] \in Local /\ phase[t] = "sent"
  BY <1>1 DEF SeatTypeOK, Local, Answer
<1>3. [local[t] EXCEPT !.why = "refused"] \in Local
      /\ [local[t] EXCEPT !.why = "refused"].seat = local[t].seat
  BY <1>2 DEF Local, Why
<1>4. PICK label \in {"idle", "gate"}, l \in Local :
        Move(t, label, l) /\ (label = "gate" => l.seat = local[t].seat)
  BY <1>3, Begins DEF Answer
<1>5. label \in Phases \ Answered /\ label # "post"
  BY DEF Phases, Answered
<1>6. local[t].seat[2] <= table
  BY <1>1, <1>2 DEF Settled
<1>7. lost' \in BOOLEAN /\ gate' \in Renewers \cup {Nobody}
      /\ (lost \/ phase[t] \in Answered => lost')
  BY <1>1, <1>2 DEF SeatTypeOK, history, Answered, Answer
<1>8. UNCHANGED <<endpoint, age, revoked, file, memory, crashes, rotated, gate>>
  BY DEF Answer, world, history
<1>9. QED
  BY <1>1, <1>4, <1>5, <1>6, <1>7, <1>8, Quiet

\* Disconnect: what an answered rotation brought is known to be lost.
LEMMA DisconnectStep == ASSUME SeatInv, NEW t \in Requests, Disconnect(t) PROVE SeatInv'
<1>1. SeatTypeOK /\ t \in Renewers
  BY DEF SeatInv, Renewers
<1>2. /\ Move(t, "idle", Fresh) /\ "idle" \in Phases \ Answered /\ Fresh \in Local
      /\ phase[t] \in Answered => phase[t] = "answered"
  BY Begins DEF Disconnect, Phases, Answered
<1>3. /\ gate' \in Renewers \cup {Nobody} /\ \A u \in Renewers \ {t} : gate = u => gate' = u
      /\ lost' \in BOOLEAN /\ (lost \/ phase[t] \in Answered => lost')
  BY <1>1, <1>2 DEF Disconnect, SeatTypeOK
<1>4. UNCHANGED <<endpoint, age, revoked, file, memory, crashes, rotated>>
  BY DEF Disconnect, world
<1>5. QED
  BY <1>1, <1>2, <1>3, <1>4, Quiet

\* Tick: the maintenance comes to a seat of its table or an older one.
LEMMA TickStep == ASSUME SeatInv, NEW s \in Seats, Tick(s) PROVE SeatInv'
<1> DEFINE l == [seat |-> s, cred |-> seat[s], why |-> "tick"]
<1>1. SeatTypeOK /\ Maintenance \in Renewers
  BY DEF SeatInv, Renewers
<1>2. l \in Local /\ l.seat = s /\ s[2] <= table
  BY <1>1 DEF Tick, SeatTypeOK, Local, Why
<1>3. Move(Maintenance, "gate", l) /\ phase[Maintenance] = "idle" /\ "gate" \in Phases \ Answered
  BY DEF Tick, Phases, Answered
<1>4. UNCHANGED <<endpoint, age, revoked, file, memory, crashes, rotated, gate, lost>>
  BY DEF Tick, world, history
<1>5. lost' \in BOOLEAN /\ gate' \in Renewers \cup {Nobody}
      /\ (lost \/ phase[Maintenance] \in Answered => lost')
  BY <1>1, <1>3, <1>4 DEF SeatTypeOK, Answered
<1> HIDE DEF l
<1>6. QED
  BY <1>1, <1>2, <1>3, <1>4, <1>5, Quiet

-----------------------------------------------------------------------------
(* refresh_now *)

\* Enter: the gate is taken for a Seat that is still stale.
LEMMA EnterStep == ASSUME SeatInv, NEW t \in Renewers, Enter(t) PROVE SeatInv'
<1> DEFINE held == seat[local[t].seat]
           l == [local[t] EXCEPT !.cred = held]
<1>1. SeatTypeOK /\ Settled(t) /\ phase[t] = "gate" /\ gate = Nobody
  BY DEF SeatInv, Enter
<1>2. local[t] \in Local /\ held \in Credential /\ local[t].seat[2] <= table
  BY <1>1 DEF SeatTypeOK, Local, Settled
<1>3. l \in Local /\ l.seat = local[t].seat /\ l.cred = held
  BY <1>2 DEF Local
<1>4. UNCHANGED <<endpoint, age, revoked, file, memory, crashes, rotated, lost>>
  BY DEF Enter, world, history
<1>5. lost' \in BOOLEAN /\ (lost \/ phase[t] \in Answered => lost')
  BY <1>1, <1>4 DEF SeatTypeOK, Answered
<1>6. "post" \in Phases \ Answered /\ {"idle", "sent"} \subseteq Phases \ Answered
  BY DEF Phases, Answered
<1>7. CASE Stale(held)
  <2>1. gate' = t /\ Move(t, "post", l)
    BY <1>7 DEF Enter
  <2>2. \A u \in Renewers \ {t} : gate = u => gate' = u
    BY <1>1, FreeIsNobody
  <2>3. l.cred = seat[l.seat] /\ Stale(l.cred) /\ l.seat[2] <= table
    BY <1>2, <1>3, <1>7
  <2> HIDE DEF l
  <2>4. QED
    BY <1>3, <1>4, <1>5, <1>6, <2>1, <2>2, <2>3, Quiet
<1>8. CASE ~Stale(held)
  <2>1. gate' = gate /\ Return(t, held)
    BY <1>8 DEF Enter
  <2>2. PICK label \in {"idle", "sent"}, k \in Local :
          Move(t, label, k) /\ (label = "sent" => k.seat = local[t].seat)
    BY <1>1, <1>2, <2>1, Returns
  <2>3. gate' \in Renewers \cup {Nobody}
    BY <1>1, <2>1 DEF SeatTypeOK
  <2>4. QED
    BY <1>2, <1>4, <1>5, <1>6, <2>1, <2>2, <2>3, Quiet
<1>9. QED
  BY <1>7, <1>8

\* Rotate: the rotation is in the hands of the task at the gate.
LEMMA RotateStep == ASSUME SeatInv, NEW t \in Renewers, Rotate(t) PROVE SeatInv'
<1> DEFINE s0 == local[t].seat
           c0 == local[t].cred
           l == [local[t] EXCEPT !.cred = endpoint']
<1>1. SeatTypeOK /\ InOrder /\ Settled(t)
  BY DEF SeatInv
<1>2. /\ phase[t] = "post" /\ c0 = endpoint /\ endpoint' = endpoint + 1 /\ Move(t, "answered", l)
      /\ rotated' = rotated \cup {<<s0, endpoint>>}
      /\ UNCHANGED <<age, revoked, file, seat, table, loaded, gate, crashes, lost>>
  BY DEF Rotate, memory
<1>3. /\ gate = t /\ s0 \in Seats /\ s0[2] <= table /\ Stale(c0) /\ c0 = seat[s0]
      /\ local[t] \in Local
  BY <1>1, <1>2 DEF Settled, AtGate, SeatTypeOK, Local
<1>4. endpoint \in Credential /\ endpoint < MaxCred /\ MaxCred \in Nat
  BY <1>1, <1>2, <1>3, SeatAssumption DEF SeatTypeOK, InOrder, SeatAssumption
<1>5. endpoint' \in Credential
  BY <1>2, <1>4 DEF Credential
<1>6. l \in Local /\ l.seat = s0 /\ l.cred = endpoint'
  BY <1>3, <1>5 DEF Local
<1>7. /\ phase' \in [Renewers -> Phases] /\ local' \in [Renewers -> Local]
      /\ phase'[t] = "answered" /\ local'[t] = l
      /\ \A u \in Renewers \ {t} : phase'[u] = phase[u] /\ local'[u] = local[u]
  <2> HIDE DEF l
  <2>1. QED
    BY <1>1, <1>2, <1>6, GotoFacts DEF Phases
<1>8. \A u \in Renewers \ {t} : phase[u] \notin AtGate
  BY <1>3 DEF SeatInv, Settled
<1> HIDE DEF s0, c0, l
<1>9. SeatTypeOK'
  BY <1>1, <1>2, <1>3, <1>4, <1>5, <1>7 DEF SeatTypeOK, Phases, Local
<1>10. InOrder'
  BY <1>1, <1>2, <1>4 DEF InOrder, PersistedFirst, Stale, SeatTypeOK, Credential
<1>11. ASSUME NEW u \in Renewers
       PROVE  Settled(u)'
  <2>1. CASE u = t
    BY <1>2, <1>3, <1>6, <1>7, <2>1 DEF Settled
  <2>2. CASE u # t
    BY <1>2, <1>7, <1>8, <2>2 DEF Settled, SeatInv, AtGate
  <2>3. QED
    BY <2>1, <2>2
<1>12. ASSUME NEW s \in Seats, NEW c \in Credential, (<<s, c>> \in rotated)'
       PROVE  Past(s, c)'
  <2>1. CASE <<s, c>> \in rotated
    <3>1. Past(s, c)
      BY <2>1 DEF SeatInv
    <3>2. \A u \in Renewers : phase[u] \in Answered => u # t /\ phase[u] \in AtGate
      BY <1>2 DEF Answered, AtGate
    <3>3. c < endpoint'
      BY <1>2, <1>4, <3>1 DEF Past, Credential
    <3>4. QED
      BY <1>2, <1>8, <3>1, <3>2, <3>3 DEF Past
  <2>2. CASE s = s0 /\ c = endpoint
    <3>1. phase'[t] \in Answered /\ local'[t].seat = s /\ local'[t].cred = endpoint'
      BY <1>6, <1>7, <2>2 DEF Answered
    <3>2. s[2] <= table'
      BY <1>2, <1>3, <2>2
    <3>3. c < endpoint'
      BY <1>2, <1>4, <2>2 DEF Credential
    <3>4. t \in Renewers /\ c < local'[t].cred
      BY <3>1, <3>3
    <3>5. QED
      BY <3>1, <3>2, <3>3, <3>4 DEF Past
  <2>3. QED
    BY <1>2, <1>12, <2>1, <2>2
<1>13. RotationHeld'
  BY <1>2, <1>3, <1>6, <1>7 DEF RotationHeld
<1>14. QED
  BY <1>9, <1>10, <1>11, <1>12, <1>13 DEF SeatInv
\* Persist: the file has what the endpoint issued last.
LEMMA PersistStep == ASSUME SeatInv, NEW t \in Renewers, Persist(t) PROVE SeatInv'
<1> DEFINE l == local[t]
<1>1. SeatTypeOK /\ InOrder /\ Settled(t)
  BY DEF SeatInv
<1>2. /\ phase[t] = "answered" /\ file' = l.cred /\ Move(t, "persisted", l)
      /\ UNCHANGED <<endpoint, age, revoked, seat, table, loaded, gate, crashes, lost, rotated>>
  BY DEF Persist, world, memory, history
<1>3. gate = t /\ l.cred = endpoint /\ l \in Local /\ l.seat[2] <= table
  BY <1>1, <1>2 DEF Settled, AtGate, SeatTypeOK, Local
<1>4. file' = endpoint
  BY <1>2, <1>3
<1>5. /\ phase' \in [Renewers -> Phases] /\ local' \in [Renewers -> Local]
      /\ phase'[t] = "persisted" /\ local'[t] = local[t]
      /\ \A u \in Renewers \ {t} : phase'[u] = phase[u] /\ local'[u] = local[u]
  <2> HIDE DEF l
  <2>1. QED
    BY <1>1, <1>2, <1>3, GotoFacts DEF Phases, l
<1>6. \A u \in Renewers \ {t} : phase[u] \notin AtGate
  BY <1>3 DEF SeatInv, Settled
<1>7. SeatTypeOK'
  BY <1>1, <1>2, <1>4, <1>5 DEF SeatTypeOK, Phases, Local
<1>8. InOrder'
  <2>1. endpoint \in Nat /\ file \in Nat /\ loaded \in Nat /\ \A s \in Seats : seat[s] \in Nat
    BY <1>1 DEF SeatTypeOK, Credential, Unread
  <2>2. QED
    BY <1>1, <1>2, <1>4, <2>1 DEF InOrder, PersistedFirst, Stale
<1>9. ASSUME NEW u \in Renewers
      PROVE  Settled(u)'
  <2>1. CASE u = t
    BY <1>2, <1>3, <1>4, <1>5, <2>1 DEF Settled
  <2>2. CASE u # t
    BY <1>2, <1>5, <1>6, <2>2 DEF Settled, SeatInv, AtGate
  <2>3. QED
    BY <2>1, <2>2
<1>10. ASSUME NEW s \in Seats, NEW c \in Credential, (<<s, c>> \in rotated)'
       PROVE  Past(s, c)'
  <2>1. Past(s, c)
    BY <1>2, <1>10 DEF SeatInv
  <2>2. QED
    BY <1>2, <1>5, <2>1 DEF Past, Answered
<1>11. RotationHeld'
  BY <1>2, <1>4 DEF RotationHeld
<1>12. QED
  BY <1>7, <1>8, <1>9, <1>10, <1>11 DEF SeatInv

\* PublishSeat: the Seat has what the file has.
LEMMA PublishStep == ASSUME SeatInv, NEW t \in Renewers, PublishSeat(t) PROVE SeatInv'
<1> DEFINE s0 == local[t].seat
<1>1. SeatTypeOK /\ InOrder /\ Settled(t)
  BY DEF SeatInv
<1>2. /\ phase[t] = "persisted" /\ gate' = Nobody /\ Return(t, local[t].cred)
      /\ seat' = [seat EXCEPT ![s0] = local[t].cred]
      /\ UNCHANGED <<endpoint, age, revoked, file, table, loaded, crashes, lost, rotated>>
  BY DEF PublishSeat, world, history
<1>3. gate = t /\ local[t].cred = file /\ s0 \in Seats /\ s0[2] <= table /\ file \in Credential
  BY <1>1, <1>2 DEF Settled, AtGate, SeatTypeOK
<1>4. PICK label \in {"idle", "sent"}, l \in Local :
        Move(t, label, l) /\ (label = "sent" => l.seat = s0)
  BY <1>1, <1>2, <1>3, Returns
<1>5. /\ phase' \in [Renewers -> Phases] /\ local' \in [Renewers -> Local]
      /\ phase'[t] = label /\ (label = "sent" => local'[t] = l)
      /\ \A u \in Renewers \ {t} : phase'[u] = phase[u] /\ local'[u] = local[u]
  BY <1>1, <1>4, GotoFacts DEF Phases
<1>6. \A u \in Renewers \ {t} : phase[u] \notin AtGate
  BY <1>3 DEF SeatInv, Settled
<1>7. seat' \in [Seats -> Credential] /\ seat'[s0] = file
      /\ \A s \in Seats \ {s0} : seat'[s] = seat[s]
  BY <1>1, <1>2, <1>3 DEF SeatTypeOK
<1> HIDE DEF s0
<1>8. SeatTypeOK'
  BY <1>1, <1>2, <1>5, <1>7 DEF SeatTypeOK, Phases, Local
<1>9. InOrder'
  BY <1>1, <1>2, <1>3, <1>7 DEF InOrder, PersistedFirst, Stale, Credential
<1>10. ASSUME NEW u \in Renewers
       PROVE  Settled(u)'
  <2>1. CASE u = t
    BY <1>2, <1>3, <1>4, <1>5, <2>1 DEF Settled, AtGate
  <2>2. CASE u # t
    BY <1>2, <1>5, <1>6, <2>2 DEF Settled, SeatInv, AtGate
  <2>3. QED
    BY <2>1, <2>2
<1>11. ASSUME NEW s \in Seats, NEW c \in Credential, (<<s, c>> \in rotated)'
       PROVE  Past(s, c)'
  <2>1. Past(s, c)
    BY <1>2, <1>11 DEF SeatInv
  <2>2. \A u \in Renewers \ {t} : phase[u] \notin Answered
    BY <1>6 DEF AtGate, Answered
  <2>3. seat[s] <= file /\ seat[s] \in Credential
    BY <1>1 DEF InOrder, PersistedFirst, SeatTypeOK
  <2>4. lost \/ c < seat'[s]
    <3>1. CASE c < seat[s]
      BY <1>3, <1>7, <2>3, <3>1 DEF Credential
    <3>2. CASE local[t].seat = s /\ c < local[t].cred
      BY <1>3, <1>7, <3>2 DEF s0
    <3>3. QED
      BY <2>1, <2>2, <3>1, <3>2 DEF Past
  <2>5. QED
    BY <1>2, <2>1, <2>4 DEF Past
<1>12. RotationHeld'
  BY <1>2, <1>3, <1>5 DEF RotationHeld, SeatInv
<1>13. QED
  BY <1>8, <1>9, <1>10, <1>11, <1>12 DEF SeatInv

\* Renew: what a task does at the gate.
LEMMA RenewStep == ASSUME SeatInv, NEW t \in Renewers, Renew(t) PROVE SeatInv'
<1>1. lost \in BOOLEAN
  BY DEF SeatInv, SeatTypeOK
<1>2. CASE PostFails(t)
  BY <1>1, <1>2, GivesUp DEF PostFails, AtGate, Answered, world, history
<1>3. CASE Lose(t)
  BY <1>1, <1>3, GivesUp DEF Lose, AtGate, world
<1>4. QED
  BY <1>2, <1>3, EnterStep, RotateStep, PersistStep, PublishStep DEF Renew

-----------------------------------------------------------------------------
(* The outside, reloads and crashes *)

\* An access token ages or is revoked.
LEMMA OutsideStep ==
  ASSUME SeatInv, Revoke \/ \E c \in Credential : Age(c)
  PROVE  SeatInv'
<1>1. SeatTypeOK /\ InOrder /\ MaxCred \in Nat
  BY SeatAssumption DEF SeatInv, SeatAssumption
<1>2. UNCHANGED <<endpoint, file, seat, table, loaded, gate, phase, local, crashes, lost, rotated>>
  BY DEF Revoke, Age, memory, history
<1>3. /\ revoked' \subseteq Credential /\ age' \in [Credential -> Ages]
      /\ \A c \in Credential : Stale(c) => Stale(c)'
      /\ \A c \in Credential : Stale(c)' => c < MaxCred
  <2>1. CASE Revoke
    BY <1>1, <2>1 DEF Revoke, SeatTypeOK, InOrder, Stale, Ages
  <2>2. ASSUME NEW c \in Credential, Age(c)
        PROVE  /\ revoked' \subseteq Credential /\ age' \in [Credential -> Ages]
               /\ \A d \in Credential : Stale(d) => Stale(d)'
               /\ \A d \in Credential : Stale(d)' => d < MaxCred
    BY <1>1, <2>2 DEF Age, SeatTypeOK, InOrder, Stale, Ages
  <2>3. QED
    BY <2>1, <2>2
<1>4. SeatTypeOK'
  BY <1>1, <1>2, <1>3 DEF SeatTypeOK, Ages
<1>5. InOrder'
  BY <1>1, <1>2, <1>3 DEF InOrder, PersistedFirst
<1>6. ASSUME NEW u \in Renewers
      PROVE  Settled(u)'
  <2>1. Settled(u) /\ local[u].cred \in Credential
    BY <1>1 DEF SeatInv, SeatTypeOK
  <2>2. QED
    BY <1>2, <1>3, <2>1 DEF Settled
<1>7. ASSUME NEW s \in Seats, NEW c \in Credential, (<<s, c>> \in rotated)'
      PROVE  Past(s, c)'
  BY <1>2, <1>7 DEF SeatInv, Past
<1>8. RotationHeld'
  BY <1>2 DEF SeatInv, RotationHeld
<1>9. QED
  BY <1>4, <1>5, <1>6, <1>7, <1>8 DEF SeatInv

\* Load and Swap: a table is built from what the file had; no Seat of a table in
\* use is touched.
LEMMA LoadStep == ASSUME SeatInv, Load \/ Swap PROVE SeatInv'
<1>1. SeatTypeOK /\ InOrder
  BY DEF SeatInv
<1>2. UNCHANGED <<endpoint, age, revoked, file, gate, phase, local, crashes, lost, rotated>>
  BY DEF Load, Swap, world, history
<1>3. /\ seat' \in [Seats -> Credential] /\ PersistedFirst'
      /\ table <= table' /\ \A s \in Seats : s[2] <= table => seat'[s] = seat[s]
      /\ table' \in 1 .. MaxReloads + 1 /\ loaded' \in Credential \cup {Unread} /\ loaded' <= file'
      /\ (loaded # Unread => table <= MaxReloads)'
  <2>1. table \in Nat /\ file \in Credential /\ MaxReloads \in Nat
    BY <1>1, SeatAssumption DEF SeatTypeOK, SeatAssumption
  <2>2. CASE Load
    BY <1>1, <1>2, <2>1, <2>2 DEF Load, SeatTypeOK, InOrder, PersistedFirst, Credential
  <2>3. CASE Swap
    <3>1. loaded \in Credential /\ loaded <= file
      BY <1>1, <2>3 DEF Swap, SeatTypeOK, InOrder
    <3>2. seat' = [s \in Seats |-> IF s[2] = table + 1 THEN loaded ELSE seat[s]]
      BY <2>3 DEF Swap
    <3>3. \A s \in Seats : s[2] <= table => s[2] # table + 1
      BY <2>1, SeatOfTable
    <3>4. table' = table + 1 /\ loaded' = Unread /\ table' \in 1 .. MaxReloads + 1
      <4>1. table' = table + 1 /\ loaded' = Unread
        BY <2>3 DEF Swap
      <4>2. table' \in 1 .. MaxReloads + 1
        BY <1>1, <2>1, <2>3, <4>1 DEF InOrder, Swap
      <4>3. QED
        BY <4>1, <4>2
    <3>5. Unread <= file'
      BY <1>2, <2>1 DEF Unread, Credential
    <3>6. seat' \in [Seats -> Credential] /\ PersistedFirst'
      BY <1>1, <1>2, <3>1, <3>2 DEF SeatTypeOK, InOrder, PersistedFirst
    <3>7. \A s \in Seats : s[2] <= table => seat'[s] = seat[s]
      BY <3>2, <3>3
    <3>8. QED
      BY <1>1, <2>1, <3>4, <3>5, <3>6, <3>7
  <2>4. QED
    BY <2>2, <2>3
<1>4. SeatTypeOK'
  BY <1>1, <1>2, <1>3 DEF SeatTypeOK
<1>5. InOrder'
  BY <1>1, <1>2, <1>3 DEF InOrder, Stale
<1>6. table \in Int /\ table' \in Int /\ \A s \in Seats : s[2] \in Int
  BY <1>1, <1>3, SeatOfTable, SeatAssumption DEF SeatTypeOK, SeatAssumption
<1>7. ASSUME NEW u \in Renewers
      PROVE  Settled(u)'
  <2>1. Settled(u) /\ local[u].seat \in Seats
    BY <1>1 DEF SeatInv, SeatTypeOK
  <2>2. phase[u] = "post" => seat'[local[u].seat] = seat[local[u].seat]
    BY <1>3, <2>1 DEF Settled
  <2>3. phase[u] # "idle" => local[u].seat[2] <= table'
    BY <1>3, <1>6, <2>1 DEF Settled
  <2>4. QED
    BY <1>2, <2>1, <2>2, <2>3 DEF Settled, Stale
<1>8. ASSUME NEW s \in Seats, NEW c \in Credential, (<<s, c>> \in rotated)'
      PROVE  Past(s, c)'
  <2>1. Past(s, c)
    BY <1>2, <1>8 DEF SeatInv
  <2>2. s[2] <= table' /\ seat'[s] = seat[s]
    BY <1>3, <1>6, <2>1 DEF Past
  <2>3. QED
    BY <1>2, <2>1, <2>2 DEF Past
<1>9. RotationHeld'
  BY <1>2 DEF SeatInv, RotationHeld
<1>10. QED
  BY <1>4, <1>5, <1>7, <1>8, <1>9 DEF SeatInv

\* Crash: what was answered and not written is known to be lost.
LEMMA CrashStep == ASSUME SeatInv, Crash PROVE SeatInv'
<1>1. SeatTypeOK /\ InOrder /\ RotationHeld
  BY DEF SeatInv
<1>2. /\ table' = 1 /\ seat' = [s \in Seats |-> file] /\ loaded' = Unread /\ gate' = Nobody
      /\ phase' = [t \in Renewers |-> "idle"] /\ local' = [t \in Renewers |-> Fresh]
      /\ rotated' = {}
      /\ lost' = (lost \/ \E t \in Renewers : phase[t] = "answered")
      /\ UNCHANGED <<endpoint, age, revoked, file>>
  BY DEF Crash, world
<1>3. crashes' \in 0 .. MaxCrashes
  BY <1>1, SeatAssumption DEF Crash, SeatTypeOK, SeatAssumption
<1>4. 1 \in 1 .. MaxReloads + 1 /\ lost' \in BOOLEAN
  BY <1>1, <1>2, SeatAssumption DEF SeatAssumption, SeatTypeOK
<1>5. local' \in [Renewers -> Local]
  BY <1>2, Begins
<1>6. SeatTypeOK'
  BY <1>1, <1>2, <1>3, <1>4, <1>5 DEF SeatTypeOK, Local
<1>7. InOrder'
  BY <1>1, <1>2 DEF InOrder, PersistedFirst, Stale, SeatTypeOK, Credential, Unread
<1>8. \A u \in Renewers : Settled(u)'
  BY <1>2 DEF Settled, AtGate
<1>9. RotationHeld'
  BY <1>1, <1>2 DEF RotationHeld
<1>10. QED
  BY <1>2, <1>6, <1>7, <1>8, <1>9 DEF SeatInv

-----------------------------------------------------------------------------
(* The theorems *)

\* A process that has started from the file it was configured with.
LEMMA Started == SeatInit => SeatInv
<1> SUFFICES ASSUME SeatInit
             PROVE  SeatInv
  OBVIOUS
<1>1. 1 \in Credential /\ 1 \in 1 .. MaxReloads + 1 /\ 0 \in 0 .. MaxCrashes
  BY SeatAssumption DEF SeatAssumption, Credential
<1>2. local \in [Renewers -> Local]
  BY Begins DEF SeatInit
<1>3. SeatTypeOK
  BY <1>1, <1>2 DEF SeatInit, SeatTypeOK, Local
<1>4. InOrder /\ RotationHeld
  BY DEF SeatInit, InOrder, PersistedFirst, Stale, Unread, RotationHeld
<1>5. \A t \in Renewers : Settled(t)
  BY DEF SeatInit, Settled, AtGate
<1>6. QED
  BY <1>3, <1>4, <1>5 DEF SeatInv, SeatInit

\* Every step keeps the invariant.
LEMMA Stepped == SeatInv /\ [SeatNext]_seatVars => SeatInv'
<1> SUFFICES ASSUME SeatInv, [SeatNext]_seatVars
             PROVE  SeatInv'
  OBVIOUS
<1>1. CASE SeatNext
  BY <1>1, OutsideStep, LeaseStep, AnswerStep, TickStep, RenewStep, LoadStep, CrashStep,
     DisconnectStep DEF SeatNext
<1>2. CASE UNCHANGED seatVars
  <2>1. SeatTypeOK'
    BY <1>2 DEF SeatInv, SeatTypeOK, seatVars
  <2>2. InOrder' /\ RotationHeld'
    BY <1>2 DEF SeatInv, InOrder, PersistedFirst, Stale, RotationHeld, seatVars
  <2>3. \A t \in Renewers : Settled(t)'
    BY <1>2 DEF SeatInv, Settled, Stale, seatVars
  <2>4. \A s \in Seats : \A c \in Credential : (<<s, c>> \in rotated)' => Past(s, c)'
    BY <1>2 DEF SeatInv, Past, seatVars
  <2>5. QED
    BY <2>1, <2>2, <2>3, <2>4 DEF SeatInv
<1>3. QED
  BY <1>1, <1>2

\* The invariant of the renewal (refresh_now, the reload of the config and the
\* start of the process).
THEOREM SeatInvariance == SeatSpec => []SeatInv
<1>1. QED
  BY Started, Stepped, PTL DEF SeatSpec

\* The file is written before the Seat that shows the credential, so that a crash
\* at any point finds on disk what was in use.
THEOREM FileFirst == SeatSpec => []PersistedFirst
<1>1. SeatInv => PersistedFirst
  BY DEF SeatInv, InOrder
<1>2. QED
  BY <1>1, SeatInvariance, PTL

\* A refresh token that a Seat has posted it posts again only if the answer was
\* lost, whoever waits at the gate.
THEOREM PostedOnce == SeatSpec => []RotatedOnce
<1>1. ASSUME SeatInv, NEW t \in Renewers, phase[t] = "post",
             <<local[t].seat, local[t].cred>> \in rotated
      PROVE  lost
  <2>1. /\ local[t].seat \in Seats /\ local[t].cred \in Credential
        /\ seat[local[t].seat] \in Credential /\ Settled(t)
    BY <1>1 DEF SeatInv, SeatTypeOK
  <2>2. Past(local[t].seat, local[t].cred) /\ local[t].cred = seat[local[t].seat] /\ gate = t
    BY <1>1, <2>1 DEF SeatInv, Settled, AtGate
  <2>3. \A u \in Renewers : phase[u] \notin Answered
    BY <1>1, <2>2 DEF SeatInv, Settled, AtGate, Answered
  <2>4. QED
    BY <2>1, <2>2, <2>3 DEF Past, Credential
<1>2. SeatInv => RotatedOnce
  BY <1>1 DEF RotatedOnce
<1>3. QED
  BY <1>2, SeatInvariance, PTL

\* A rotation the provider has made is on disk, at the gate, or known to be lost.
THEOREM NoneForgotten == SeatSpec => []RotationHeld
<1>1. SeatInv => RotationHeld
  BY DEF SeatInv
<1>2. QED
  BY <1>1, SeatInvariance, PTL
===============================================================================
