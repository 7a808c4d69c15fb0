------------------------- MODULE PublishDag_proofs -------------------------
(***************************************************************************)
(* The catalogue is safe from the DAG: for every set of workflows, inputs, *)
(* specs and runs, a connection that is shared loses nothing, a Connection *)
(* is never archived, and what is archived is gone from the spec.          *)
(***************************************************************************)
EXTENDS PublishDag, FiniteSetTheorems, SequenceTheorems, TLAPS

Readings == (UNION {Reads[w] : w \in Workflows}) \cup {<<>>}

Arguments == {None} \cup {Output(InputOf[w], Prefix(w, n)) :
                             w \in Workflows, n \in 0..MaxRuns}

Todos == SUBSET {Leaf(n) : n \in Nat}

Nodes == [node : {"idle", "extract", "publish"}, run : 0..MaxRuns,
          read : Readings, args : Arguments, todo : Todos]

\* Every prefix is that of a run that has extracted.
PrefixesAreUsed ==
    \A p \in DOMAIN store :
       \E w \in Workflows, n \in 0..MaxRuns :
          /\ p = Prefix(w, n) /\ n <= dag[w].run
          /\ dag[w].node = "extract" => n # dag[w].run

Conn(w) == ResolvedConnection(InputOf[w])

\* The objects of a prefix are those of the files that were read.
Holds(objects, w, files) ==
    /\ DOMAIN objects = {Leaf(i - 1) : i \in DOMAIN files}
    /\ \A i \in DOMAIN files :
          objects[Leaf(i - 1)] = Transformed(Conn(w).emit /\ i = 1,
                                             Records(Conn(w).qn, files[i]))

\* A publish was told of the prefix of its own run.
PublishIsInformed ==
    \A w \in Workflows :
       dag[w].node = "publish" =>
          /\ dag[w].read \in Reads[w]
          /\ dag[w].args = Output(InputOf[w], Prefix(w, dag[w].run))
          /\ Prefix(w, dag[w].run) \in DOMAIN store
          /\ Holds(store[Prefix(w, dag[w].run)], w, dag[w].read)

\* A Connection is that of its connection, and is active.
IsEntry(k, e) ==
    /\ e = [conn |-> e.conn, status |-> e.status, run |-> e.run]
    /\ e.status \in {"ACTIVE", "ARCHIVED"}
    /\ k[1] \in {"Connection", "APISpec", "APIPath"}
    /\ k[1] = "Connection" => k = ConnectionKey(e.conn) /\ e.status = "ACTIVE"

DagInv ==
    /\ dag \in [Workflows -> Nodes]
    /\ PrefixesAreUsed
    /\ PublishIsInformed
    /\ \A w \in Workflows : last[w] \in Reads[w] \cup {None}
    /\ last = [w \in Workflows |-> last[w]]
    /\ \A k \in DOMAIN catalogue : IsEntry(k, catalogue[k])

----------------------------------------------------------------------------
(* Operators *)

\* The names of a run's objects are distinct.
LEMMA LeafInjective ==
    ASSUME NEW m \in Nat, NEW n \in Nat, Leaf(m) = Leaf(n)
    PROVE  m = n
  BY DEF Leaf

LEMMA PrefixInjective ==
    ASSUME NEW v, NEW w, NEW m, NEW n, Prefix(v, m) = Prefix(w, n)
    PROVE  v = w /\ m = n
  BY DEF Prefix

LEMMA ReadsAreLists ==
    ASSUME NEW w \in Workflows, NEW files \in Reads[w]
    PROVE  /\ DOMAIN files \subseteq Nat \ {0} /\ 1 \in DOMAIN files
           /\ DOMAIN files = 1..Len(files)
  BY DagInputs

\* An upload to a prefix nobody has used leaves there what was delivered.
LEMMA UploadHolds ==
    ASSUME NEW w \in Workflows, NEW files \in Reads[w], NEW prefix,
           prefix \notin DOMAIN store
    PROVE  Holds(Uploaded(prefix, Delivery(InputOf[w], files)), w, files)
  <1> DEFINE delivery == Delivery(InputOf[w], files)
             new == {Leaf(i - 1) : i \in DOMAIN delivery}
             objects == [l \in new |-> delivery[CHOOSE i \in DOMAIN delivery : Leaf(i - 1) = l]]
  <1>1. DOMAIN delivery = DOMAIN files
    BY DEF Delivery
  <1>2. DOMAIN files \subseteq Nat \ {0}
    BY ReadsAreLists
  <1>3. Uploaded(prefix, delivery) = objects
    <2> DEFINE old == IF prefix \in DOMAIN store THEN store[prefix] ELSE <<>>
    <2>1. DOMAIN old \cup new = new
      OBVIOUS
    <2>2. Uploaded(prefix, delivery)
            = [l \in DOMAIN old \cup new |->
                 IF l \in new THEN delivery[CHOOSE i \in DOMAIN delivery : Leaf(i - 1) = l]
                 ELSE old[l]]
      BY DEF Uploaded
    <2> HIDE DEF old, new
    <2>3. QED
      BY <2>1, <2>2, Zenon
  <1>4. ASSUME NEW i \in DOMAIN files
        PROVE  objects[Leaf(i - 1)] = delivery[i]
    <2>1. \A j \in DOMAIN files : Leaf(j - 1) = Leaf(i - 1) => j = i
      <3> SUFFICES ASSUME NEW j \in DOMAIN files, Leaf(j - 1) = Leaf(i - 1)
                   PROVE  j = i
        OBVIOUS
      <3>1. j - 1 \in Nat /\ i - 1 \in Nat
        BY <1>2
      <3>2. j - 1 = i - 1
        BY <3>1, LeafInjective
      <3>3. QED  BY <1>2, <3>2
    <2>2. (CHOOSE j \in DOMAIN delivery : Leaf(j - 1) = Leaf(i - 1)) = i
      BY <1>1, <2>1, Zenon
    <2>3. Leaf(i - 1) \in new
      BY <1>1
    <2>4. QED
      BY <2>2, <2>3, Zenon
  <1>5. \A i \in DOMAIN files : delivery[i] = Transformed(Conn(w).emit /\ i = 1,
                                                          Records(Conn(w).qn, files[i]))
    BY DEF Delivery, Conn
  <1>6. QED
    BY <1>1, <1>3, <1>4, <1>5, Zenon DEF Holds

\* The assets of an object.
LEMMA ObjectAssets ==
    ASSUME NEW object, NEW conn, NEW run, NEW assets,
           assets = Assets(object, conn, run)
    PROVE  /\ Rows(object) \subseteq DOMAIN assets
           /\ object.connection => ConnectionKey(conn) \in DOMAIN assets
           /\ \A k \in DOMAIN assets :
                 /\ k \in Rows(object) \/ (object.connection /\ k = ConnectionKey(conn))
                 /\ assets[k].conn = conn
                 /\ assets[k] = [conn |-> conn, status |-> "ACTIVE", run |-> assets[k].run]
  <1>1. DOMAIN assets = Rows(object)
                    \cup (IF object.connection THEN {ConnectionKey(conn)} ELSE {})
    BY DEF Assets
  <1>2. ASSUME NEW k \in DOMAIN assets
        PROVE  /\ assets[k].conn = conn
               /\ assets[k] = [conn |-> conn, status |-> "ACTIVE", run |-> assets[k].run]
    <2> DEFINE stamp == IF k = ConnectionKey(conn) THEN None ELSE run
    <2>1. assets[k] = Stamp(conn, stamp)
      BY <1>2 DEF Assets
    <2>2. /\ Stamp(conn, stamp).conn = conn
          /\ Stamp(conn, stamp)
               = [conn |-> conn, status |-> "ACTIVE", run |-> Stamp(conn, stamp).run]
      BY DEF Stamp
    <2>3. QED
      BY <2>1, <2>2
  <1>3. QED
    BY <1>1, <1>2

LEMMA RowKeys ==
    ASSUME NEW object, NEW k \in Rows(object)
    PROVE  k[1] \in {"APISpec", "APIPath"}
  BY DEF Rows

----------------------------------------------------------------------------
(* The runs *)

LEMMA IdleNode ==
    ASSUME NEW n \in 0..MaxRuns
    PROVE  /\ Idle(n) \in Nodes /\ [Idle(n) EXCEPT !.node = "extract"] \in Nodes
           /\ Idle(n).node = "idle" /\ Idle(n).run = n
           /\ [Idle(n) EXCEPT !.node = "extract"].node = "extract"
           /\ [Idle(n) EXCEPT !.node = "extract"].run = n
  <1>1. <<>> \in Readings /\ None \in Arguments /\ {} \in Todos
    BY DEF Readings, Arguments, Todos
  <1>2. QED
    BY <1>1 DEF Idle, Nodes

(***************************************************************************)
(* The steps that upload nothing: a run is triggered, ends, or its publish *)
(* goes on.                                                                *)
(***************************************************************************)
LEMMA NodeStep ==
    ASSUME DagInv, NEW w \in Workflows, NEW n \in Nodes,
           dag' = [dag EXCEPT ![w] = n], store' = store,
           \/ n.node = "idle" /\ n.run = dag[w].run
           \/ n.node = "extract" /\ n.run = dag[w].run + 1
           \/ /\ n.node = "publish" /\ dag[w].node = "publish" /\ n.run = dag[w].run
              /\ n.read = dag[w].read /\ n.args = dag[w].args
    PROVE  /\ dag' \in [Workflows -> Nodes]
           /\ PrefixesAreUsed'
           /\ PublishIsInformed'
  <1>1. dag \in [Workflows -> Nodes]
    BY DEF DagInv
  <1>2. dag' \in [Workflows -> Nodes] /\ dag'[w] = n
        /\ \A v \in Workflows : v # w => dag'[v] = dag[v]
    BY <1>1
  <1>3. PrefixesAreUsed'
    <2> SUFFICES ASSUME NEW p \in DOMAIN store
                 PROVE  \E v \in Workflows, m \in 0..MaxRuns :
                           /\ p = Prefix(v, m) /\ m <= dag'[v].run
                           /\ dag'[v].node = "extract" => m # dag'[v].run
      BY DEF PrefixesAreUsed, Prefix
    <2>1. PICK v \in Workflows, m \in 0..MaxRuns :
             /\ p = Prefix(v, m) /\ m <= dag[v].run
             /\ dag[v].node = "extract" => m # dag[v].run
      BY DEF DagInv, PrefixesAreUsed
    <2>2. dag[w].run \in 0..MaxRuns
      BY <1>1 DEF Nodes
    <2>3. m <= dag'[v].run /\ (dag'[v].node = "extract" => m # dag'[v].run)
      BY <1>2, <2>1, <2>2, DagBounds
    <2>4. QED  BY <2>1, <2>3
  <1>4. PublishIsInformed'
    <2> SUFFICES ASSUME NEW v \in Workflows, dag'[v].node = "publish"
                 PROVE  /\ dag'[v].read \in Reads[v]
                        /\ dag'[v].args = Output(InputOf[v], Prefix(v, dag'[v].run))
                        /\ Prefix(v, dag'[v].run) \in DOMAIN store
                        /\ Holds(store[Prefix(v, dag'[v].run)], v, dag'[v].read)
      BY Zenon DEF PublishIsInformed, Prefix, Output, Holds, Conn
    <2>1. /\ dag[v].node = "publish" /\ dag'[v].run = dag[v].run
          /\ dag'[v].read = dag[v].read /\ dag'[v].args = dag[v].args
      BY <1>2
    <2>2. QED
      BY <2>1, Zenon DEF DagInv, PublishIsInformed
  <1>5. QED
    BY <1>2, <1>3, <1>4

LEMMA TriggerStep ==
    ASSUME DagInv, NEW w \in Workflows, Trigger(w)
    PROVE  dag' \in [Workflows -> Nodes] /\ PrefixesAreUsed' /\ PublishIsInformed'
  <1> DEFINE n == [Idle(dag[w].run + 1) EXCEPT !.node = "extract"]
  <1>1. dag[w].run + 1 \in 0..MaxRuns
    BY DagBounds DEF DagInv, Nodes, Trigger
  <1>2. n \in Nodes /\ n.node = "extract" /\ n.run = dag[w].run + 1
    BY <1>1, IdleNode
  <1>3. dag' = [dag EXCEPT ![w] = n] /\ store' = store
    BY DEF Trigger, DagInv
  <1> HIDE DEF n
  <1>4. QED
    BY <1>2, <1>3, NodeStep

LEMMA EndStep ==
    ASSUME DagInv, NEW w \in Workflows,
           dag' = [dag EXCEPT ![w] = Idle(@.run)], store' = store
    PROVE  dag' \in [Workflows -> Nodes] /\ PrefixesAreUsed' /\ PublishIsInformed'
  <1> DEFINE n == Idle(dag[w].run)
  <1>1. dag[w].run \in 0..MaxRuns
    BY DEF DagInv, Nodes
  <1>2. n \in Nodes /\ n.node = "idle" /\ n.run = dag[w].run
    BY <1>1, IdleNode
  <1>3. dag' = [dag EXCEPT ![w] = n]
    BY DEF DagInv
  <1> HIDE DEF n
  <1>4. QED
    BY <1>2, <1>3, NodeStep

LEMMA GoOnStep ==
    ASSUME DagInv, NEW w \in Workflows, NEW l, dag[w].node = "publish",
           dag' = [dag EXCEPT ![w].todo = @ \ {l}], store' = store
    PROVE  dag' \in [Workflows -> Nodes] /\ PrefixesAreUsed' /\ PublishIsInformed'
  <1> DEFINE n == [dag[w] EXCEPT !.todo = @ \ {l}]
  <1>1. dag[w] \in Nodes /\ dag[w].todo \ {l} \in Todos
    BY DEF DagInv, Nodes, Todos
  <1>2. n \in Nodes /\ n.node = "publish" /\ n.run = dag[w].run
        /\ n.read = dag[w].read /\ n.args = dag[w].args
    BY <1>1 DEF Nodes
  <1>3. dag' = [dag EXCEPT ![w] = n]
    BY DEF DagInv
  <1> HIDE DEF n
  <1>4. QED
    BY <1>2, <1>3, NodeStep

LEMMA PrefixIsFresh ==
    ASSUME DagInv, NEW w \in Workflows, dag[w].node = "extract"
    PROVE  Prefix(w, dag[w].run) \notin DOMAIN store
  <1> SUFFICES ASSUME Prefix(w, dag[w].run) \in DOMAIN store PROVE FALSE
    OBVIOUS
  <1>1. PICK v \in Workflows, m \in 0..MaxRuns :
           /\ Prefix(w, dag[w].run) = Prefix(v, m) /\ m <= dag[v].run
           /\ dag[v].node = "extract" => m # dag[v].run
    BY DEF DagInv, PrefixesAreUsed
  <1>2. v = w /\ m = dag[w].run
    BY <1>1, PrefixInjective
  <1>3. QED
    BY <1>1, <1>2

(***************************************************************************)
(* An extraction uploads under a prefix that nobody has used, so that its  *)
(* publish finds there what it delivered, and the others what they did.    *)
(***************************************************************************)
LEMMA ExtractStep ==
    ASSUME DagInv, NEW w \in Workflows, ExtractSucceeds(w)
    PROVE  dag' \in [Workflows -> Nodes] /\ PrefixesAreUsed' /\ PublishIsInformed'
  <1> DEFINE prefix == Prefix(w, dag[w].run)
  <1>1. PICK files \in Reads[w] :
           LET objects == Uploaded(prefix, Delivery(InputOf[w], files))
           IN  /\ store' = [p \in DOMAIN store \cup {prefix} |->
                               IF p = prefix THEN objects ELSE store[p]]
               /\ dag' = [dag EXCEPT ![w].node = "publish", ![w].read = files,
                                     ![w].args = Output(InputOf[w], prefix),
                                     ![w].todo = DOMAIN objects]
    BY DEF ExtractSucceeds
  <1> DEFINE objects == Uploaded(prefix, Delivery(InputOf[w], files))
             n == [dag[w] EXCEPT !.node = "publish", !.read = files,
                                 !.args = Output(InputOf[w], prefix), !.todo = DOMAIN objects]
  <1>2. dag \in [Workflows -> Nodes] /\ dag[w] \in Nodes /\ dag[w].run \in 0..MaxRuns
    BY DEF DagInv, Nodes
  <1>3. dag[w].node = "extract"
    BY DEF ExtractSucceeds
  <1>4. prefix \notin DOMAIN store
    BY <1>3, PrefixIsFresh
  <1>5. Holds(objects, w, files)
    BY <1>4, UploadHolds
  <1>6. /\ n \in Nodes /\ n.node = "publish" /\ n.run = dag[w].run
        /\ n.read = files /\ n.args = Output(InputOf[w], prefix)
    <2>1. DOMAIN objects \in Todos
      <3>1. \A i \in DOMAIN files : i - 1 \in Nat
        BY ReadsAreLists
      <3>2. DOMAIN objects = {Leaf(i - 1) : i \in DOMAIN files}
        BY <1>5 DEF Holds
      <3> HIDE DEF objects
      <3>3. QED  BY <3>1, <3>2 DEF Todos
    <2>2. Output(InputOf[w], prefix) \in Arguments
      BY <1>2 DEF Arguments
    <2>3. files \in Readings
      BY DEF Readings
    <2>4. n = [dag[w] EXCEPT !.node = "publish", !.read = files,
                             !.args = Output(InputOf[w], prefix), !.todo = DOMAIN objects]
      OBVIOUS
    <2>5. dag[w] \in Nodes
      BY <1>2
    <2> DEFINE args == Output(InputOf[w], prefix)
               todo == DOMAIN objects
    <2>6. todo \in Todos /\ args \in Arguments
          /\ n = [dag[w] EXCEPT !.node = "publish", !.read = files, !.args = args, !.todo = todo]
      BY <2>1, <2>2, <2>4
    <2> HIDE DEF args, todo, n
    <2>7. n \in Nodes /\ n.node = "publish" /\ n.run = dag[w].run /\ n.read = files /\ n.args = args
      BY <2>3, <2>5, <2>6 DEF Nodes
    <2>8. QED
      BY <2>7 DEF args
  <1>7. dag' = [dag EXCEPT ![w] = n]
    BY <1>1, <1>2
  <1>8. store' = [p \in DOMAIN store \cup {prefix} |->
                     IF p = prefix THEN objects ELSE store[p]]
    BY <1>1
  <1> HIDE DEF n, objects
  <1>9. dag' \in [Workflows -> Nodes] /\ dag'[w] = n
         /\ \A v \in Workflows : v # w => dag'[v] = dag[v]
    BY <1>2, <1>6, <1>7
  <1>10. PrefixesAreUsed'
    <2> SUFFICES ASSUME NEW p \in DOMAIN store'
                 PROVE  \E v \in Workflows, m \in 0..MaxRuns :
                           /\ p = Prefix(v, m) /\ m <= dag'[v].run
                           /\ dag'[v].node = "extract" => m # dag'[v].run
      BY DEF PrefixesAreUsed, Prefix
    <2>1. CASE p = prefix
      BY <1>2, <1>6, <1>9, <2>1, DagBounds
    <2>2. CASE p # prefix
      <3>1. p \in DOMAIN store
        BY <1>8, <2>2
      <3>2. PICK v \in Workflows, m \in 0..MaxRuns :
               /\ p = Prefix(v, m) /\ m <= dag[v].run
               /\ dag[v].node = "extract" => m # dag[v].run
        BY <3>1 DEF DagInv, PrefixesAreUsed
      <3>3. m <= dag'[v].run /\ (dag'[v].node = "extract" => m # dag'[v].run)
        BY <1>6, <1>9, <3>2
      <3>4. QED  BY <3>2, <3>3
    <2>3. QED  BY <2>1, <2>2
  <1>11. PublishIsInformed'
    <2> SUFFICES ASSUME NEW v \in Workflows, dag'[v].node = "publish"
                 PROVE  /\ dag'[v].read \in Reads[v]
                        /\ dag'[v].args = Output(InputOf[v], Prefix(v, dag'[v].run))
                        /\ Prefix(v, dag'[v].run) \in DOMAIN store'
                        /\ Holds(store'[Prefix(v, dag'[v].run)], v, dag'[v].read)
      BY Zenon DEF PublishIsInformed, Prefix, Output, Holds, Conn
    <2>1. CASE v = w
      BY <1>5, <1>8, <1>6, <1>9, <2>1
    <2>2. CASE v # w
      <3>1. dag'[v] = dag[v]
        BY <1>9, <2>2
      <3>2. Prefix(v, dag[v].run) # prefix
        BY <2>2, PrefixInjective
      <3>3. /\ dag[v].read \in Reads[v]
            /\ dag[v].args = Output(InputOf[v], Prefix(v, dag[v].run))
            /\ Prefix(v, dag[v].run) \in DOMAIN store
            /\ Holds(store[Prefix(v, dag[v].run)], v, dag[v].read)
        BY <3>1, Zenon DEF DagInv, PublishIsInformed
      <3>4. store'[Prefix(v, dag[v].run)] = store[Prefix(v, dag[v].run)]
            /\ Prefix(v, dag[v].run) \in DOMAIN store'
        BY <1>8, <3>2, <3>3
      <3>5. QED
        BY <3>1, <3>3, <3>4
    <2>3. QED  BY <2>1, <2>2
  <1>12. QED
    BY <1>9, <1>10, <1>11

----------------------------------------------------------------------------
(* The catalogue *)

LEMMA ConnFacts ==
    ASSUME NEW w
    PROVE  /\ Conn(w).qn = ConnectionOf(w)
           /\ Conn(w).emit = Creates(w) /\ Conn(w).assertion = ~Creates(w)
  BY DEF Conn, ResolvedConnection, ConnectionOf, Creates

\* What a publish goes by.
LEMMA PublishArgs ==
    ASSUME DagInv, NEW w \in Workflows, dag[w].node = "publish"
    PROVE  /\ dag[w].read \in Reads[w]
           /\ dag[w].args.connection_qualified_name = ConnectionOf(w)
           /\ dag[w].args.assertion_only_enabled = ~Creates(w)
           /\ Holds(store[dag[w].args.transformed_data_prefix], w, dag[w].read)
           /\ Published(dag[w].args) = {Leaf(i - 1) : i \in DOMAIN dag[w].read}
  <1>1. /\ dag[w].read \in Reads[w]
        /\ dag[w].args = Output(InputOf[w], Prefix(w, dag[w].run))
        /\ Holds(store[Prefix(w, dag[w].run)], w, dag[w].read)
    BY Zenon DEF DagInv, PublishIsInformed
  <1>2. /\ dag[w].args.connection_qualified_name = Conn(w).qn
        /\ dag[w].args.assertion_only_enabled = Conn(w).assertion
        /\ dag[w].args.transformed_data_prefix = Prefix(w, dag[w].run)
    BY <1>1 DEF Output, Conn
  <1>3. QED
    BY <1>1, <1>2, ConnFacts, Zenon DEF Published, Holds

\* The assets of a delivered object are described by the spec, but for the
\* Connection, which leads the first object on CREATE.
LEMMA DeliveredAssets ==
    ASSUME DagInv, NEW w \in Workflows, dag[w].node = "publish",
           NEW i \in DOMAIN dag[w].read, NEW run, NEW assets,
           assets = Assets(store[dag[w].args.transformed_data_prefix][Leaf(i - 1)],
                           ConnectionOf(w), run)
    PROVE  /\ Rows(Records(ConnectionOf(w), dag[w].read[i])) \subseteq DOMAIN assets
           /\ Creates(w) /\ i = 1 => ConnectionKey(ConnectionOf(w)) \in DOMAIN assets
           /\ \A k \in DOMAIN assets :
                 /\ \/ k \in Rows(Records(ConnectionOf(w), dag[w].read[i]))
                    \/ Creates(w) /\ k = ConnectionKey(ConnectionOf(w))
                 /\ IsEntry(k, assets[k])
           /\ \A k \in DOMAIN assets : assets[k].status = "ACTIVE"
           /\ \A k \in DOMAIN assets : assets[k].conn = ConnectionOf(w)
  <1> DEFINE conn == ConnectionOf(w)
             object == store[dag[w].args.transformed_data_prefix][Leaf(i - 1)]
             records == Records(conn, dag[w].read[i])
             rows == Rows(records)
  <1>1. Rows(object) = rows /\ (object.connection <=> Creates(w) /\ i = 1)
    <2>1. object = Transformed(Conn(w).emit /\ i = 1, Records(Conn(w).qn, dag[w].read[i]))
      BY PublishArgs DEF Holds
    <2> HIDE DEF object
    <2>2. object.connection <=> Conn(w).emit /\ i = 1
      BY <2>1 DEF Transformed
    <2>3. Rows(object) = Rows(Records(Conn(w).qn, dag[w].read[i]))
      BY <2>1 DEF Transformed, Rows
    <2>4. QED  BY <2>2, <2>3, ConnFacts
  <1>2. assets = Assets(object, conn, run)
    OBVIOUS
  <1> HIDE DEF object, conn, records, rows
  <1>3. /\ rows \subseteq DOMAIN assets
        /\ Creates(w) /\ i = 1 => ConnectionKey(conn) \in DOMAIN assets
        /\ \A k \in DOMAIN assets :
              /\ k \in rows \/ (Creates(w) /\ k = ConnectionKey(conn))
              /\ assets[k].conn = conn
              /\ assets[k] = [conn |-> conn, status |-> "ACTIVE", run |-> assets[k].run]
    BY <1>1, <1>2, ObjectAssets
  <1>4. ASSUME NEW k \in DOMAIN assets
        PROVE  IsEntry(k, assets[k]) /\ assets[k].status = "ACTIVE"
    <2> DEFINE e == assets[k]
    <2>1. e.conn = conn /\ e = [conn |-> conn, status |-> "ACTIVE", run |-> e.run]
      BY <1>3, <1>4
    <2>2. \/ k[1] \in {"APISpec", "APIPath"}
          \/ k[1] = "Connection" /\ k = ConnectionKey(conn)
      <3>1. k \in rows => k[1] \in {"APISpec", "APIPath"}
        BY RowKeys DEF rows
      <3>2. ConnectionKey(conn)[1] = "Connection"
        BY DEF ConnectionKey
      <3>3. QED  BY <1>3, <1>4, <3>1, <3>2
    <2> HIDE DEF e
    <2>3. e.status = "ACTIVE"
      BY <2>1
    <2>4. IsEntry(k, e)
      BY <2>1, <2>2, <2>3 DEF IsEntry
    <2>5. QED  BY <2>3, <2>4 DEF e
  <1>5. QED
    BY <1>3, <1>4 DEF conn, rows, records

LEMMA UpsertedKeeps ==
    ASSUME NEW assets, catalogue' = Upserted(assets)
    PROVE  /\ DOMAIN catalogue' = DOMAIN assets \cup DOMAIN catalogue
           /\ \A k \in DOMAIN assets : catalogue'[k] = assets[k]
           /\ \A k \in DOMAIN catalogue \ DOMAIN assets : catalogue'[k] = catalogue[k]
  BY DEF Upserted

(***************************************************************************)
(* An upsert makes active what one file of its run describes, and the      *)
(* Connection that leads the file on CREATE.                               *)
(***************************************************************************)
LEMMA UpsertIs ==
    ASSUME DagInv, NEW w \in Workflows, NEW l, Upsert(w, l)
    PROVE  \E i \in DOMAIN dag[w].read : \E assets :
              /\ l = Leaf(i - 1)
              /\ catalogue' = Upserted(assets)
              /\ Rows(Records(ConnectionOf(w), dag[w].read[i])) \subseteq DOMAIN assets
              /\ \A k \in DOMAIN assets :
                    /\ \/ k \in Rows(Records(ConnectionOf(w), dag[w].read[i]))
                       \/ Creates(w) /\ k = ConnectionKey(ConnectionOf(w))
                    /\ IsEntry(k, assets[k])
                    /\ assets[k].status = "ACTIVE" /\ assets[k].conn = ConnectionOf(w)
  <1>1. dag[w].node = "publish"
    BY DEF Upsert
  <1>2. PICK i \in DOMAIN dag[w].read : l = Leaf(i - 1)
    BY <1>1, PublishArgs DEF Upsert
  <1>3. PICK run : run = Prefix(w, dag[w].run)
    OBVIOUS
  <1>4. PICK assets :
           assets = Assets(store[dag[w].args.transformed_data_prefix][Leaf(i - 1)],
                           ConnectionOf(w), run)
    OBVIOUS
  <1>5. catalogue' = Upserted(assets)
    BY <1>1, <1>2, <1>3, <1>4, PublishArgs DEF Upsert
  <1>6. Rows(Records(ConnectionOf(w), dag[w].read[i])) \subseteq DOMAIN assets
    BY <1>1, <1>4, DeliveredAssets
  <1>7. \A k \in DOMAIN assets :
           \/ k \in Rows(Records(ConnectionOf(w), dag[w].read[i]))
           \/ Creates(w) /\ k = ConnectionKey(ConnectionOf(w))
    BY <1>1, <1>4, DeliveredAssets
  <1>8. \A k \in DOMAIN assets : IsEntry(k, assets[k])
    BY <1>1, <1>4, DeliveredAssets
  <1>9. \A k \in DOMAIN assets : assets[k].status = "ACTIVE"
    BY <1>1, <1>4, DeliveredAssets, Zenon
  <1>10. \A k \in DOMAIN assets : assets[k].conn = ConnectionOf(w)
    BY <1>1, <1>4, DeliveredAssets
  <1>11. QED
    BY <1>2, <1>5, <1>6, <1>7, <1>8, <1>9, <1>10

(***************************************************************************)
(* An upsert adds and changes what the spec of its run describes, and the  *)
(* Connection of a run that creates it.                                    *)
(***************************************************************************)
LEMMA UpsertStep ==
    ASSUME DagInv, NEW w \in Workflows, NEW l, Upsert(w, l)
    PROVE  /\ \A k \in DOMAIN catalogue' : IsEntry(k, catalogue'[k])
           /\ \A k \in DOMAIN catalogue :
                 \/ catalogue'[k] = catalogue[k]
                 \/ /\ catalogue'[k].status = "ACTIVE"
                    /\ k \in Described(ConnectionOf(w), dag[w].read)
                 \/ /\ catalogue'[k].status = "ACTIVE"
                    /\ Creates(w) /\ k = ConnectionKey(ConnectionOf(w))
  <1> DEFINE conn == ConnectionOf(w)
  <1>0. PICK i \in DOMAIN dag[w].read : \E assets :
           /\ catalogue' = Upserted(assets)
           /\ \A k \in DOMAIN assets :
                 /\ \/ k \in Rows(Records(conn, dag[w].read[i]))
                    \/ Creates(w) /\ k = ConnectionKey(conn)
                 /\ IsEntry(k, assets[k]) /\ assets[k].status = "ACTIVE"
    BY UpsertIs
  <1>1. PICK assets :
           /\ catalogue' = Upserted(assets)
           /\ \A k \in DOMAIN assets :
                 /\ \/ k \in Rows(Records(conn, dag[w].read[i]))
                    \/ Creates(w) /\ k = ConnectionKey(conn)
                 /\ IsEntry(k, assets[k]) /\ assets[k].status = "ACTIVE"
    BY <1>0
  <1> DEFINE rows == Rows(Records(conn, dag[w].read[i]))
  <1>2. rows \subseteq Described(conn, dag[w].read)
    BY Zenon DEF Described
  <1> HIDE DEF conn
  <1>3. \A k \in DOMAIN assets :
           /\ k \in rows \/ (Creates(w) /\ k = ConnectionKey(conn))
           /\ IsEntry(k, assets[k]) /\ assets[k].status = "ACTIVE"
    BY <1>1
  <1> HIDE DEF rows
  <1>4. /\ DOMAIN catalogue' = DOMAIN assets \cup DOMAIN catalogue
        /\ \A k \in DOMAIN assets : catalogue'[k] = assets[k]
        /\ \A k \in DOMAIN catalogue \ DOMAIN assets : catalogue'[k] = catalogue[k]
    BY <1>1, UpsertedKeeps
  <1>5. \A k \in DOMAIN catalogue' : IsEntry(k, catalogue'[k])
    BY <1>3, <1>4, Zenon DEF DagInv
  <1>6. ASSUME NEW k \in DOMAIN catalogue
        PROVE  \/ catalogue'[k] = catalogue[k]
               \/ catalogue'[k].status = "ACTIVE" /\ k \in Described(conn, dag[w].read)
               \/ catalogue'[k].status = "ACTIVE" /\ Creates(w) /\ k = ConnectionKey(conn)
    BY <1>2, <1>3, <1>4, <1>6
  <1>7. QED
    BY <1>5, <1>6 DEF conn

(***************************************************************************)
(* What a diff counts as delivered: what the files of the run describe,    *)
(* and the Connection.                                                     *)
(***************************************************************************)
LEMMA DiffIs ==
    ASSUME DagInv, NEW w \in Workflows, Archive(w), Creates(w)
    PROVE  \E delivered :
              /\ delivered = Described(ConnectionOf(w), dag[w].read)
                                \cup {ConnectionKey(ConnectionOf(w))}
              /\ catalogue' = [k \in DOMAIN catalogue |->
                    IF catalogue[k].conn = ConnectionOf(w) /\ k \notin delivered
                    THEN [catalogue[k] EXCEPT !.status = "ARCHIVED"]
                    ELSE catalogue[k]]
  <1> DEFINE conn == ConnectionOf(w)
             args == dag[w].args
             objects == store[args.transformed_data_prefix]
             delivered == UNION {DOMAIN Assets(objects[l], conn, None) : l \in Published(args)}
  <1>1. dag[w].node = "publish"
    BY DEF Archive
  <1>2. /\ dag[w].read \in Reads[w] /\ args.connection_qualified_name = conn
        /\ args.assertion_only_enabled = ~Creates(w)
        /\ Published(args) = {Leaf(i - 1) : i \in DOMAIN dag[w].read}
    BY <1>1, PublishArgs
  <1>3. catalogue' = [k \in DOMAIN catalogue |->
                         IF catalogue[k].conn = conn /\ k \notin delivered
                         THEN [catalogue[k] EXCEPT !.status = "ARCHIVED"]
                         ELSE catalogue[k]]
    BY <1>2 DEF Archive, Diffed
  <1>4. ASSUME NEW i \in DOMAIN dag[w].read
        PROVE  /\ Rows(Records(conn, dag[w].read[i])) \subseteq delivered
               /\ i = 1 => ConnectionKey(conn) \in delivered
               /\ DOMAIN Assets(objects[Leaf(i - 1)], conn, None)
                     \subseteq Rows(Records(conn, dag[w].read[i])) \cup {ConnectionKey(conn)}
    <2> DEFINE assets == Assets(objects[Leaf(i - 1)], conn, None)
    <2>1. DOMAIN assets \subseteq delivered
      BY <1>2, Zenon
    <2>2. assets = Assets(store[dag[w].args.transformed_data_prefix][Leaf(i - 1)],
                          ConnectionOf(w), None)
      OBVIOUS
    <2> HIDE DEF assets
    <2>3. /\ Rows(Records(ConnectionOf(w), dag[w].read[i])) \subseteq DOMAIN assets
          /\ i = 1 => ConnectionKey(ConnectionOf(w)) \in DOMAIN assets
          /\ \A k \in DOMAIN assets :
                \/ k \in Rows(Records(ConnectionOf(w), dag[w].read[i]))
                \/ k = ConnectionKey(ConnectionOf(w))
      BY <1>1, <2>2, DeliveredAssets
    <2>4. QED  BY <2>1, <2>3 DEF assets
  <1>5. ConnectionKey(conn) \in delivered
    BY <1>2, <1>4, ReadsAreLists
  <1>6. Described(conn, dag[w].read) \subseteq delivered
    BY <1>4 DEF Described
  <1>7. delivered \subseteq Described(conn, dag[w].read) \cup {ConnectionKey(conn)}
    <2> SUFFICES ASSUME NEW k \in delivered
                 PROVE  k \in Described(conn, dag[w].read) \/ k = ConnectionKey(conn)
      OBVIOUS
    <2>1. PICK i \in DOMAIN dag[w].read : k \in DOMAIN Assets(objects[Leaf(i - 1)], conn, None)
      BY <1>2
    <2>2. k \in Rows(Records(conn, dag[w].read[i])) \/ k = ConnectionKey(conn)
      BY <1>4, <2>1
    <2>3. QED  BY <2>2, Zenon DEF Described
  <1> HIDE DEF delivered
  <1>8. delivered = Described(conn, dag[w].read) \cup {ConnectionKey(conn)}
    BY <1>5, <1>6, <1>7
  <1>9. QED
    BY <1>3, <1>8

(***************************************************************************)
(* A diff archives what no file of the run describes, on the connection it *)
(* created, and leaves its Connection alone.                               *)
(***************************************************************************)
LEMMA ArchiveStep ==
    ASSUME DagInv, NEW w \in Workflows, Archive(w)
    PROVE  /\ \A k \in DOMAIN catalogue' : IsEntry(k, catalogue'[k])
           /\ DOMAIN catalogue' = DOMAIN catalogue
           /\ \A k \in DOMAIN catalogue :
                 \/ catalogue'[k] = catalogue[k]
                 \/ /\ Creates(w) /\ catalogue[k].conn = ConnectionOf(w)
                    /\ k \notin Described(ConnectionOf(w), dag[w].read)
  <1> DEFINE conn == ConnectionOf(w)
  <1>1. CASE ~Creates(w)
    <2>1. dag[w].args.assertion_only_enabled
      BY <1>1, PublishArgs DEF Archive
    <2>2. catalogue' = catalogue
      BY <2>1 DEF Archive
    <2>3. QED
      BY <2>2, Zenon DEF DagInv
  <1>2. CASE Creates(w)
    <2>1. PICK delivered :
             /\ delivered = Described(conn, dag[w].read) \cup {ConnectionKey(conn)}
             /\ catalogue' = [k \in DOMAIN catalogue |->
                                IF catalogue[k].conn = conn /\ k \notin delivered
                                THEN [catalogue[k] EXCEPT !.status = "ARCHIVED"]
                                ELSE catalogue[k]]
      BY <1>2, DiffIs
    <2>3. ConnectionKey(conn) \in delivered
      BY <2>1
    <2>4. Described(conn, dag[w].read) \subseteq delivered
      BY <2>1
    <2>5. ASSUME NEW k \in DOMAIN catalogue
          PROVE  /\ IsEntry(k, catalogue'[k])
                 /\ \/ catalogue'[k] = catalogue[k]
                    \/ /\ catalogue[k].conn = conn
                       /\ k \notin Described(conn, dag[w].read)
      <3>1. IsEntry(k, catalogue[k])
        BY <2>5 DEF DagInv
      <3>2. CASE catalogue[k].conn = conn /\ k \notin delivered
        <4> DEFINE e == catalogue[k]
        <4>1. e = [conn |-> e.conn, status |-> e.status, run |-> e.run]
              /\ k[1] \in {"Connection", "APISpec", "APIPath"}
              /\ (k[1] = "Connection" => k = ConnectionKey(e.conn))
          BY <3>1 DEF IsEntry
        <4>2. k[1] # "Connection"
          BY <2>3, <3>2, <4>1
        <4>3. catalogue'[k] = [e EXCEPT !.status = "ARCHIVED"]
          BY <2>1, <3>2
        <4>4. catalogue'[k] = [conn |-> e.conn, status |-> "ARCHIVED", run |-> e.run]
          <5> HIDE DEF e
          <5>1. QED  BY <4>1, <4>3
        <4> HIDE DEF e
        <4>5. IsEntry(k, catalogue'[k])
          BY <4>1, <4>2, <4>4 DEF IsEntry
        <4>6. k \notin Described(conn, dag[w].read)
          BY <2>4, <3>2
        <4>7. QED  BY <3>2, <4>5, <4>6
      <3>3. CASE ~(catalogue[k].conn = conn /\ k \notin delivered)
        BY <2>1, <3>1, <3>3
      <3>4. QED  BY <3>2, <3>3
    <2>6. DOMAIN catalogue' = DOMAIN catalogue
      BY <2>1
    <2>7. QED
      BY <1>2, <2>5, <2>6
  <1>3. QED
    BY <1>1, <1>2

LEMMA CreateConnectionStep ==
    ASSUME DagInv, NEW w \in Workflows, CreateConnection(w)
    PROVE  /\ \A k \in DOMAIN catalogue' : IsEntry(k, catalogue'[k])
           /\ \A k \in DOMAIN catalogue : catalogue'[k] = catalogue[k]
  <1> DEFINE conn == dag[w].args.connection_qualified_name
             assets == [k \in {ConnectionKey(conn)} |-> Stamp(conn, None)]
  <1>1. ConnectionKey(conn) \notin DOMAIN catalogue /\ catalogue' = Upserted(assets)
    BY DEF CreateConnection
  <1>2. DOMAIN assets = {ConnectionKey(conn)} /\ assets[ConnectionKey(conn)] = Stamp(conn, None)
    OBVIOUS
  <1> HIDE DEF assets, conn
  <1>3. IsEntry(ConnectionKey(conn), Stamp(conn, None))
    BY DEF IsEntry, Stamp, ConnectionKey
  <1>4. /\ DOMAIN catalogue' = DOMAIN assets \cup DOMAIN catalogue
        /\ \A k \in DOMAIN assets : catalogue'[k] = assets[k]
        /\ \A k \in DOMAIN catalogue \ DOMAIN assets : catalogue'[k] = catalogue[k]
    BY <1>1, UpsertedKeeps
  <1>5. \A k \in DOMAIN catalogue : catalogue'[k] = catalogue[k]
    BY <1>1, <1>2, <1>4
  <1>6. \A k \in DOMAIN assets : IsEntry(k, assets[k])
    BY <1>2, <1>3
  <1>7. \A k \in DOMAIN catalogue' : IsEntry(k, catalogue'[k])
    BY <1>4, <1>6, Zenon DEF DagInv
  <1>8. QED
    BY <1>5, <1>7

----------------------------------------------------------------------------
(* The invariant *)

LEMMA InitDagInv ==
    ASSUME Init
    PROVE  DagInv
  <1>1. 0 \in 0..MaxRuns
    BY DagBounds
  <1>2. Idle(0) \in Nodes /\ Idle(0).node = "idle"
    BY <1>1, IdleNode
  <1>3. dag = [w \in Workflows |-> Idle(0)] /\ DOMAIN store = {}
        /\ last = [w \in Workflows |-> None]
    BY DEF Init
  <1>4. dag \in [Workflows -> Nodes]
    BY <1>2, <1>3
  <1>5. PrefixesAreUsed
    BY <1>3 DEF PrefixesAreUsed
  <1>6. PublishIsInformed
    BY <1>2, <1>3 DEF PublishIsInformed
  <1>7. ASSUME NEW k \in DOMAIN catalogue
        PROVE  IsEntry(k, catalogue[k])
    <2> DEFINE f == CHOOSE f \in Foreign : f.key = k
    <2>1. k \in {g.key : g \in Foreign}
          /\ catalogue[k] = Stamp(f.conn, "foreign")
      BY <1>7 DEF Init
    <2>2. f \in Foreign /\ f.key = k
      BY <2>1
    <2>3. /\ k[1] \in {"Connection", "APISpec", "APIPath"}
          /\ k[1] = "Connection" => k = ConnectionKey(f.conn)
      BY <2>2, DagInputs
    <2> HIDE DEF f
    <2>4. QED
      BY <2>1, <2>3 DEF IsEntry, Stamp
  <1>8. QED
    BY <1>3, <1>4, <1>5, <1>6, <1>7 DEF DagInv

\* What a step of the DAG of w may do to the catalogue.
Disturbs(w) ==
    \A k \in DOMAIN catalogue :
       \/ catalogue'[k] = catalogue[k]
       \/ /\ dag[w].node = "publish" /\ catalogue'[k].status = "ACTIVE"
          /\ \/ k \in Described(ConnectionOf(w), dag[w].read)
             \/ Creates(w) /\ k = ConnectionKey(ConnectionOf(w))
       \/ /\ dag[w].node = "publish" /\ Creates(w)
          /\ catalogue[k].conn = ConnectionOf(w)
          /\ k \notin Described(ConnectionOf(w), dag[w].read)

Steps(w) ==
    \/ Trigger(w) \/ ExtractSucceeds(w) \/ ExtractFails(w)
    \/ CreateConnection(w) \/ (\E l \in dag[w].todo : Upsert(w, l))
    \/ Archive(w) \/ PublishFails(w)

LEMMA StepKeepsDagInv ==
    ASSUME DagInv, NEW w \in Workflows, Steps(w)
    PROVE  DagInv' /\ Disturbs(w)
  <1> DEFINE Runs == dag' \in [Workflows -> Nodes] /\ PrefixesAreUsed' /\ PublishIsInformed'
             Lasts == /\ \A v \in Workflows : last'[v] \in Reads[v] \cup {None}
                      /\ last' = [v \in Workflows |-> last'[v]]
             Entries == \A k \in DOMAIN catalogue' : IsEntry(k, catalogue'[k])
  <1>1. last' = last => Lasts
    BY Zenon DEF DagInv
  <1>2. catalogue' = catalogue => Entries /\ Disturbs(w)
    BY Zenon DEF DagInv, Disturbs
  <1>3. ASSUME NEW files \in Reads[w] \cup {None}, last' = [last EXCEPT ![w] = files]
        PROVE  Lasts
    BY <1>3 DEF DagInv
  <1>4. ASSUME dag' = dag, store' = store
        PROVE  Runs
    <2>1. dag' \in [Workflows -> Nodes]
      BY <1>4 DEF DagInv
    <2>2. PrefixesAreUsed'
      BY <1>4, Zenon DEF DagInv, PrefixesAreUsed, Prefix
    <2>3. PublishIsInformed'
      BY <1>4, Zenon DEF DagInv, PublishIsInformed, Prefix, Output, Holds, Conn
    <2>4. QED  BY <2>1, <2>2, <2>3
  <1>5. CASE Trigger(w)
    <2>1. Runs
      BY <1>5, TriggerStep
    <2>2. QED
      BY <1>1, <1>2, <1>5, <2>1 DEF Trigger, DagInv
  <1>6. CASE ExtractSucceeds(w)
    <2>1. Runs
      BY <1>6, ExtractStep
    <2>2. last' = last /\ catalogue' = catalogue
      BY <1>6 DEF ExtractSucceeds
    <2>3. QED
      BY <1>1, <1>2, <2>1, <2>2 DEF DagInv
  <1>7. CASE ExtractFails(w)
    <2>1. Runs
      BY <1>7, EndStep DEF ExtractFails
    <2>2. QED
      BY <1>1, <1>2, <1>7, <2>1 DEF ExtractFails, DagInv
  <1>8. CASE CreateConnection(w)
    <2>1. Entries /\ Disturbs(w)
      BY <1>8, CreateConnectionStep DEF Disturbs
    <2>2. QED
      BY <1>1, <1>4, <1>8, <2>1 DEF CreateConnection, DagInv
  <1>9. ASSUME NEW l \in dag[w].todo, Upsert(w, l)
        PROVE  DagInv' /\ Disturbs(w)
    <2>1. dag[w].node = "publish" /\ dag' = [dag EXCEPT ![w].todo = @ \ {l}]
          /\ store' = store /\ last' = [last EXCEPT ![w] = None]
      BY <1>9 DEF Upsert
    <2>2. Runs
      BY <2>1, GoOnStep
    <2>3. Entries /\ Disturbs(w)
      BY <1>9, <2>1, UpsertStep DEF Disturbs
    <2>4. QED
      BY <1>3, <2>1, <2>2, <2>3 DEF DagInv
  <1>10. CASE Archive(w)
    <2>1. dag[w].node = "publish" /\ dag' = [dag EXCEPT ![w] = Idle(@.run)]
          /\ store' = store /\ last' = [last EXCEPT ![w] = dag[w].read]
      BY <1>10 DEF Archive
    <2>2. Runs
      BY <2>1, EndStep
    <2>3. Entries /\ Disturbs(w)
      BY <1>10, <2>1, ArchiveStep DEF Disturbs
    <2>4. dag[w].read \in Reads[w] \cup {None}
      BY <2>1, PublishArgs
    <2>5. QED
      BY <1>3, <2>1, <2>2, <2>3, <2>4 DEF DagInv
  <1>11. CASE PublishFails(w)
    <2>1. Runs
      BY <1>11, EndStep DEF PublishFails
    <2>2. QED
      BY <1>1, <1>2, <1>11, <2>1 DEF PublishFails, DagInv
  <1>12. QED
    BY <1>5, <1>6, <1>7, <1>8, <1>9, <1>10, <1>11 DEF Steps

LEMMA StutterKeepsDagInv ==
    ASSUME DagInv, UNCHANGED vars
    PROVE  DagInv'
  BY Zenon DEF vars, DagInv, PrefixesAreUsed, PublishIsInformed, Prefix, Output, Holds, Conn

LEMMA NextKeepsDagInv ==
    ASSUME DagInv, [Next]_vars
    PROVE  DagInv'
  <1>1. CASE Next
    BY <1>1, StepKeepsDagInv DEF Next, Steps
  <1>2. CASE UNCHANGED vars
    BY <1>2, StutterKeepsDagInv
  <1>3. QED
    BY <1>1, <1>2

(***************************************************************************)
(* Every publish works from the prefix of its own run, which holds what    *)
(* that run read and nothing else.                                         *)
(***************************************************************************)
THEOREM DagInvariant == Spec => []DagInv
  <1>1. Init => DagInv
    BY InitDagInv
  <1>2. DagInv /\ [Next]_vars => DagInv'
    BY NextKeepsDagInv
  <1>3. QED
    BY <1>1, <1>2, PTL DEF Spec

\* Whatever the runs do, the nodes, arguments and assets are of their types.
THEOREM DagIsTyped == Spec => []TypeOK
  <1>1. DagInv => TypeOK
    <2> SUFFICES ASSUME DagInv PROVE TypeOK
      OBVIOUS
    <2>1. ASSUME NEW w \in Workflows
          PROVE  /\ dag[w].node \in {"idle", "extract", "publish"}
                 /\ dag[w].run \in 0..MaxRuns
                 /\ last[w] \in Reads[w] \cup {None}
      BY DEF DagInv, Nodes
    <2>2. ASSUME NEW w \in Workflows, dag[w].node = "publish"
          PROVE  /\ dag[w].read \in Reads[w]
                 /\ dag[w].args.assertion_only_enabled \in BOOLEAN
      <3>1. dag[w].args.assertion_only_enabled = ~Creates(w)
        BY <2>2, PublishArgs
      <3>2. QED  BY <2>2, <3>1, PublishArgs DEF Creates
    <2>3. ASSUME NEW k \in DOMAIN catalogue
          PROVE  /\ k[1] \in {"Connection", "APISpec", "APIPath"}
                 /\ catalogue[k].status \in {"ACTIVE", "ARCHIVED"}
      BY <2>3 DEF DagInv, IsEntry
    <2>4. QED
      BY <2>1, <2>2, <2>3 DEF TypeOK
  <1>2. QED
    BY <1>1, DagInvariant, PTL

\* A Connection that was created stays active, whatever is published of it.
THEOREM ConnectionIsNeverArchived == Spec => []ConnectionSurvives
  <1>1. DagInv => ConnectionSurvives
    BY DEF DagInv, IsEntry, ConnectionSurvives
  <1>2. QED
    BY <1>1, DagInvariant, PTL

(***************************************************************************)
(* No run of any workflow archives an asset of a connection shared with    *)
(* other sources, or changes one that its spec does not describe.          *)
(***************************************************************************)
THEOREM SharedAssetsAreSafe == Spec => SharedAssetsSurvive
  <1> DEFINE Survives ==
        \A k \in DOMAIN catalogue :
           catalogue[k].conn \in Shared =>
              \/ catalogue'[k] = catalogue[k]
              \/ /\ catalogue'[k].status = "ACTIVE"
                 /\ \E w \in Workflows :
                       dag[w].node = "publish"
                       /\ k \in Described(ConnectionOf(w), dag[w].read)
  <1>1. ASSUME DagInv, Next
        PROVE  Survives
    <2> SUFFICES ASSUME NEW k \in DOMAIN catalogue, catalogue[k].conn \in Shared
                 PROVE  \/ catalogue'[k] = catalogue[k]
                        \/ /\ catalogue'[k].status = "ACTIVE"
                           /\ \E w \in Workflows :
                                 dag[w].node = "publish"
                                 /\ k \in Described(ConnectionOf(w), dag[w].read)
      OBVIOUS
    <2>1. PICK w \in Workflows : Steps(w)
      BY <1>1 DEF Next, Steps
    <2>2. Disturbs(w)
      BY <1>1, <2>1, StepKeepsDagInv
    <2>3. Creates(w) => ConnectionOf(w) \notin Shared
      BY DagInputs
    <2>4. k = ConnectionKey(ConnectionOf(w)) => catalogue[k].conn = ConnectionOf(w)
      BY <1>1 DEF DagInv, IsEntry, ConnectionKey
    <2>5. QED
      BY <2>2, <2>3, <2>4 DEF Disturbs
  <1>2. UNCHANGED vars => Survives
    BY DEF vars
  <1>3. DagInv /\ [Next]_vars => [Survives]_vars
    BY <1>1, <1>2
  <1>4. QED
    BY <1>3, DagInvariant, PTL DEF Spec, SharedAssetsSurvive

(***************************************************************************)
(* What a run archives is of the connection it created, and no usable      *)
(* document of any file it read describes it.                              *)
(***************************************************************************)
THEOREM ArchivedIsGone == Spec => ArchivedMeansGone
  <1> DEFINE Gone ==
        \A k \in DOMAIN catalogue :
           catalogue[k].status = "ACTIVE" /\ catalogue'[k].status = "ARCHIVED"
           => \E w \in Workflows :
                 /\ dag[w].node = "publish" /\ Creates(w)
                 /\ catalogue[k].conn = ConnectionOf(w)
                 /\ k \notin Described(ConnectionOf(w), dag[w].read)
  <1>1. ASSUME DagInv, Next
        PROVE  Gone
    <2>1. PICK w \in Workflows : Steps(w)
      BY <1>1 DEF Next, Steps
    <2>2. Disturbs(w)
      BY <1>1, <2>1, StepKeepsDagInv
    <2>3. QED
      BY <2>2 DEF Disturbs
  <1>2. UNCHANGED vars => Gone
    BY DEF vars
  <1>3. DagInv /\ [Next]_vars => [Gone]_vars
    BY <1>1, <1>2
  <1>4. QED
    BY <1>3, DagInvariant, PTL DEF Spec, ArchivedMeansGone

----------------------------------------------------------------------------
(* The promise *)

\* The objects of a run, in the order of their names, are its delivery.
LEMMA HandedDelivery ==
    ASSUME NEW w \in Workflows, NEW files \in Reads[w], NEW objects,
           Holds(objects, w, files)
    PROVE  [i \in 1..Cardinality(DOMAIN objects) |-> objects[Leaf(i - 1)]]
              = Delivery(InputOf[w], files)
  <1> DEFINE n == Len(files)
  <1>1. n \in Nat /\ DOMAIN files = 1..n
    BY DagInputs
  <1>2. DOMAIN objects = {Leaf(i - 1) : i \in 1..n}
    BY <1>1 DEF Holds
  <1> HIDE DEF n
  <1>3. Cardinality(DOMAIN objects) = n
    <2> DEFINE f == [i \in 1..n |-> Leaf(i - 1)]
               names == {Leaf(i - 1) : i \in 1..n}
    <2>1. f \in [1..n -> names] /\ \A l \in names : \E i \in 1..n : f[i] = l
      OBVIOUS
    <2>2. ASSUME NEW i \in 1..n, NEW j \in 1..n, f[i] = f[j]
          PROVE  i = j
      <3>1. i - 1 \in Nat /\ j - 1 \in Nat
        BY <1>1
      <3>2. Leaf(i - 1) = Leaf(j - 1)
        BY <2>2
      <3>3. i - 1 = j - 1
        BY <3>1, <3>2, LeafInjective
      <3>4. QED  BY <1>1, <3>3
    <2> HIDE DEF f, names
    <2>3. f \in Bijection(1..n, names)
      BY <2>1, <2>2 DEF Bijection, Injection, Surjection, IsInjective
    <2>4. ExistsBijection(1..n, names)
      BY <2>3 DEF ExistsBijection
    <2>5. IsFiniteSet(1..n) /\ Cardinality(1..n) = n
      <3>1. 1 \in Int /\ n \in Int
        BY <1>1
      <3>2. /\ IsFiniteSet(1..n)
            /\ Cardinality(1..n) = IF 1 > n THEN 0 ELSE n - 1 + 1
        BY <3>1, FS_Interval
      <3>3. QED  BY <1>1, <3>2
    <2>6. QED
      BY <1>2, <2>4, <2>5, FS_Bijection DEF names
  <1>4. \A i \in 1..n : objects[Leaf(i - 1)]
                           = Transformed(Conn(w).emit /\ i = 1, Records(Conn(w).qn, files[i]))
    BY <1>1 DEF Holds
  <1>5. Delivery(InputOf[w], files)
          = [i \in 1..n |-> Transformed(Conn(w).emit /\ i = 1, Records(Conn(w).qn, files[i]))]
    BY <1>1 DEF Delivery, Conn
  <1>6. QED
    BY <1>3, <1>4, <1>5, Zenon

\* What a step of w is to the n-th run of v.
LEMMA OutcomeStep ==
    ASSUME DagInv, NEW w \in Workflows, Steps(w),
           NEW v \in Workflows, NEW n \in 1..MaxRuns
    PROVE  \/ Outcome(v, n)' = Outcome(v, n) /\ Handed(v, n)' = Handed(v, n)
           \/ /\ Outcome(v, n) = "running" /\ Outcome(v, n)' = "failed"
              /\ Handed(v, n)' = Handed(v, n)
           \/ /\ Outcome(v, n) = "running" /\ Outcome(v, n)' = "done"
              /\ \E files \in Reads[v] : Handed(v, n)' = Delivery(InputOf[v], files)
  <1>1. dag \in [Workflows -> Nodes] /\ dag[w] \in Nodes /\ dag[w].run \in Nat /\ n \in Nat
    BY DagBounds DEF DagInv, Nodes
  <1>2. ASSUME store' = store, dag'[v] = dag[v]
        PROVE  Outcome(v, n)' = Outcome(v, n) /\ Handed(v, n)' = Handed(v, n)
    BY <1>2 DEF Outcome, Handed, Prefix
  <1>3. ASSUME store' = store, v = w
        PROVE  Handed(v, n)' = Handed(v, n)
    BY <1>3 DEF Handed, Prefix
  <1>4. CASE Trigger(w)
    <2>1. store' = store /\ dag[w].node = "idle"
          /\ dag' = [dag EXCEPT ![w] = [Idle(@.run + 1) EXCEPT !.node = "extract"]]
      BY <1>4 DEF Trigger
    <2>2. CASE v = w
      <3>1. dag'[w].run = dag[w].run + 1 /\ dag'[w].node = "extract"
        BY <1>1, <2>1 DEF Idle
      <3>2. Outcome(w, n)' = Outcome(w, n)
        BY <1>1, <2>1, <3>1 DEF Outcome, Prefix
      <3>3. QED  BY <1>3, <2>1, <2>2, <3>2
    <2>3. CASE v # w
      BY <1>1, <1>2, <2>1, <2>3
    <2>4. QED  BY <2>2, <2>3
  <1>5. CASE ExtractFails(w)
    <2>1. store' = store /\ dag[w].node = "extract" /\ dag' = [dag EXCEPT ![w] = Idle(@.run)]
      BY <1>5 DEF ExtractFails
    <2>2. CASE v = w
      <3>1. dag'[w].run = dag[w].run /\ dag'[w].node = "idle"
        BY <1>1, <2>1 DEF Idle
      <3>2. \/ Outcome(w, n)' = Outcome(w, n)
            \/ Outcome(w, n) = "running" /\ Outcome(w, n)' = "failed"
        BY <1>1, <2>1, <3>1 DEF Outcome, Prefix
      <3>3. QED  BY <1>3, <2>1, <2>2, <3>2
    <2>3. CASE v # w
      BY <1>1, <1>2, <2>1, <2>3
    <2>4. QED  BY <2>2, <2>3
  <1>6. ASSUME dag[w].node = "publish", store' = store, dag'[w].run = dag[w].run,
               dag'[w].node # "extract", \A u \in Workflows : u # w => dag'[u] = dag[u]
        PROVE  Outcome(v, n)' = Outcome(v, n) /\ Handed(v, n)' = Handed(v, n)
    <2>1. CASE v = w
      <3>1. Outcome(w, n)' = Outcome(w, n)
        BY <1>6 DEF Outcome, Prefix
      <3>2. QED  BY <1>3, <1>6, <2>1, <3>1
    <2>2. CASE v # w
      BY <1>2, <1>6, <2>2
    <2>3. QED  BY <2>1, <2>2
  <1>7. CASE CreateConnection(w)
    BY <1>2, <1>7 DEF CreateConnection
  <1>8. ASSUME NEW l \in dag[w].todo, Upsert(w, l)
        PROVE  Outcome(v, n)' = Outcome(v, n) /\ Handed(v, n)' = Handed(v, n)
    <2>1. dag[w].node = "publish" /\ dag' = [dag EXCEPT ![w].todo = @ \ {l}] /\ store' = store
      BY <1>8 DEF Upsert
    <2>2. dag'[w].run = dag[w].run /\ dag'[w].node = "publish"
          /\ \A u \in Workflows : u # w => dag'[u] = dag[u]
      BY <1>1, <2>1 DEF Nodes
    <2>3. QED  BY <1>6, <2>1, <2>2
  <1>9. CASE Archive(w) \/ PublishFails(w)
    <2>1. dag[w].node = "publish" /\ dag' = [dag EXCEPT ![w] = Idle(@.run)] /\ store' = store
      BY <1>9 DEF Archive, PublishFails
    <2>2. dag'[w].run = dag[w].run /\ dag'[w].node = "idle"
          /\ \A u \in Workflows : u # w => dag'[u] = dag[u]
      BY <1>1, <2>1 DEF Idle
    <2>3. QED  BY <1>6, <2>1, <2>2
  <1>10. CASE ExtractSucceeds(w)
    <2> DEFINE prefix == Prefix(w, dag[w].run)
    <2>1. dag[w].node = "extract" /\ prefix \notin DOMAIN store
      BY <1>10, PrefixIsFresh DEF ExtractSucceeds
    <2>2. /\ DOMAIN store' = DOMAIN store \cup {prefix}
          /\ \A p \in DOMAIN store : p # prefix => store'[p] = store[p]
      BY <1>10 DEF ExtractSucceeds
    <2>3. /\ dag'[w].node = "publish" /\ dag'[w].run = dag[w].run
          /\ \A u \in Workflows : u # w => dag'[u] = dag[u]
      <3>1. \E files, args, todo :
               dag' = [dag EXCEPT ![w].node = "publish", ![w].read = files,
                                  ![w].args = args, ![w].todo = todo]
        BY <1>10, Zenon DEF ExtractSucceeds
      <3>2. QED  BY <1>1, <3>1 DEF Nodes
    <2>4. CASE v = w /\ n = dag[w].run
      <3>1. Outcome(v, n) = "running" /\ Outcome(v, n)' = "done"
        BY <2>1, <2>2, <2>4 DEF Outcome, Prefix
      <3>2. PublishIsInformed'
        BY <1>10, ExtractStep
      <3>3. dag'[w].read \in Reads[w] /\ Holds(store'[prefix], w, dag'[w].read)
        BY <2>3, <3>2 DEF PublishIsInformed, Prefix, Holds, Conn
      <3>4. Handed(v, n)' = [i \in 1..Cardinality(DOMAIN store'[prefix]) |->
                               store'[prefix][Leaf(i - 1)]]
        BY <2>2, <2>4 DEF Handed, Prefix, Leaf
      <3>5. Handed(v, n)' = Delivery(InputOf[w], dag'[w].read)
        <4> DEFINE objects == store'[prefix]
        <4>1. Holds(objects, w, dag'[w].read)
          BY <3>3
        <4> HIDE DEF objects
        <4>2. [i \in 1..Cardinality(DOMAIN objects) |-> objects[Leaf(i - 1)]]
                 = Delivery(InputOf[w], dag'[w].read)
          BY <3>3, <4>1, HandedDelivery
        <4>3. QED  BY <3>4, <4>2 DEF objects
      <3>6. QED  BY <2>4, <3>1, <3>3, <3>5
    <2>5. CASE ~(v = w /\ n = dag[w].run)
      <3>1. Prefix(v, n) # prefix
        BY <2>5, PrefixInjective
      <3>2. Handed(v, n)' = Handed(v, n)
        BY <2>2, <3>1 DEF Handed, Prefix, Leaf
      <3>3. Outcome(v, n)' = Outcome(v, n)
        BY <2>1, <2>2, <2>3, <2>5, <3>1 DEF Outcome, Prefix
      <3>4. QED  BY <3>2, <3>3
    <2>6. QED  BY <2>4, <2>5
  <1>11. QED
    BY <1>4, <1>5, <1>7, <1>8, <1>9, <1>6, <1>10 DEF Steps

(***************************************************************************)
(* Every run of every workflow implements LoadPromise: what it hands over  *)
(* is one delivery, at once and for good.                                  *)
(***************************************************************************)
THEOREM EveryRunKeepsPromise == Spec => RunsKeepPromise
  <1> DEFINE First == \A w \in Workflows, n \in 1..MaxRuns : Run(w, n)!Init
             Kept == \A w \in Workflows, n \in 1..MaxRuns :
                        Run(w, n)!Next \/ UNCHANGED Run(w, n)!vars
  <1>1. Init => First
    <2> SUFFICES ASSUME Init, NEW w \in Workflows, NEW n \in 1..MaxRuns
                 PROVE  Run(w, n)!Init
      OBVIOUS
    <2>1. DOMAIN store = {} /\ dag[w].run = 0
      BY DEF Init, Idle
    <2>2. Outcome(w, n) = "running" /\ Handed(w, n) = <<>>
      BY <2>1, DagBounds DEF Outcome, Handed
    <2>3. QED
      BY <2>2 DEF Run!Init
  <1>2. ASSUME DagInv, Next
        PROVE  Kept
    <2>1. PICK w \in Workflows : Steps(w)
      BY <1>2 DEF Next, Steps
    <2> SUFFICES ASSUME NEW v \in Workflows, NEW n \in 1..MaxRuns
                 PROVE  Run(v, n)!Next \/ UNCHANGED Run(v, n)!vars
      OBVIOUS
    <2>2. QED
      BY <1>2, <2>1, OutcomeStep DEF Run!Next, Run!Deliver, Run!Refuse, Run!vars
  <1>3. UNCHANGED vars => Kept
    BY DEF vars, Run!vars, Outcome, Handed, Prefix, Leaf
  <1>4. DagInv /\ [Next]_vars => [Kept]_vars
    BY <1>2, <1>3
  <1>5. QED
    BY <1>1, <1>4, DagInvariant, PTL DEF Spec, RunsKeepPromise

----------------------------------------------------------------------------
(* What a connection of its own shows *)

\* The assets that the specs of w may describe.
Keys(w) == UNION {Described(ConnectionOf(w), files) : files \in Reads[w]}

ActiveOf(assets, conn) ==
    {k \in DOMAIN assets : assets[k].conn = conn /\ assets[k].status = "ACTIVE"}

(***************************************************************************)
(* The connection that w creates, in a catalogue of assets, with w's run   *)
(* and what w published last: it has assets of w's specs alone; what is    *)
(* active is what was published last, unless a publish has begun since;    *)
(* and a publish has made active what it has upserted.                     *)
(***************************************************************************)
Shows(w, assets, run, published) ==
    LET conn   == ConnectionOf(w)
        active == ActiveOf(assets, conn)
    IN  /\ \A k \in DOMAIN assets :
              assets[k].conn = conn => k \in Keys(w) \cup {ConnectionKey(conn)}
        /\ published # None =>
              active \ {ConnectionKey(conn)} = Described(conn, published)
        /\ run.node = "publish" =>
              \A i \in DOMAIN run.read :
                 Leaf(i - 1) \notin run.todo =>
                    Rows(Records(conn, run.read[i])) \subseteq active

Shown == \A w \in Workflows : Creates(w) => Shows(w, catalogue, dag[w], last[w])

\* A qualified name tells the connection that it begins with.
LEMMA SameStart ==
    ASSUME NEW S, NEW a \in Seq(S), NEW b \in Seq(S), NEW s \in Seq(S), NEW t \in Seq(S),
           Len(a) = Len(b), a \o s = b \o t
    PROVE  a = b
  <1>1. \A i \in 1..Len(a) : (a \o s)[i] = a[i] /\ (b \o t)[i] = b[i]
    OBVIOUS
  <1>2. \A i \in 1..Len(a) : a[i] = b[i]
    BY <1>1
  <1>3. QED
    BY <1>2

LEMMA KeysStart ==
    ASSUME NEW w \in Workflows, NEW k \in Keys(w)
    PROVE  /\ k[1] \in {"APISpec", "APIPath"}
           /\ \E t \in Seq(STRING) : k[2] = ConnectionOf(w) \o t
  <1> DEFINE conn == ConnectionOf(w)
  <1>1. PICK files \in Reads[w] : k \in Described(conn, files)
    BY DEF Keys
  <1>2. PICK i \in DOMAIN files : k \in Rows(Records(conn, files[i]))
    BY <1>1 DEF Described
  <1> DEFINE docs == files[i]
             records == Records(conn, docs)
  <1>3. conn \in Seq(STRING)
    BY DagNames
  <1>4. \A d \in DOMAIN docs :
           /\ docs[d].title \in Seq(STRING)
           /\ DOMAIN docs[d].paths \cup DOMAIN docs[d].webhooks \subseteq Seq(STRING)
    BY DagNames
  <1>5. records.specs = SpecLines(conn, docs) /\ records.paths = PathLines(conn, docs)
    BY DEF Records
  <1> HIDE DEF docs, records, conn
  <1>6. ASSUME NEW s \in records.specs
        PROVE  \E t \in Seq(STRING) : s.qn = conn \o t
    <2>1. PICK d \in UsableDocs(docs) : s = [doc |-> d, qn |-> SpecQN(conn, docs[d].title)]
      BY <1>5, <1>6 DEF SpecLines
    <2>2. s.qn = conn \o docs[d].title
      BY <2>1 DEF SpecQN
    <2>3. QED  BY <1>4, <2>2 DEF UsableDocs
  <1>7. ASSUME NEW p \in records.paths
        PROVE  \E t \in Seq(STRING) : p.qn = conn \o t
    <2>1. PICK d \in UsableDocs(docs) : p \in PathLinesOf(conn, d, docs[d])
      BY <1>5, <1>7 DEF PathLines
    <2>2. DOMAIN AllPathItems(docs[d]) = DOMAIN docs[d].paths \cup DOMAIN docs[d].webhooks
      BY DEF AllPathItems
    <2>3. PICK key \in DOMAIN AllPathItems(docs[d]) :
             p.qn = PathQN(SpecQN(conn, docs[d].title), key)
      BY <2>1 DEF PathLinesOf
    <2>4. docs[d].title \in Seq(STRING) /\ key \in Seq(STRING)
      BY <1>4, <2>2, <2>3 DEF UsableDocs
    <2> DEFINE t == docs[d].title
    <2>5. t \in Seq(STRING)
      BY <2>4
    <2> HIDE DEF t
    <2>6. (conn \o t) \o key = conn \o (t \o key) /\ t \o key \in Seq(STRING)
      <3>1. conn \in Seq(STRING) /\ t \in Seq(STRING) /\ key \in Seq(STRING)
        BY <1>3, <2>4, <2>5
      <3>2. QED  BY <3>1, ConcatAssociative, ConcatProperties
    <2>7. QED  BY <2>3, <2>6 DEF PathQN, SpecQN, t
  <1>8. \/ \E s \in records.specs : k = <<"APISpec", s.qn>>
        \/ \E p \in records.paths : k = <<"APIPath", p.qn>>
    BY <1>2 DEF Rows, records, docs
  <1>9. QED
    BY <1>6, <1>7, <1>8 DEF conn

\* No other workflow describes an asset of a connection that w creates.
LEMMA KeysAreOwn ==
    ASSUME NEW w \in Workflows, NEW v \in Workflows, v # w, Creates(w)
    PROVE  /\ ConnectionOf(v) # ConnectionOf(w)
           /\ \A k \in Keys(w) \cup {ConnectionKey(ConnectionOf(w))} :
                 k \notin Keys(v) \cup {ConnectionKey(ConnectionOf(v))}
  <1> DEFINE a == ConnectionOf(v)
             b == ConnectionOf(w)
  <1>1. a \in Seq(STRING) /\ b \in Seq(STRING) /\ Len(a) = Len(b) /\ a # b
    BY DagNames
  <1>2. \A k \in Keys(v) : /\ k[1] \in {"APISpec", "APIPath"}
                           /\ \E t \in Seq(STRING) : k[2] = a \o t
    BY KeysStart
  <1>3. \A k \in Keys(w) : /\ k[1] \in {"APISpec", "APIPath"}
                           /\ \E t \in Seq(STRING) : k[2] = b \o t
    BY KeysStart
  <1> HIDE DEF a, b
  <1>4. ConnectionKey(a) # ConnectionKey(b)
        /\ ConnectionKey(a)[1] = "Connection" /\ ConnectionKey(b)[1] = "Connection"
    BY <1>1 DEF ConnectionKey
  <1>5. ASSUME NEW k \in Keys(w), k \in Keys(v)
        PROVE  FALSE
    <2>1. PICK t \in Seq(STRING) : k[2] = a \o t
      BY <1>2, <1>5
    <2>2. PICK u \in Seq(STRING) : k[2] = b \o u
      BY <1>3, <1>5
    <2>3. a \o t = b \o u
      BY <2>1, <2>2
    <2>4. QED  BY <1>1, <2>3, SameStart
  <1>6. QED
    BY <1>1, <1>2, <1>3, <1>4, <1>5 DEF a, b

\* What is described of a run's specs are keys of its workflow.
LEMMA DescribedKeys ==
    ASSUME NEW w \in Workflows, NEW files \in Reads[w]
    PROVE  /\ Described(ConnectionOf(w), files) \subseteq Keys(w)
           /\ \A i \in DOMAIN files :
                 Rows(Records(ConnectionOf(w), files[i]))
                    \subseteq Described(ConnectionOf(w), files)
           /\ ConnectionKey(ConnectionOf(w)) \notin Described(ConnectionOf(w), files)
  <1>1. Described(ConnectionOf(w), files) \subseteq Keys(w)
    BY DEF Keys
  <1>2. \A i \in DOMAIN files :
           Rows(Records(ConnectionOf(w), files[i])) \subseteq Described(ConnectionOf(w), files)
    BY Zenon DEF Described
  <1>3. ConnectionKey(ConnectionOf(w))[1] = "Connection"
    BY DEF ConnectionKey
  <1>4. \A k \in Keys(w) : k[1] # "Connection"
    BY KeysStart
  <1>5. QED
    BY <1>1, <1>2, <1>3, <1>4

\* The steps that leave the assets of a connection, and its run, alone.
LEMMA SameAssets ==
    ASSUME NEW w \in Workflows, Shows(w, catalogue, dag[w], last[w]),
           \A k \in DOMAIN catalogue :
              catalogue[k].conn = ConnectionOf(w) =>
                 k \in DOMAIN catalogue' /\ catalogue'[k] = catalogue[k],
           \A k \in DOMAIN catalogue' :
              catalogue'[k].conn = ConnectionOf(w) =>
                 k \in DOMAIN catalogue /\ catalogue'[k] = catalogue[k],
           last'[w] = last[w],
           dag'[w].node # "publish" \/ dag'[w] = dag[w]
    PROVE  Shows(w, catalogue', dag'[w], last'[w])
  <1>1. ActiveOf(catalogue', ConnectionOf(w)) = ActiveOf(catalogue, ConnectionOf(w))
    BY DEF ActiveOf
  <1>2. \A k \in DOMAIN catalogue' :
           catalogue'[k].conn = ConnectionOf(w) =>
              k \in Keys(w) \cup {ConnectionKey(ConnectionOf(w))}
    BY DEF Shows
  <1>3. QED
    BY <1>1, <1>2 DEF Shows

(***************************************************************************)
(* The DAG of another workflow: its assets have other keys, and its diff   *)
(* is of its own connection.                                               *)
(***************************************************************************)
LEMMA OthersShow ==
    ASSUME DagInv, NEW w \in Workflows, Creates(w), Shows(w, catalogue, dag[w], last[w]),
           NEW v \in Workflows, v # w, Steps(v)
    PROVE  Shows(w, catalogue', dag'[w], last'[w])
  <1> DEFINE own == Keys(w) \cup {ConnectionKey(ConnectionOf(w))}
             theirs == Keys(v) \cup {ConnectionKey(ConnectionOf(v))}
             Leaves == /\ \A k \in DOMAIN catalogue :
                             catalogue[k].conn = ConnectionOf(w) =>
                                k \in DOMAIN catalogue' /\ catalogue'[k] = catalogue[k]
                       /\ \A k \in DOMAIN catalogue' :
                             catalogue'[k].conn = ConnectionOf(w) =>
                                k \in DOMAIN catalogue /\ catalogue'[k] = catalogue[k]
  <1>1. ConnectionOf(v) # ConnectionOf(w) /\ \A k \in own : k \notin theirs
    BY KeysAreOwn
  <1>2. \A k \in DOMAIN catalogue : catalogue[k].conn = ConnectionOf(w) => k \in own
    BY DEF Shows
  <1> HIDE DEF own, theirs
  <1>3. ASSUME NEW assets, catalogue' = Upserted(assets),
               \A k \in DOMAIN assets : k \in theirs /\ assets[k].conn = ConnectionOf(v)
        PROVE  Leaves
    <2>1. /\ DOMAIN catalogue' = DOMAIN assets \cup DOMAIN catalogue
          /\ \A k \in DOMAIN assets : catalogue'[k] = assets[k]
          /\ \A k \in DOMAIN catalogue \ DOMAIN assets : catalogue'[k] = catalogue[k]
      BY <1>3, UpsertedKeeps
    <2>2. QED  BY <1>1, <1>2, <1>3, <2>1
  <1>4. dag'[w] = dag[w] /\ last'[w] = last[w]
    <2>1. dag \in [Workflows -> Nodes] /\ last = [u \in Workflows |-> last[u]]
      BY DEF DagInv
    <2>2. QED
      BY <2>1, Zenon DEF Steps, Trigger, ExtractSucceeds, ExtractFails, CreateConnection,
         Upsert, Archive, PublishFails
  <1>5. CASE catalogue' = catalogue
    BY <1>4, <1>5, SameAssets
  <1>6. CASE CreateConnection(v)
    <2> DEFINE conn == dag[v].args.connection_qualified_name
               assets == [k \in {ConnectionKey(conn)} |-> Stamp(conn, None)]
    <2>1. conn = ConnectionOf(v) /\ catalogue' = Upserted(assets)
      BY <1>6, PublishArgs DEF CreateConnection
    <2>2. \A k \in DOMAIN assets : k = ConnectionKey(conn) /\ assets[k].conn = conn
      BY DEF Stamp
    <2> HIDE DEF conn, assets
    <2>3. \A k \in DOMAIN assets : k \in theirs /\ assets[k].conn = ConnectionOf(v)
      BY <2>1, <2>2 DEF theirs
    <2>4. QED  BY <1>3, <1>4, <2>1, <2>3, SameAssets
  <1>7. ASSUME NEW l \in dag[v].todo, Upsert(v, l)
        PROVE  Shows(w, catalogue', dag'[w], last'[w])
    <2>0. PICK i \in DOMAIN dag[v].read : \E assets :
             /\ catalogue' = Upserted(assets)
             /\ \A k \in DOMAIN assets :
                   /\ \/ k \in Rows(Records(ConnectionOf(v), dag[v].read[i]))
                      \/ k = ConnectionKey(ConnectionOf(v))
                   /\ assets[k].conn = ConnectionOf(v)
      BY <1>7, UpsertIs
    <2>1. PICK assets :
             /\ catalogue' = Upserted(assets)
             /\ \A k \in DOMAIN assets :
                   /\ \/ k \in Rows(Records(ConnectionOf(v), dag[v].read[i]))
                      \/ k = ConnectionKey(ConnectionOf(v))
                   /\ assets[k].conn = ConnectionOf(v)
      BY <2>0
    <2>2. dag[v].read \in Reads[v]
      BY <1>7, PublishArgs DEF Upsert
    <2>3. Rows(Records(ConnectionOf(v), dag[v].read[i])) \subseteq Keys(v)
      BY <2>2, DescribedKeys
    <2>4. \A k \in DOMAIN assets : k \in theirs /\ assets[k].conn = ConnectionOf(v)
      BY <2>1, <2>3 DEF theirs
    <2>5. QED  BY <1>3, <1>4, <2>1, <2>4, SameAssets
  <1>8. CASE Archive(v)
    <2>1. CASE ~Creates(v)
      <3>1. dag[v].args.assertion_only_enabled
        BY <1>8, <2>1, PublishArgs DEF Archive
      <3>2. QED  BY <1>5, <1>8, <3>1 DEF Archive
    <2>2. CASE Creates(v)
      <3>1. PICK delivered :
               catalogue' = [k \in DOMAIN catalogue |->
                                IF catalogue[k].conn = ConnectionOf(v) /\ k \notin delivered
                                THEN [catalogue[k] EXCEPT !.status = "ARCHIVED"]
                                ELSE catalogue[k]]
        BY <1>8, <2>2, DiffIs
      <3>2. DOMAIN catalogue' = DOMAIN catalogue
        BY <3>1
      <3>3. \A k \in DOMAIN catalogue : catalogue[k].conn # ConnectionOf(v) =>
               catalogue'[k] = catalogue[k]
        BY <3>1
      <3>4. \A k \in DOMAIN catalogue : catalogue[k].conn = ConnectionOf(v) =>
               catalogue'[k].conn = ConnectionOf(v)
        <4> SUFFICES ASSUME NEW k \in DOMAIN catalogue, catalogue[k].conn = ConnectionOf(v)
                     PROVE  catalogue'[k].conn = ConnectionOf(v)
          OBVIOUS
        <4>1. IsEntry(k, catalogue[k])
          BY DEF DagInv
        <4> DEFINE e == catalogue[k]
        <4>2. e = [conn |-> e.conn, status |-> e.status, run |-> e.run]
          BY <4>1 DEF IsEntry
        <4>3. catalogue'[k] = e \/ catalogue'[k] = [e EXCEPT !.status = "ARCHIVED"]
          BY <3>1
        <4> HIDE DEF e
        <4>4. catalogue'[k].conn = e.conn
          BY <4>2, <4>3
        <4>5. QED  BY <4>4 DEF e
      <3>5. Leaves
        BY <1>1, <3>2, <3>3, <3>4
      <3>6. QED  BY <1>4, <3>5, SameAssets
    <2>3. QED  BY <2>1, <2>2
  <1>9. CASE Trigger(v) \/ ExtractSucceeds(v) \/ ExtractFails(v) \/ PublishFails(v)
    BY <1>5, <1>9 DEF Trigger, ExtractSucceeds, ExtractFails, PublishFails
  <1>10. QED
    BY <1>6, <1>7, <1>8, <1>9 DEF Steps

(***************************************************************************)
(* The publish of w itself. An upsert makes active what its file           *)
(* describes; and the diff, which finds every file upserted, leaves that   *)
(* active and nothing else.                                                *)
(***************************************************************************)
LEMMA UpsertShows ==
    ASSUME DagInv, NEW w \in Workflows, Shows(w, catalogue, dag[w], last[w]),
           NEW l, Upsert(w, l)
    PROVE  Shows(w, catalogue', dag'[w], last'[w])
  <1> DEFINE conn == ConnectionOf(w)
  <1>1. /\ dag[w].node = "publish" /\ dag' = [dag EXCEPT ![w].todo = @ \ {l}]
        /\ last' = [last EXCEPT ![w] = None]
    BY DEF Upsert
  <1>2. /\ dag'[w].node = "publish" /\ dag'[w].read = dag[w].read
        /\ dag'[w].todo = dag[w].todo \ {l} /\ last'[w] = None
    <2>1. dag \in [Workflows -> Nodes] /\ dag[w] \in Nodes
          /\ last = [v \in Workflows |-> last[v]]
      BY DEF DagInv
    <2>2. dag'[w] = [dag[w] EXCEPT !.todo = @ \ {l}] /\ last'[w] = None
      BY <1>1, <2>1
    <2>3. QED  BY <1>1, <2>1, <2>2 DEF Nodes
  <1>3. dag[w].read \in Reads[w]
    BY <1>1, PublishArgs
  <1>4a. PICK i \in DOMAIN dag[w].read : \E assets :
           /\ l = Leaf(i - 1)
           /\ catalogue' = Upserted(assets)
           /\ Rows(Records(conn, dag[w].read[i])) \subseteq DOMAIN assets
           /\ \A k \in DOMAIN assets :
                 /\ \/ k \in Rows(Records(conn, dag[w].read[i]))
                    \/ k = ConnectionKey(conn)
                 /\ assets[k].status = "ACTIVE" /\ assets[k].conn = conn
    BY UpsertIs
  <1>4. PICK assets :
           /\ l = Leaf(i - 1)
           /\ catalogue' = Upserted(assets)
           /\ Rows(Records(conn, dag[w].read[i])) \subseteq DOMAIN assets
           /\ \A k \in DOMAIN assets :
                 /\ \/ k \in Rows(Records(conn, dag[w].read[i]))
                    \/ k = ConnectionKey(conn)
                 /\ assets[k].status = "ACTIVE" /\ assets[k].conn = conn
    BY <1>4a
  <1>5. Rows(Records(conn, dag[w].read[i])) \subseteq Keys(w)
    BY <1>3, DescribedKeys
  <1> HIDE DEF conn
  <1>6. /\ DOMAIN catalogue' = DOMAIN assets \cup DOMAIN catalogue
        /\ \A k \in DOMAIN assets : catalogue'[k] = assets[k]
        /\ \A k \in DOMAIN catalogue \ DOMAIN assets : catalogue'[k] = catalogue[k]
    BY <1>4, UpsertedKeeps
  <1>7. \A k \in DOMAIN catalogue' :
           catalogue'[k].conn = conn => k \in Keys(w) \cup {ConnectionKey(conn)}
    <2>1. \A k \in DOMAIN catalogue :
             catalogue[k].conn = conn => k \in Keys(w) \cup {ConnectionKey(conn)}
      BY DEF Shows, conn
    <2>2. QED  BY <1>4, <1>5, <1>6, <2>1
  <1>8. /\ DOMAIN assets \subseteq ActiveOf(catalogue', conn)
        /\ ActiveOf(catalogue, conn) \subseteq ActiveOf(catalogue', conn)
    BY <1>4, <1>6 DEF ActiveOf
  <1>9. ASSUME NEW j \in DOMAIN dag[w].read, Leaf(j - 1) \notin dag[w].todo \ {l}
        PROVE  Rows(Records(conn, dag[w].read[j])) \subseteq ActiveOf(catalogue', conn)
    <2>1. CASE Leaf(j - 1) = l
      <3>1. i \in Nat \ {0} /\ j \in Nat \ {0}
        BY <1>3, <1>4, <1>9, ReadsAreLists
      <3>2. j - 1 = i - 1
        BY <1>4, <2>1, <3>1, LeafInjective
      <3>3. j = i
        BY <3>1, <3>2
      <3>4. QED  BY <1>4, <1>8, <3>3
    <2>2. CASE Leaf(j - 1) # l
      <3>1. Leaf(j - 1) \notin dag[w].todo
        BY <1>9, <2>2
      <3>2. Rows(Records(conn, dag[w].read[j])) \subseteq ActiveOf(catalogue, conn)
        BY <1>1, <1>9, <3>1, Zenon DEF Shows, conn
      <3>3. QED  BY <1>8, <3>2
    <2>3. QED  BY <2>1, <2>2
  <1>10. QED
    BY <1>2, <1>7, <1>9 DEF Shows, conn

LEMMA ArchiveShows ==
    ASSUME DagInv, NEW w \in Workflows, Creates(w), Shows(w, catalogue, dag[w], last[w]),
           Archive(w)
    PROVE  Shows(w, catalogue', dag'[w], last'[w])
  <1> DEFINE conn == ConnectionOf(w)
             files == dag[w].read
  <1>1. /\ dag[w].node = "publish" /\ dag' = [dag EXCEPT ![w] = Idle(@.run)]
        /\ last' = [last EXCEPT ![w] = files]
        /\ dag[w].todo \cap Published(dag[w].args) = {}
    BY DEF Archive
  <1>2. dag'[w].node = "idle" /\ last'[w] = files
    <2>1. dag \in [Workflows -> Nodes] /\ last = [v \in Workflows |-> last[v]]
      BY DEF DagInv
    <2>2. dag'[w] = Idle(dag[w].run) /\ last'[w] = files
      BY <1>1, <2>1
    <2>3. QED  BY <2>2 DEF Idle
  <1>3. files \in Reads[w] /\ Published(dag[w].args) = {Leaf(i - 1) : i \in DOMAIN files}
    BY <1>1, PublishArgs
  <1>4. Described(conn, files) \subseteq ActiveOf(catalogue, conn)
    <2>1. ASSUME NEW i \in DOMAIN files
          PROVE  Rows(Records(conn, files[i])) \subseteq ActiveOf(catalogue, conn)
      <3>1. Leaf(i - 1) \notin dag[w].todo
        BY <1>1, <1>3
      <3>2. QED  BY <1>1, <3>1, Zenon DEF Shows
    <2>2. QED  BY <2>1 DEF Described
  <1>5. PICK delivered :
           /\ delivered = Described(conn, files) \cup {ConnectionKey(conn)}
           /\ catalogue' = [k \in DOMAIN catalogue |->
                 IF catalogue[k].conn = conn /\ k \notin delivered
                 THEN [catalogue[k] EXCEPT !.status = "ARCHIVED"]
                 ELSE catalogue[k]]
    BY DiffIs
  <1>6. ConnectionKey(conn) \notin Described(conn, files)
    BY <1>3, DescribedKeys
  <1>7. \A k \in DOMAIN catalogue : catalogue[k].conn = conn =>
           k \in Keys(w) \cup {ConnectionKey(conn)}
    BY DEF Shows
  <1> HIDE DEF conn, files
  <1>8. DOMAIN catalogue' = DOMAIN catalogue
    BY <1>5
  <1>9. ASSUME NEW k \in DOMAIN catalogue
        PROVE  /\ catalogue'[k].conn = catalogue[k].conn
               /\ catalogue[k].conn = conn /\ k \notin delivered =>
                     catalogue'[k].status = "ARCHIVED"
               /\ k \in delivered => catalogue'[k] = catalogue[k]
    <2>1. IsEntry(k, catalogue[k])
      BY DEF DagInv
    <2> DEFINE e == catalogue[k]
    <2>2. e = [conn |-> e.conn, status |-> e.status, run |-> e.run]
      BY <2>1 DEF IsEntry
    <2>3. catalogue'[k] = IF e.conn = conn /\ k \notin delivered
                          THEN [e EXCEPT !.status = "ARCHIVED"] ELSE e
      BY <1>5
    <2> HIDE DEF e
    <2>4. /\ catalogue'[k].conn = e.conn
          /\ e.conn = conn /\ k \notin delivered => catalogue'[k].status = "ARCHIVED"
          /\ k \in delivered => catalogue'[k] = e
      BY <2>2, <2>3
    <2>5. QED  BY <2>4 DEF e
  <1>10. ActiveOf(catalogue', conn) \subseteq delivered
    BY <1>8, <1>9 DEF ActiveOf
  <1>11. Described(conn, files) \subseteq ActiveOf(catalogue', conn)
    BY <1>4, <1>5, <1>8, <1>9 DEF ActiveOf
  <1>12. ActiveOf(catalogue', conn) \ {ConnectionKey(conn)} = Described(conn, files)
    BY <1>5, <1>6, <1>10, <1>11
  <1>13. \A k \in DOMAIN catalogue' : catalogue'[k].conn = conn =>
            k \in Keys(w) \cup {ConnectionKey(conn)}
    BY <1>7, <1>8, <1>9
  <1>14. QED
    BY <1>2, <1>12, <1>13 DEF Shows, conn, files

\* The other steps of w itself.
LEMMA RunShows ==
    ASSUME DagInv, DagInv', NEW w \in Workflows, Shows(w, catalogue, dag[w], last[w]),
           Trigger(w) \/ ExtractSucceeds(w) \/ ExtractFails(w)
           \/ CreateConnection(w) \/ PublishFails(w)
    PROVE  Shows(w, catalogue', dag'[w], last'[w])
  <1> DEFINE conn == ConnectionOf(w)
  <1>1. dag \in [Workflows -> Nodes] /\ dag[w] \in Nodes
    BY DEF DagInv
  <1>2. CASE Trigger(w) \/ ExtractFails(w) \/ PublishFails(w)
    <2>1. UNCHANGED <<catalogue, last>>
      BY <1>2 DEF Trigger, ExtractFails, PublishFails
    <2>2. dag'[w].node # "publish"
      BY <1>1, <1>2 DEF Trigger, ExtractFails, PublishFails, Idle
    <2>3. QED
      BY <2>1, <2>2, SameAssets
  <1>3. CASE ExtractSucceeds(w)
    <2>1. UNCHANGED <<catalogue, last>>
      BY <1>3 DEF ExtractSucceeds
    <2> DEFINE prefix == Prefix(w, dag[w].run)
    <2>2. PICK files \in Reads[w] :
             LET objects == Uploaded(prefix, Delivery(InputOf[w], files))
             IN  dag' = [dag EXCEPT ![w].node = "publish", ![w].read = files,
                                    ![w].args = Output(InputOf[w], prefix),
                                    ![w].todo = DOMAIN objects]
      BY <1>3 DEF ExtractSucceeds
    <2> DEFINE objects == Uploaded(prefix, Delivery(InputOf[w], files))
    <2>3. dag'[w].read = files /\ dag'[w].todo = DOMAIN objects
      <3> DEFINE args == Output(InputOf[w], prefix)
                 todo == DOMAIN objects
      <3>1. dag' = [dag EXCEPT ![w].node = "publish", ![w].read = files,
                               ![w].args = args, ![w].todo = todo]
        BY <2>2
      <3> HIDE DEF args, todo, objects, prefix
      <3>2. dag'[w].read = files /\ dag'[w].todo = todo
        BY <1>1, <3>1 DEF Nodes
      <3>3. QED  BY <3>2 DEF todo
    <2>4. DOMAIN objects = {Leaf(i - 1) : i \in DOMAIN files}
      <3>1. prefix \notin DOMAIN store
        BY <1>3, PrefixIsFresh DEF ExtractSucceeds
      <3>2. Holds(objects, w, files)
        BY <3>1, UploadHolds
      <3>3. QED  BY <3>2, Zenon DEF Holds
    <2> HIDE DEF objects
    <2>5. \A i \in DOMAIN dag'[w].read : Leaf(i - 1) \in dag'[w].todo
      BY <2>3, <2>4
    <2>6. QED
      BY <2>1, <2>5, Zenon DEF Shows
  <1>4. CASE CreateConnection(w)
    <2> DEFINE assets == [k \in {ConnectionKey(conn)} |-> Stamp(conn, None)]
    <2>1. conn = dag[w].args.connection_qualified_name
      BY <1>4, PublishArgs DEF CreateConnection
    <2>2. /\ catalogue' = Upserted(assets) /\ ConnectionKey(conn) \notin DOMAIN catalogue
          /\ UNCHANGED <<dag, last>>
      BY <1>4, <2>1 DEF CreateConnection
    <2>3. DOMAIN assets = {ConnectionKey(conn)}
      OBVIOUS
    <2> HIDE DEF assets, conn
    <2>4. /\ DOMAIN catalogue' = DOMAIN assets \cup DOMAIN catalogue
          /\ \A k \in DOMAIN catalogue \ DOMAIN assets : catalogue'[k] = catalogue[k]
      BY <2>2, UpsertedKeeps
    <2>5. \A k \in DOMAIN catalogue : catalogue'[k] = catalogue[k]
      BY <2>2, <2>3, <2>4
    <2>6. DOMAIN catalogue' = DOMAIN catalogue \cup {ConnectionKey(conn)}
      BY <2>3, <2>4
    <2>7. /\ ActiveOf(catalogue, conn) \subseteq ActiveOf(catalogue', conn)
          /\ ActiveOf(catalogue', conn)
                \subseteq ActiveOf(catalogue, conn) \cup {ConnectionKey(conn)}
      BY <2>5, <2>6 DEF ActiveOf
    <2>8. ActiveOf(catalogue', conn) \ {ConnectionKey(conn)}
             = ActiveOf(catalogue, conn) \ {ConnectionKey(conn)}
      BY <2>7
    <2>9. \A k \in DOMAIN catalogue' : catalogue'[k].conn = conn =>
             k \in Keys(w) \cup {ConnectionKey(conn)}
      <3>1. \A k \in DOMAIN catalogue : catalogue[k].conn = conn =>
               k \in Keys(w) \cup {ConnectionKey(conn)}
        BY DEF Shows, conn
      <3>2. QED  BY <2>5, <2>6, <3>1
    <2>10. \A i \in DOMAIN dag'[w].read :
              dag'[w].node = "publish" /\ Leaf(i - 1) \notin dag'[w].todo =>
                 Rows(Records(conn, dag'[w].read[i])) \subseteq ActiveOf(catalogue', conn)
      <3>1. \A i \in DOMAIN dag[w].read :
               dag[w].node = "publish" /\ Leaf(i - 1) \notin dag[w].todo =>
                  Rows(Records(conn, dag[w].read[i])) \subseteq ActiveOf(catalogue, conn)
        BY Zenon DEF Shows, conn
      <3>2. QED  BY <2>2, <2>7, <3>1
    <2>11. last'[w] # None =>
              ActiveOf(catalogue', conn) \ {ConnectionKey(conn)} = Described(conn, last'[w])
      BY <2>2, <2>8, Zenon DEF Shows, conn
    <2>12. QED
      BY <2>9, <2>10, <2>11, Zenon DEF Shows, conn
  <1>5. QED
    BY <1>2, <1>3, <1>4

LEMMA InitShown == ASSUME Init PROVE Shown
  <1> SUFFICES ASSUME NEW w \in Workflows, Creates(w)
               PROVE  Shows(w, catalogue, dag[w], last[w])
    BY DEF Shown
  <1>1. dag[w].node # "publish" /\ last[w] = None
    BY DEF Init, Idle
  <1>2. ASSUME NEW k \in DOMAIN catalogue
        PROVE  catalogue[k].conn # ConnectionOf(w)
    <2> DEFINE f == CHOOSE f \in Foreign : f.key = k
    <2>1. k \in {g.key : g \in Foreign} /\ catalogue[k] = Stamp(f.conn, "foreign")
      BY <1>2 DEF Init
    <2>2. f \in Foreign
      BY <2>1
    <2> HIDE DEF f
    <2>3. f.conn \in Shared /\ catalogue[k].conn = f.conn
      BY <2>1, <2>2 DEF Shared, Stamp
    <2>4. QED  BY <2>3, DagInputs
  <1>3. QED
    BY <1>1, <1>2 DEF Shows

LEMMA NextShown == DagInv /\ DagInv' /\ Shown /\ [Next]_vars => Shown'
  <1> SUFFICES ASSUME DagInv, DagInv', Shown, [Next]_vars,
                      NEW w \in Workflows, Creates(w)
               PROVE  Shows(w, catalogue', dag'[w], last'[w])
    BY Zenon DEF Shown, Creates, Shows, Keys, ConnectionOf, ResolvedQN, ConnectionKey,
       Described, Rows, Records, SpecLines, PathLines, PathLinesOf, ActiveOf, Leaf
  <1>1. Shows(w, catalogue, dag[w], last[w])
    BY DEF Shown
  <1>2. CASE UNCHANGED vars
    BY <1>1, <1>2 DEF vars
  <1>3. CASE Next
    <2>1. PICK v \in Workflows : Steps(v)
      BY <1>3 DEF Next, Steps
    <2>2. CASE v # w
      BY <1>1, <2>1, <2>2, OthersShow
    <2>3. CASE v = w
      BY <1>1, <2>1, <2>3, UpsertShows, ArchiveShows, RunShows DEF Steps
    <2>4. QED  BY <2>2, <2>3
  <1>4. QED
    BY <1>2, <1>3

(***************************************************************************)
(* What a connection of its own shows is the spec that was published last, *)
(* whatever earlier runs delivered, failed to publish, or left half        *)
(* published (README.md, CREATE).                                          *)
(***************************************************************************)
THEOREM LastRunIsShown == Spec => []LastRunIsCatalogued
  <1>1. Shown => LastRunIsCatalogued
    BY Zenon DEF Shown, Shows, LastRunIsCatalogued, Active, ActiveOf
  <1>2. Spec => []Shown
    BY InitShown, NextShown, DagInvariant, PTL DEF Spec
  <1>3. QED
    BY <1>1, <1>2, PTL
=============================================================================
