---------------------------- MODULE GraphStoreProofs ----------------------------
(***************************************************************************)
(* Safety of the graph rows for any files, contents and number of writers. *)
(* IInv adds what the proofs of the first properties lean on: where a      *)
(* parked row's module came from, that an edge without its node is         *)
(* accounted for in `cut`, that a reference to a symbol has one row, and   *)
(* that a reference that was attached is only ever parked by name.         *)
(***************************************************************************)
EXTENDS GraphStore, FiniteSetTheorems, TLAPS

\* A parked row names the module of its reference, or was an edge before: then
\* it names none, or is the file node's own name.
ParkedAsReferred ==
    \A p \in pending :
        /\ p.from \in Indexed
        /\ \E r \in CrossFile(p.from, indexed[p.from]) :
               Says(p, r) /\ p.module \in {NoHint, r.module, p.name}

AttachedAsReferred ==
    \A e \in edges :
        /\ e.from \in Indexed
        /\ \E r \in CrossFile(e.from, indexed[e.from]) : Says(e, r)

DeadIsCut == \A e \in edges : ~Live(e) => Key(e) \in cut

SymbolHasOneRow ==
    /\ \A e, x \in edges : e.name \in Symbols /\ Key(e) = Key(x) => e = x
    /\ \A p, x \in pending : p.name \in Symbols /\ Key(p) = Key(x) => p = x
    /\ \A e \in edges, p \in pending : e.name \in Symbols => Key(e) # Key(p)

OnceLinkedIsPlain ==
    \A p \in pending : p.name \in Symbols /\ Key(p) \in linked => p.module = NoHint

IInv ==
    /\ TypeOK
    /\ ParkedAsReferred
    /\ AttachedAsReferred
    /\ DeadIsCut
    /\ SymbolHasOneRow
    /\ OnceLinkedIsPlain
    /\ NoDanglingAtRest
    /\ LinksAreKept

-----------------------------------------------------------------------------
(* Rows and the files they point at.                                       *)

\* The key of a row is made of its first three columns.
LEMMA KeyParts ==
    ASSUME NEW a \in Edges \cup Pending, NEW b \in Edges \cup Pending
    PROVE  /\ Key(a) \in Keys
           /\ Key(a) = Key(b) <=> a.from = b.from /\ a.rel = b.rel /\ a.name = b.name
           /\ Key(a).from = a.from /\ Key(a).name = a.name /\ Key(a).rel = a.rel
    BY DEF Key, Keys, Edges, Pending

\* The parked rows of a file's references are rows of that file.
LEMMA CrossFileRows ==
    ASSUME NEW f \in Files, NEW content \in Contents
    PROVE  /\ CrossFile(f, content) \subseteq Pending
           /\ \A p \in CrossFile(f, content) : p.from = f
    BY DEF CrossFile, Contents, Refs, Pending

\* What extraction can make of a file is a content.
LEMMA VersionsAreContents ==
    ASSUME NEW f \in Files, NEW content \in Versions[f]
    PROVE  content \in Contents /\ content # Absent
    BY VersionsAssumption, NamesAssumption

\* A requeued row has the key of the edge it stands for.
LEMMA RequeuedRows ==
    ASSUME TypeOK, NEW f \in Files
    PROVE  /\ Requeued(f) \subseteq Pending
           /\ Inbound(f) \subseteq edges
           /\ \A p \in Requeued(f) : \E e \in Inbound(f) :
                  /\ Key(p) = Key(e)
                  /\ p.module = IF e.name = f THEN f ELSE NoHint
           /\ \A e \in Inbound(f) : \E p \in Requeued(f) : Key(p) = Key(e)
    <1>1. Inbound(f) \subseteq edges /\ edges \subseteq Edges
        BY DEF Inbound, TypeOK
    <1>2. \A p \in Requeued(f) : \E e \in Inbound(f) :
              /\ p.from = e.from /\ p.rel = e.rel /\ p.name = e.name
              /\ p.module = IF e.name = f THEN f ELSE NoHint
        BY DEF Requeued
    <1>3. ASSUME NEW e \in Inbound(f)
          PROVE  \E p \in Requeued(f) : p.from = e.from /\ p.rel = e.rel /\ p.name = e.name
        <2> DEFINE row == [from |-> e.from, rel |-> e.rel, name |-> e.name,
                           module |-> IF e.name = f THEN f ELSE NoHint]
        <2>1. row \in Requeued(f)
            BY DEF Requeued
        <2> QED BY <2>1
    <1>4. Requeued(f) \subseteq Pending
        BY <1>1 DEF Requeued, Edges, Pending
    <1> QED BY <1>1, <1>2, <1>3, <1>4 DEF Key

\* A row is attached to a file that has a node of its name, or, being an import,
\* to the module it names.
LEMMA TargetIsThere ==
    ASSUME NEW p \in Pending, ~External(p), NEW f \in Target(p)
    PROVE  /\ f \in Indexed
           /\ p.name \in NodesOf(f) \/ (p.module # NoHint /\ p.rel = "imports" /\ f = p.module)
    <1>1. \A g \in Candidates(p.name) : g \in Indexed /\ p.name \in NodesOf(g)
        BY DEF Candidates, NodesOf, Indexed
    <1>2. CASE p.module = NoHint
        BY <1>1, <1>2 DEF Target, PlainTarget, Either, Sole, Unique
    <1>3. CASE p.module # NoHint
        <2>1. p.module \in Indexed
            BY <1>3 DEF External
        <2>2. \A g \in Reexported(p.module, p.name) : p.name \in NodesOf(g)
            BY DEF Reexported, Live
        <2>3. \A g : p.name \in NodesOf(g) => g \in Indexed
            BY DEF NodesOf
        <2> QED BY <1>1, <1>3, <2>1, <2>2, <2>3 DEF Target, HintedTarget, Either, Sole, Unique
    <1> QED BY <1>2, <1>3

\* The audit contract: never one of several.
LEMMA TargetIsUnique ==
    ASSUME TypeOK, SymbolHasOneRow, NEW p \in Pending,
           NEW f \in Target(p), NEW g \in Target(p)
    PROVE  f = g
    <1>1. \A x, y \in Reexported(p.module, p.name) : x = y
        <2> SUFFICES ASSUME NEW x \in Reexported(p.module, p.name),
                            NEW y \in Reexported(p.module, p.name)
                     PROVE  x = y
            OBVIOUS
        <2>1. PICK e \in edges : /\ e.to = x /\ e.from = p.module /\ e.rel = "imports"
                                 /\ e.name = p.name /\ p.name \in Symbols
            BY DEF Reexported, From
        <2>2. PICK d \in edges : /\ d.to = y /\ d.from = p.module /\ d.rel = "imports"
                                 /\ d.name = p.name
            BY DEF Reexported, From
        <2>3. Key(e) = Key(d)
            BY <2>1, <2>2 DEF Key
        <2> QED BY <2>1, <2>2, <2>3 DEF SymbolHasOneRow
    <1>2. \A set : \A x, y \in Sole(set) : x = y
        BY DEF Sole
    <1> QED BY <1>1, <1>2 DEF Target, HintedTarget, PlainTarget, Either, Unique

\* An attached row keeps its key unless it is an import that names a module.
LEMMA AttachedRows ==
    ASSUME NEW p \in Pending, ~External(p)
    PROVE  /\ Attached(p) \subseteq Edges
           /\ \A e \in Attached(p) :
                  /\ e.from = p.from /\ e.rel = p.rel /\ e.to \in Target(p) /\ Live(e)
                  /\ \/ e.name = p.name
                     \/ p.rel = "imports" /\ e.name = p.module /\ p.module \in Files
           /\ p.module = NoHint => \A e \in Attached(p) : e.name = p.name
           /\ Target(p) # {} => Attached(p) # {}
    <1>1. \A e \in Attached(p) : \E f \in Target(p) :
              e = [from |-> p.from, rel |-> p.rel, to |-> f,
                   name |-> IF p.name \in NodesOf(f) THEN p.name ELSE f]
        BY DEF Attached
    <1>2. \A f \in Target(p) :
              /\ f \in Indexed
              /\ p.name \in NodesOf(f) \/ (p.module # NoHint /\ p.rel = "imports" /\ f = p.module)
        BY TargetIsThere
    <1>3. \A f \in Indexed : f \in NodesOf(f) /\ f \in Files
        BY DEF NodesOf, Indexed
    <1>4. Attached(p) \subseteq Edges
        BY <1>1, <1>2, <1>3 DEF Edges, Pending, Names
    <1>5. Target(p) # {} => Attached(p) # {}
        BY DEF Attached
    <1>6. \A e \in Attached(p) :
              /\ e.from = p.from /\ e.rel = p.rel /\ e.to \in Target(p) /\ Live(e)
              /\ \/ e.name = p.name
                 \/ p.module # NoHint /\ p.rel = "imports" /\ e.name = p.module /\ p.module \in Files
        BY <1>1, <1>2, <1>3 DEF Live
    <1> QED BY <1>4, <1>5, <1>6

-----------------------------------------------------------------------------
(* Each action preserves the invariant.                                    *)

\* An empty database satisfies the invariant.
LEMMA InitIInv == Init => IInv
    <1> SUFFICES ASSUME Init PROVE IInv
        OBVIOUS
    <1>1. TypeOK
        BY DEF Init, TypeOK
    <1>2. edges = {} /\ pending = {} /\ linked \ cut = {}
        BY DEF Init
    <1>3. ParkedAsReferred /\ AttachedAsReferred /\ DeadIsCut /\ SymbolHasOneRow
        BY <1>2 DEF ParkedAsReferred, AttachedAsReferred, DeadIsCut, SymbolHasOneRow
    <1>4. OnceLinkedIsPlain /\ NoDanglingAtRest /\ LinksAreKept
        BY <1>2 DEF OnceLinkedIsPlain, NoDanglingAtRest, LinksAreKept
    <1> QED BY <1>1, <1>3, <1>4 DEF IInv

\* Publishing a file preserves the invariant.
LEMMA PublishStep ==
    ASSUME IInv, NEW w \in Writers, NEW f \in Files, NEW content \in Versions[f],
           Publish(w, f, content)
    PROVE  IInv'
    <1> DEFINE new == CrossFile(f, content)
    <1>1. content \in Contents /\ content # Absent
        BY VersionsAreContents
    <1>2. new \subseteq Pending /\ \A p \in new : p.from = f
        BY <1>1, CrossFileRows
    <1>3. /\ edges' = {e \in edges : e.from # f}
          /\ pending' = {p \in pending : p.from # f} \cup new
          /\ linked' = {k \in linked : k.from # f}
          /\ indexed' = [indexed EXCEPT ![f] = content]
          /\ edges \subseteq Edges /\ pending \subseteq Pending
        BY DEF Publish, From, IInv, TypeOK
    <1>4. TypeOK'
        <2>1. KeysOf(edges) \subseteq Keys
            BY <1>3, KeyParts DEF KeysOf
        <2>2. cut' \subseteq Keys
            BY <2>1 DEF Publish, IInv, TypeOK, KeysOf, From
        <2>3. indexed' \in [Files -> Contents \cup {Absent}]
            BY <1>1 DEF Publish, IInv, TypeOK
        <2> QED BY <1>2, <1>3, <2>2, <2>3 DEF Publish, IInv, TypeOK
    <1>5. \A g \in Files \ {f} : indexed'[g] = indexed[g] /\ NodesOf(g)' = NodesOf(g)
        BY <1>3 DEF NodesOf, Indexed, IInv, TypeOK
    <1>6. indexed'[f] = content /\ f \in Indexed' /\ NodesOf(f)' = content.defs \cup {f}
        BY <1>1, <1>3 DEF NodesOf, Indexed, IInv, TypeOK
    <1>7. \A g \in Indexed : g \in Indexed'
        BY <1>1, <1>3 DEF Indexed, IInv, TypeOK
    <1>8. ParkedAsReferred'
        <2> SUFFICES ASSUME NEW p \in pending'
                     PROVE  /\ p.from \in Indexed'
                            /\ \E r \in CrossFile(p.from, indexed'[p.from]) :
                                   Says(p, r) /\ p.module \in {NoHint, r.module, p.name}
            BY DEF ParkedAsReferred, CrossFile
        <2>1. CASE p \in new
            BY <1>2, <1>6, <2>1 DEF Says
        <2>2. CASE p \in pending /\ p.from # f
            BY <1>3, <1>5, <1>7, <2>2 DEF IInv, ParkedAsReferred, Pending
        <2> QED BY <1>3, <2>1, <2>2
    <1>9. AttachedAsReferred'
        <2> SUFFICES ASSUME NEW e \in edges'
                     PROVE  /\ e.from \in Indexed'
                            /\ \E r \in CrossFile(e.from, indexed'[e.from]) : Says(e, r)
            BY DEF AttachedAsReferred, CrossFile
        <2> QED BY <1>3, <1>5, <1>7 DEF IInv, AttachedAsReferred, Edges
    <1>10. DeadIsCut'
        <2> SUFFICES ASSUME NEW e \in edges', e.name \notin NodesOf(e.to)'
                     PROVE  Key(e) \in cut'
            BY DEF DeadIsCut, Live, Key
        <2>1. e \in edges /\ e.from # f /\ Key(e).from # f
            BY <1>3, KeyParts
        <2>2. ASSUME Key(e) \in cut \cup KeysOf({x \in edges : x.to = f /\ x.name \notin content.defs \cup {f}})
              PROVE  Key(e) \in cut'
            BY <2>1, <2>2 DEF Publish, From
        <2>3. CASE e.to = f
            <3>1. e \in {x \in edges : x.to = f /\ x.name \notin content.defs \cup {f}}
                BY <1>6, <2>1, <2>3
            <3> QED BY <2>2, <3>1 DEF KeysOf
        <2>4. CASE e.to # f
            BY <1>3, <1>5, <2>1, <2>2, <2>4 DEF IInv, DeadIsCut, Live, Edges
        <2> QED BY <2>3, <2>4
    <1>11. SymbolHasOneRow'
        <2>1. \A p, x \in new : Key(p) = Key(x) => p = x
            <3> SUFFICES ASSUME NEW p \in new, NEW x \in new, Key(p) = Key(x)
                         PROVE  p = x
                OBVIOUS
            <3>1. p.rel = x.rel /\ p.name = x.name
                BY <1>2, KeyParts
            <3>2. PICK r \in content.refs :
                      p = [from |-> f, rel |-> r.rel, name |-> r.name, module |-> r.module]
                BY DEF CrossFile
            <3>3. PICK y \in content.refs :
                      x = [from |-> f, rel |-> y.rel, name |-> y.name, module |-> y.module]
                BY DEF CrossFile
            <3>4. r = y
                BY <3>1, <3>2, <3>3, VersionsAssumption
            <3> QED BY <3>2, <3>3, <3>4
        <2>2. \A p \in new, x \in edges' \cup (pending \ From(f, pending)) : Key(p) # Key(x)
            BY <1>2, <1>3, KeyParts DEF From
        <2> QED BY <1>2, <1>3, <2>1, <2>2 DEF IInv, SymbolHasOneRow, Key, From
    <1>12. OnceLinkedIsPlain'
        <2> SUFFICES ASSUME NEW p \in pending', p.name \in Symbols, Key(p) \in linked'
                     PROVE  p.module = NoHint
            BY DEF OnceLinkedIsPlain, Key
        <2>1. p.from # f
            BY <1>2, <1>3, KeyParts
        <2> QED BY <1>2, <1>3, <2>1 DEF IInv, OnceLinkedIsPlain
    <1>13. NoDanglingAtRest'
        BY DEF Publish, IInv, TypeOK, NoDanglingAtRest
    <1>14. LinksAreKept'
        <2> SUFFICES ASSUME NEW link \in linked', link \notin cut', link.name \in Symbols
                     PROVE  \E row \in (edges \cup pending)' : link = Key(row)
            BY DEF LinksAreKept, KeysOf, Key
        <2>1. link \in linked /\ link \notin cut /\ link.from # f
            BY <1>3 DEF Publish, From
        <2>2. PICK row \in edges \cup pending : link = Key(row)
            BY <2>1 DEF IInv, LinksAreKept, KeysOf
        <2>3. row.from # f
            BY <1>3, <2>1, <2>2, KeyParts
        <2> QED BY <1>3, <2>2, <2>3
    <1> QED BY <1>4, <1>8, <1>9, <1>10, <1>11, <1>12, <1>13, <1>14 DEF IInv

\* Deleting a file preserves the invariant.
LEMMA RemoveStep ==
    ASSUME IInv, NEW w \in Writers, NEW f \in Files, Remove(w, f)
    PROVE  IInv'
    <1>1. /\ edges' = {e \in edges : e.from # f /\ e \notin Inbound(f)}
          /\ pending' = {p \in pending : p.from # f /\ Key(p) \notin KeysOf(Requeued(f))}
                            \cup Requeued(f)
          /\ linked' = {k \in linked : k.from # f}
          /\ cut' = {k \in cut : k.from # f}
          /\ indexed' = [indexed EXCEPT ![f] = Absent]
          /\ edges \subseteq Edges /\ pending \subseteq Pending
        BY DEF Remove, Dropped, From, IInv, TypeOK
    <1>2. /\ Requeued(f) \subseteq Pending
          /\ Inbound(f) \subseteq edges
          /\ \A p \in Requeued(f) : \E e \in Inbound(f) :
                 /\ Key(p) = Key(e)
                 /\ p.module = IF e.name = f THEN f ELSE NoHint
          /\ \A e \in Inbound(f) : \E p \in Requeued(f) : Key(p) = Key(e)
        BY RequeuedRows DEF IInv
    <1>3. \A e \in Inbound(f) : e.to = f /\ e.from # f
        BY DEF Inbound
    <1>4. \A p \in Requeued(f) : p.from # f
        BY <1>1, <1>2, <1>3, KeyParts
    <1>5. \A g \in Files \ {f} : /\ indexed'[g] = indexed[g] /\ NodesOf(g)' = NodesOf(g)
                                 /\ g \in Indexed => g \in Indexed'
        BY <1>1 DEF NodesOf, Indexed, IInv, TypeOK
    <1>6. TypeOK'
        BY <1>1, <1>2 DEF Remove, IInv, TypeOK
    <1>7. ParkedAsReferred'
        <2> SUFFICES ASSUME NEW p \in pending'
                     PROVE  /\ p.from \in Indexed'
                            /\ \E r \in CrossFile(p.from, indexed'[p.from]) :
                                   Says(p, r) /\ p.module \in {NoHint, r.module, p.name}
            BY DEF ParkedAsReferred, CrossFile
        <2>1. CASE p \in Requeued(f)
            <3>1. PICK e \in Inbound(f) : /\ Key(p) = Key(e)
                                          /\ p.module = IF e.name = f THEN f ELSE NoHint
                BY <1>2, <2>1
            <3>2. /\ e \in edges /\ e \in Edges /\ p \in Pending
                  /\ p.from = e.from /\ p.rel = e.rel /\ p.name = e.name
                BY <1>1, <1>2, <2>1, <3>1, KeyParts
            <3>3. p.module \in {NoHint, p.name}
                BY <3>1, <3>2
            <3>4. PICK r \in CrossFile(e.from, indexed[e.from]) : e.from \in Indexed /\ Says(e, r)
                BY <3>2 DEF IInv, AttachedAsReferred
            <3>5. Says(p, r)
                BY <3>2, <3>4 DEF Says
            <3> QED BY <1>3, <1>5, <3>2, <3>3, <3>4, <3>5 DEF Indexed
        <2>2. CASE p \in pending /\ p.from # f
            BY <1>1, <1>5, <2>2 DEF IInv, ParkedAsReferred, Pending
        <2> QED BY <1>1, <2>1, <2>2
    <1>8. AttachedAsReferred'
        <2> SUFFICES ASSUME NEW e \in edges'
                     PROVE  /\ e.from \in Indexed'
                            /\ \E r \in CrossFile(e.from, indexed'[e.from]) : Says(e, r)
            BY DEF AttachedAsReferred, CrossFile
        <2> QED BY <1>1, <1>5 DEF IInv, AttachedAsReferred, Edges
    <1>9. \A e \in edges' : e.name \in NodesOf(e.to) => e.name \in NodesOf(e.to)'
        BY <1>1, <1>5 DEF Inbound, Live, Edges
    <1>10. DeadIsCut'
        <2> SUFFICES ASSUME NEW e \in edges', e.name \notin NodesOf(e.to)'
                     PROVE  Key(e) \in cut'
            BY DEF DeadIsCut, Live, Key
        <2>1. e \in edges /\ ~Live(e) /\ Key(e).from # f
            BY <1>1, <1>9, KeyParts DEF Live
        <2> QED BY <1>1, <2>1 DEF IInv, DeadIsCut
    <1>11. SymbolHasOneRow'
        <2>1. \A e, x \in edges' : e.name \in Symbols /\ Key(e) = Key(x) => e = x
            BY <1>1 DEF IInv, SymbolHasOneRow
        <2>2. \A p \in Requeued(f) : p.name \in Symbols => p.module = NoHint
            BY <1>1, <1>2, KeyParts, NamesAssumption
        <2>3. \A p, x \in Requeued(f) : p.name \in Symbols /\ Key(p) = Key(x) => p = x
            BY <1>2, <2>2, KeyParts DEF Pending
        <2>4. \A p \in pending, x \in Requeued(f) : p \in pending' /\ Key(p) = Key(x) => p \in Requeued(f)
            BY <1>1 DEF KeysOf
        <2>5. \A p, x \in pending' : p.name \in Symbols /\ Key(p) = Key(x) => p = x
            BY <1>1, <2>3, <2>4 DEF IInv, SymbolHasOneRow
        <2>6. \A e \in edges', p \in Requeued(f) : e.name \in Symbols => Key(e) # Key(p)
            <3> SUFFICES ASSUME NEW e \in edges', NEW p \in Requeued(f), e.name \in Symbols,
                                Key(e) = Key(p)
                         PROVE  FALSE
                OBVIOUS
            <3>1. PICK x \in Inbound(f) : Key(p) = Key(x)
                BY <1>2
            <3>2. e = x
                BY <1>1, <1>2, <3>1 DEF IInv, SymbolHasOneRow
            <3> QED BY <1>1, <3>1, <3>2
        <2>7. \A e \in edges', p \in pending' : e.name \in Symbols => Key(e) # Key(p)
            BY <1>1, <2>6 DEF IInv, SymbolHasOneRow
        <2> QED BY <2>1, <2>5, <2>7 DEF SymbolHasOneRow, Key
    <1>12. OnceLinkedIsPlain'
        <2> SUFFICES ASSUME NEW p \in pending', p.name \in Symbols, Key(p) \in linked'
                     PROVE  p.module = NoHint
            BY DEF OnceLinkedIsPlain, Key
        <2>1. CASE p \in Requeued(f)
            BY <1>1, <1>2, <2>1, KeyParts, NamesAssumption
        <2>2. CASE p \in pending
            BY <1>1, <2>2 DEF IInv, OnceLinkedIsPlain
        <2> QED BY <1>1, <2>1, <2>2
    <1>13. NoDanglingAtRest'
        BY <1>1, <1>9 DEF Remove, IInv, NoDanglingAtRest, Live
    <1>14. LinksAreKept'
        <2> SUFFICES ASSUME NEW link \in linked', link \notin cut', link.name \in Symbols
                     PROVE  \E row \in (edges \cup pending)' : link = Key(row)
            BY DEF LinksAreKept, KeysOf, Key
        <2>1. link \in linked /\ link \notin cut /\ link.from # f
            BY <1>1
        <2>2. PICK row \in edges \cup pending : link = Key(row)
            BY <2>1 DEF IInv, LinksAreKept, KeysOf
        <2>3. row.from # f
            BY <1>1, <2>1, <2>2, KeyParts
        <2>4. CASE row \in Inbound(f)
            BY <1>1, <1>2, <2>2, <2>4
        <2>5. CASE row \in edges \ Inbound(f)
            BY <1>1, <2>2, <2>3, <2>5
        <2>6. CASE row \in pending /\ Key(row) \notin KeysOf(Requeued(f))
            BY <1>1, <2>2, <2>3, <2>6
        <2>7. CASE Key(row) \in KeysOf(Requeued(f))
            BY <1>1, <2>2, <2>7 DEF KeysOf
        <2> QED BY <2>2, <2>4, <2>5, <2>6, <2>7
    <1> QED BY <1>6, <1>7, <1>8, <1>10, <1>11, <1>12, <1>13, <1>14 DEF IInv

\* The resolution pass preserves the invariant.
LEMMA ResolveStep ==
    ASSUME IInv, NEW w \in Writers, Resolve(w)
    PROVE  IInv'
    <1> DEFINE external == {p \in pending : External(p)}
               attached == {p \in pending \ external : Target(p) # {}}
               new == UNION {Attached(p) : p \in attached}
    <1>1. /\ pending' = pending \ (external \cup attached)
          /\ edges' = edges \cup new
          /\ linked' = linked \cup KeysOf(new)
          /\ indexed' = indexed /\ cut' = cut
          /\ edges \subseteq Edges /\ pending \subseteq Pending
        BY DEF Resolve, IInv, TypeOK
    <1>2. \A e \in new : \E p \in attached : e \in Attached(p)
        OBVIOUS
    <1>3. \A p \in attached :
              /\ p \in Pending /\ p \in pending /\ ~External(p)
              /\ Attached(p) \subseteq Edges /\ Attached(p) \subseteq new
              /\ Attached(p) # {}
              /\ p.module = NoHint => \A e \in Attached(p) : e.name = p.name
        BY <1>1, AttachedRows
    <1>4. \A p \in attached : \A e \in Attached(p) :
              /\ e.from = p.from /\ e.rel = p.rel /\ e.to \in Target(p) /\ Live(e)
              /\ \/ e.name = p.name
                 \/ p.rel = "imports" /\ e.name = p.module /\ p.module \in Files
        BY <1>3, AttachedRows
    <1>5. \A p \in attached : \A e \in Attached(p) :
              e.name \in Symbols => e.name = p.name /\ Key(e) = Key(p)
        BY <1>4, NamesAssumption DEF Key
    <1> HIDE DEF new, attached, external
    <1>6. TypeOK'
        <2>1. new \subseteq Edges
            BY <1>2, <1>3
        <2>2. KeysOf(new) \subseteq Keys
            BY <2>1, KeyParts DEF KeysOf
        <2> QED BY <1>1, <2>1, <2>2 DEF Resolve, IInv, TypeOK
    <1>7. \A f \in Files : NodesOf(f)' = NodesOf(f) /\ Indexed' = Indexed
        BY <1>1 DEF NodesOf, Indexed
    <1>8. ParkedAsReferred'
        BY <1>1 DEF IInv, ParkedAsReferred, Indexed
    <1>9. AttachedAsReferred'
        <2> SUFFICES ASSUME NEW e \in edges'
                     PROVE  /\ e.from \in Indexed
                            /\ \E r \in CrossFile(e.from, indexed[e.from]) : Says(e, r)
            BY <1>1 DEF AttachedAsReferred, CrossFile, Indexed
        <2>1. CASE e \in edges
            BY <2>1 DEF IInv, AttachedAsReferred
        <2>2. CASE e \in new
            <3>1. PICK p \in attached : e \in Attached(p)
                BY <1>2, <2>2
            <3>2. /\ p.from \in Indexed
                  /\ \E r \in CrossFile(p.from, indexed[p.from]) :
                         Says(p, r) /\ p.module \in {NoHint, r.module, p.name}
                BY <1>3 DEF IInv, ParkedAsReferred
            <3>3. PICK r \in CrossFile(p.from, indexed[p.from]) :
                      Says(p, r) /\ p.module \in {NoHint, r.module, p.name}
                BY <3>2
            <3>4. /\ e.from = p.from /\ e.rel = p.rel
                  /\ e.name = p.name \/ (p.rel = "imports" /\ e.name = p.module /\ p.module \in Files)
                BY <1>4, <3>1
            <3>5. Says(e, r)
                BY <3>3, <3>4, NamesAssumption DEF Says, Names
            <3> QED BY <3>2, <3>4, <3>5
        <2> QED BY <1>1, <2>1, <2>2
    <1>10. DeadIsCut'
        <2> SUFFICES ASSUME NEW e \in edges', e.name \notin NodesOf(e.to)
                     PROVE  Key(e) \in cut
            BY <1>1 DEF DeadIsCut, Live, Key, NodesOf, Indexed
        <2>1. e \notin new
            BY <1>2, <1>4 DEF Live
        <2> QED BY <1>1, <2>1 DEF IInv, DeadIsCut, Live
    <1>11. SymbolHasOneRow'
        <2>1. \A p, x \in pending' : p.name \in Symbols /\ Key(p) = Key(x) => p = x
            BY <1>1 DEF IInv, SymbolHasOneRow
        <2>2. \A e \in edges, x \in new : e.name \in Symbols => Key(e) # Key(x)
            <3> SUFFICES ASSUME NEW e \in edges, NEW x \in new, e.name \in Symbols, Key(e) = Key(x)
                         PROVE  FALSE
                OBVIOUS
            <3>1. PICK p \in attached : x \in Attached(p)
                BY <1>2
            <3>2. x.name = e.name
                BY <1>1, <1>3, <3>1, KeyParts
            <3>3. Key(e) = Key(p) /\ p \in pending
                BY <1>3, <1>5, <3>1, <3>2
            <3> QED BY <3>3 DEF IInv, SymbolHasOneRow
        <2>3. \A e, x \in new : e.name \in Symbols /\ Key(e) = Key(x) => e = x
            <3> SUFFICES ASSUME NEW e \in new, NEW x \in new, e.name \in Symbols, Key(e) = Key(x)
                         PROVE  e = x
                OBVIOUS
            <3>1. PICK p \in attached : e \in Attached(p)
                BY <1>2
            <3>2. PICK q \in attached : x \in Attached(q)
                BY <1>2
            <3>3. x.name = e.name
                BY <1>3, <3>1, <3>2, KeyParts
            <3>4. Key(p) = Key(q) /\ p.name \in Symbols
                BY <1>5, <3>1, <3>2, <3>3
            <3>5. p = q
                BY <1>3, <3>4 DEF IInv, SymbolHasOneRow
            <3>6. e.to = x.to
                BY <1>3, <1>4, <3>1, <3>2, <3>5, TargetIsUnique DEF IInv
            <3>7. e \in Edges /\ x \in Edges /\ e.from = x.from /\ e.rel = x.rel
                BY <1>3, <1>4, <3>1, <3>2, <3>5
            <3> QED BY <3>3, <3>6, <3>7 DEF Edges
        <2>4. \A e \in new, p \in pending' : e.name \in Symbols => Key(e) # Key(p)
            <3> SUFFICES ASSUME NEW e \in new, NEW p \in pending', e.name \in Symbols, Key(e) = Key(p)
                         PROVE  FALSE
                OBVIOUS
            <3>1. PICK q \in attached : e \in Attached(q)
                BY <1>2
            <3>2. Key(q) = Key(p) /\ q.name \in Symbols /\ q \in pending /\ p \in pending
                BY <1>1, <1>3, <1>5, <3>1
            <3>3. p = q
                BY <3>2 DEF IInv, SymbolHasOneRow
            <3> QED BY <1>1, <3>3
        <2>5. \A e \in edges, p \in pending : e.name \in Symbols => Key(e) # Key(p)
            BY DEF IInv, SymbolHasOneRow
        <2>6. \A e, x \in edges' : e.name \in Symbols /\ Key(e) = Key(x) => e = x
            <3> SUFFICES ASSUME NEW e \in edges', NEW x \in edges', e.name \in Symbols, Key(e) = Key(x)
                         PROVE  e = x
                OBVIOUS
            <3>1. new \subseteq Edges
                BY <1>2, <1>3
            <3>2. x.name = e.name
                BY <1>1, <3>1, KeyParts
            <3> QED BY <1>1, <2>2, <2>3, <3>2 DEF IInv, SymbolHasOneRow
        <2> QED BY <1>1, <2>1, <2>4, <2>5, <2>6 DEF SymbolHasOneRow, Key
    <1>12. OnceLinkedIsPlain'
        <2> SUFFICES ASSUME NEW p \in pending', p.name \in Symbols, Key(p) \in linked'
                     PROVE  p.module = NoHint
            BY DEF OnceLinkedIsPlain, Key
        <2>1. CASE Key(p) \in linked
            BY <1>1, <2>1 DEF IInv, OnceLinkedIsPlain
        <2>2. CASE Key(p) \in KeysOf(new)
            <3>1. PICK e \in new : Key(p) = Key(e)
                BY <2>2 DEF KeysOf
            <3>2. PICK q \in attached : e \in Attached(q)
                BY <1>2
            <3>3. e.name = p.name
                BY <1>1, <1>3, <3>1, <3>2, KeyParts
            <3>4. Key(q) = Key(p) /\ q \in pending /\ p \in pending
                BY <1>1, <1>3, <1>5, <3>1, <3>2, <3>3
            <3>5. q = p
                BY <3>4 DEF IInv, SymbolHasOneRow
            <3> QED BY <1>1, <3>5
        <2> QED BY <1>1, <2>1, <2>2
    <1>13. NoDanglingAtRest'
        BY DEF Resolve, IInv, TypeOK, NoDanglingAtRest
    <1>14. LinksAreKept'
        <2> SUFFICES ASSUME NEW link \in linked', link \notin cut', link.name \in Symbols
                     PROVE  \E row \in edges' \cup pending' : link = Key(row)
            BY DEF LinksAreKept, KeysOf, Key
        <2>1. CASE link \in KeysOf(new)
            BY <1>1, <2>1 DEF KeysOf
        <2>2. CASE link \in linked
            <3>1. PICK row \in edges \cup pending : link = Key(row)
                BY <1>1, <2>2 DEF IInv, LinksAreKept, KeysOf
            <3>2. CASE row \in edges
                BY <1>1, <3>1, <3>2
            <3>3. CASE row \in pending
                <4>1. row.module = NoHint
                    BY <1>1, <2>2, <3>1, <3>3, KeyParts DEF IInv, OnceLinkedIsPlain
                <4>2. row \notin external
                    BY <4>1 DEF external, External
                <4>3. CASE row \in attached
                    <5>1. PICK e \in Attached(row) : e.name = row.name
                        BY <1>3, <4>1, <4>3
                    <5>2. Key(e) = Key(row) /\ e \in new
                        BY <1>3, <1>4, <4>3, <5>1 DEF Key
                    <5> QED BY <1>1, <3>1, <5>2
                <4>4. CASE row \notin attached
                    BY <1>1, <3>1, <3>3, <4>2, <4>4
                <4> QED BY <4>3, <4>4
            <3> QED BY <3>1, <3>2, <3>3
        <2> QED BY <1>1, <2>1, <2>2
    <1> QED BY <1>6, <1>8, <1>9, <1>10, <1>11, <1>12, <1>13, <1>14 DEF IInv

\* The orphan sweep preserves the invariant.
LEMMA SweepStep ==
    ASSUME IInv, NEW w \in Writers, Sweep(w)
    PROVE  IInv'
    <1>1. /\ edges' = {e \in edges : e.from \in Indexed /\ Live(e)}
          /\ pending' = pending
          /\ UNCHANGED <<indexed, publications, faults, linked, cut>>
          /\ edges \subseteq Edges
        BY DEF Sweep, Sound, IInv, TypeOK, ParkedAsReferred
    <1>2. TypeOK'
        BY <1>1 DEF Sweep, IInv, TypeOK
    <1>3. ParkedAsReferred' /\ AttachedAsReferred'
        BY <1>1 DEF IInv, ParkedAsReferred, AttachedAsReferred, Indexed
    <1>4. \A e \in edges' : e.name \in NodesOf(e.to)'
        BY <1>1 DEF Live, NodesOf, Indexed
    <1>5. DeadIsCut' /\ NoDanglingAtRest'
        BY <1>4 DEF DeadIsCut, NoDanglingAtRest, Live
    <1>6. SymbolHasOneRow' /\ OnceLinkedIsPlain'
        BY <1>1 DEF IInv, SymbolHasOneRow, OnceLinkedIsPlain
    <1>7. LinksAreKept'
        <2> SUFFICES ASSUME NEW link \in linked', link \notin cut', link.name \in Symbols
                     PROVE  \E row \in edges' \cup pending' : link = Key(row)
            BY DEF LinksAreKept, KeysOf, Key
        <2>1. PICK row \in edges \cup pending : link = Key(row)
            BY <1>1 DEF IInv, LinksAreKept, KeysOf
        <2>2. CASE row \in edges
            BY <1>1, <2>1, <2>2 DEF IInv, DeadIsCut, AttachedAsReferred
        <2> QED BY <1>1, <2>1, <2>2
    <1> QED BY <1>2, <1>3, <1>5, <1>6, <1>7 DEF IInv

\* A fault, or nothing, preserves the invariant.
LEMMA InterruptStep ==
    ASSUME IInv, (\E w \in Writers : Interrupt(w)) \/ UNCHANGED vars
    PROVE  IInv'
    <1>1. UNCHANGED <<indexed, edges, pending, publications, linked, cut>>
        BY DEF Interrupt, rows, vars
    <1>2. TypeOK'
        <2>1. CASE \E w \in Writers : Interrupt(w)
            <3>1. PICK w \in Writers : Interrupt(w)
                BY <2>1
            <3>2. faults' \in Nat /\ interrupted' \in BOOLEAN
                BY <3>1 DEF Interrupt, IInv, TypeOK
            <3>3. pc' \in [Writers -> {"idle", "resolve", "sweep"}]
                BY <3>1 DEF Interrupt, IInv, TypeOK
            <3> QED BY <1>1, <3>2, <3>3 DEF IInv, TypeOK
        <2>2. CASE UNCHANGED vars
            BY <2>2 DEF rows, vars, IInv, TypeOK
        <2> QED BY <2>1, <2>2
    <1>3. ParkedAsReferred' /\ AttachedAsReferred' /\ DeadIsCut'
        BY <1>1 DEF IInv, ParkedAsReferred, AttachedAsReferred, DeadIsCut, Indexed, Live, NodesOf
    <1>4. SymbolHasOneRow' /\ OnceLinkedIsPlain' /\ LinksAreKept'
        BY <1>1 DEF IInv, SymbolHasOneRow, OnceLinkedIsPlain, LinksAreKept
    <1>5. NoDanglingAtRest'
        BY <1>1 DEF Interrupt, rows, vars, IInv, NoDanglingAtRest, Live, NodesOf, Indexed
    <1> QED BY <1>2, <1>3, <1>4, <1>5 DEF IInv

-----------------------------------------------------------------------------
(* Theorems.                                                               *)

\* The invariant holds in every reachable state.
THEOREM Invariance == Spec => []IInv
    <1>1. IInv /\ [Next]_vars => IInv'
        BY PublishStep, RemoveStep, ResolveStep, SweepStep, InterruptStep DEF Next
    <1> QED BY InitIInv, <1>1, PTL DEF Spec

\* Type correctness of the graph rows.
THEOREM TypeCorrect == Spec => []TypeOK
    BY Invariance, PTL DEF IInv

\* Every edge and every parked row of a file comes from a reference in what the
\* file was last published from.
THEOREM RowsComeFromReferences == Spec => []RowsAreReferences
    <1>1. IInv => RowsAreReferences
        BY DEF IInv, RowsAreReferences, ParkedAsReferred, AttachedAsReferred
    <1> QED BY Invariance, <1>1, PTL

\* Once all janitors have run uninterrupted, every edge ends in a node.
THEOREM NothingDangles == Spec => []NoDanglingAtRest
    BY Invariance, PTL DEF IInv

\* A reference to a symbol that was attached keeps a row until its file is
\* published again or a publication drops the symbol.
THEOREM LinksSurviveDeletions == Spec => []LinksAreKept
    BY Invariance, PTL DEF IInv

-----------------------------------------------------------------------------
(* One row per reference.  For symbols it is part of IInv.  An import of a   *)
(* symbol its module does not define is attached to the module's file node   *)
(* and meets there an import of the module itself: by then that one has been *)
(* attached too, because a file node is never ambiguous.                     *)

\* An edge that carries the name of a file ends in that file node.
FileEdgesEndThere == \A e \in edges : e.name \in Files => e.to = e.name

\* A parked import of the file it stands in names a module.
SelfImportsAreHinted ==
    \A p \in pending : p.rel = "imports" /\ p.name = p.from => p.module # NoHint

Once == FileEdgesEndThere /\ SelfImportsAreHinted /\ OneRowPerReference

ParkedOnce == \A p, x \in pending : Key(p) = Key(x) => p = x

AttachedOrParked == \A e \in edges, p \in pending : e.name \in Files => Key(e) # Key(p)

\* Edges that end where their names say have different keys.
LEMMA EdgesDiffer ==
    ASSUME TypeOK', SymbolHasOneRow', FileEdgesEndThere',
           NEW e \in edges', NEW x \in edges', Key(e) = Key(x)
    PROVE  e = x
    <1>1. e \in Edges /\ x \in Edges
        BY DEF TypeOK
    <1>2. e.from = x.from /\ e.rel = x.rel /\ e.name = x.name
        BY <1>1, KeyParts
    <1>3. CASE e.name \in Symbols
        BY <1>3 DEF SymbolHasOneRow, Key
    <1>4. CASE e.name \in Files
        BY <1>1, <1>2, <1>4 DEF FileEdgesEndThere, Edges
    <1> QED BY <1>1, <1>3, <1>4 DEF Edges, Names

\* What is left to show of the state after a step when the rest of the invariant
\* holds there.
LEMMA OnceFromFiles ==
    ASSUME TypeOK', SymbolHasOneRow', FileEdgesEndThere', SelfImportsAreHinted',
           ParkedOnce', AttachedOrParked'
    PROVE  Once'
    <1>1. \A e \in edges', p \in pending' : Key(e) # Key(p)
        BY DEF AttachedOrParked, TypeOK, SymbolHasOneRow, Edges, Names, Key
    <1>2. (KeysOf(edges) \cap KeysOf(pending))' = {}
        BY <1>1 DEF KeysOf, Key
    <1>3. \A e, x \in edges' : Key(e) = Key(x) => e = x
        BY EdgesDiffer
    <1> QED BY <1>2, <1>3 DEF Once, OneRowPerReference, ParkedOnce, Key

\* Only the file itself has a node of its name.
LEMMA FileNodeIsSole ==
    ASSUME TypeOK, NEW f \in Indexed
    PROVE  /\ \A g \in Files : f \in NodesOf(g) <=> g = f
           /\ Candidates(f) = {f} /\ Cardinality(Candidates(f)) = 1
    <1>1. f \in Files /\ f \notin Symbols
        BY NamesAssumption DEF Indexed
    <1>2. \A g \in Indexed : indexed[g] \in Contents
        BY DEF Indexed, TypeOK
    <1>3. \A g \in Files : f \in NodesOf(g) <=> g = f
        BY <1>1, <1>2 DEF NodesOf, Contents
    <1>4. Candidates(f) = {f}
        BY <1>1, <1>3 DEF Candidates
    <1> QED BY <1>3, <1>4, FS_Singleton

\* An import of an indexed file is resolved, unless it names no module and
\* stands in the file itself.
LEMMA ImportOfFileIsFound ==
    ASSUME TypeOK, NEW p \in Pending, p.rel = "imports", p.name \in Indexed, Target(p) = {}
    PROVE  p.name = p.from /\ p.module = NoHint
    <1>1. Candidates(p.name) = {p.name} /\ Cardinality(Candidates(p.name)) = 1
        BY FileNodeIsSole
    <1>2. Sole(Candidates(p.name)) = {p.name}
        BY <1>1 DEF Sole
    <1>3. CASE p.module = NoHint
        <2>1. ~(Cardinality(Candidates(p.name)) > 1)
            BY <1>1
        <2>2. Unique(p) = {}
            BY <1>3, <2>1 DEF Target, PlainTarget
        <2> QED BY <1>2, <1>3, <2>2 DEF Unique
    <1>4. CASE p.module # NoHint
        BY <1>4 DEF Target, HintedTarget, Either
    <1> QED BY <1>3, <1>4

\* A row attached under the name of a file ends in that file.
LEMMA AttachedToFile ==
    ASSUME TypeOK, NEW p \in Pending, ~External(p), NEW e \in Attached(p), e.name \in Files
    PROVE  e.to = e.name /\ e.name \in Indexed
    <1>1. PICK f \in Target(p) :
              e = [from |-> p.from, rel |-> p.rel, to |-> f,
                   name |-> IF p.name \in NodesOf(f) THEN p.name ELSE f]
        BY DEF Attached
    <1>2. f \in Indexed /\ f \in Files
        BY TargetIsThere DEF Indexed
    <1>3. CASE p.name \in NodesOf(f)
        <2>1. e.name \in NodesOf(f) /\ e.to = f
            BY <1>1, <1>3
        <2>2. indexed[f] \in Contents
            BY <1>2 DEF Indexed, TypeOK
        <2>3. e.name = f
            BY <1>2, <2>1, <2>2, NamesAssumption DEF NodesOf, Contents
        <2> QED BY <1>2, <2>1, <2>3
    <1>4. CASE p.name \notin NodesOf(f)
        BY <1>1, <1>2, <1>4
    <1> QED BY <1>3, <1>4

\* A publication parks one row per reference.
LEMMA PublishOnce ==
    ASSUME IInv, Once, IInv', NEW w \in Writers, NEW f \in Files, NEW content \in Versions[f],
           Publish(w, f, content)
    PROVE  Once'
    <1> DEFINE new == CrossFile(f, content)
    <1>1. content \in Contents /\ content # Absent
        BY VersionsAreContents
    <1>2. new \subseteq Pending /\ \A p \in new : p.from = f
        BY <1>1, CrossFileRows
    <1>3. /\ edges' = {e \in edges : e.from # f}
          /\ pending' = {p \in pending : p.from # f} \cup new
          /\ edges \subseteq Edges /\ pending \subseteq Pending
        BY DEF Publish, From, IInv, TypeOK
    <1>4. \A p \in new : \E r \in content.refs :
              p = [from |-> f, rel |-> r.rel, name |-> r.name, module |-> r.module]
        BY DEF CrossFile
    <1> HIDE DEF new
    <1>5. FileEdgesEndThere'
        BY <1>3 DEF Once, FileEdgesEndThere
    <1>6. SelfImportsAreHinted'
        BY <1>2, <1>3, <1>4, ImportsAssumption DEF Once, SelfImportsAreHinted
    <1>7. ASSUME NEW p \in new, NEW x \in new, Key(p) = Key(x) PROVE p = x
        <2>1. p.rel = x.rel /\ p.name = x.name
            BY <1>2, <1>7, KeyParts
        <2>2. PICK r \in content.refs :
                  p = [from |-> f, rel |-> r.rel, name |-> r.name, module |-> r.module]
            BY <1>4
        <2>3. PICK y \in content.refs :
                  x = [from |-> f, rel |-> y.rel, name |-> y.name, module |-> y.module]
            BY <1>4
        <2>4. r = y
            BY <2>1, <2>2, <2>3, VersionsAssumption
        <2> QED BY <2>2, <2>3, <2>4
    <1>8. \A p \in new, x \in edges' \cup {q \in pending : q.from # f} : Key(p) # Key(x)
        BY <1>2, <1>3, KeyParts
    <1>9. ParkedOnce'
        <2>1. \A p, x \in pending' : Key(p) = Key(x) => p = x
            BY <1>3, <1>7, <1>8 DEF Once, OneRowPerReference
        <2> QED BY <2>1 DEF ParkedOnce, Key
    <1>10. AttachedOrParked'
        <2>1. \A e \in edges', p \in pending' : Key(e) # Key(p)
            BY <1>3, <1>8 DEF Once, OneRowPerReference, KeysOf
        <2> QED BY <2>1 DEF AttachedOrParked, Key
    <1> QED BY <1>5, <1>6, <1>9, <1>10, OnceFromFiles DEF IInv

\* A deletion parks the rows it detaches, and each of them once.
LEMMA RemoveOnce ==
    ASSUME IInv, Once, IInv', NEW w \in Writers, NEW f \in Files, Remove(w, f)
    PROVE  Once'
    <1>1. /\ edges' = {e \in edges : e.from # f /\ e \notin Inbound(f)}
          /\ pending' = {p \in pending : p.from # f /\ Key(p) \notin KeysOf(Requeued(f))}
                            \cup Requeued(f)
          /\ edges \subseteq Edges /\ pending \subseteq Pending
        BY DEF Remove, Dropped, From, IInv, TypeOK
    <1>2. /\ Requeued(f) \subseteq Pending
          /\ Inbound(f) \subseteq edges
          /\ \A p \in Requeued(f) : \E e \in Inbound(f) :
                 /\ Key(p) = Key(e)
                 /\ p.module = IF e.name = f THEN f ELSE NoHint
        BY RequeuedRows DEF IInv
    <1>3. \A e \in Inbound(f) : e.to = f /\ e.from # f
        BY DEF Inbound
    <1>4. FileEdgesEndThere'
        BY <1>1 DEF Once, FileEdgesEndThere
    <1>5. \A e, x \in edges : Key(e) = Key(x) => e = x
        BY DEF Once, OneRowPerReference
    <1>6. SelfImportsAreHinted'
        <2> SUFFICES ASSUME NEW p \in pending', p.rel = "imports", p.name = p.from
                     PROVE  p.module # NoHint
            BY DEF SelfImportsAreHinted
        <2>1. CASE p \in pending
            BY <2>1 DEF Once, SelfImportsAreHinted
        <2>2. CASE p \in Requeued(f)
            <3>1. PICK e \in Inbound(f) : Key(p) = Key(e)
                BY <1>2, <2>2
            <3>2. e \in edges /\ e \in Edges /\ e.name = e.from
                BY <1>1, <1>2, <2>2, <3>1, KeyParts
            <3>3. e.to = e.name
                BY <3>2 DEF Once, FileEdgesEndThere, Edges
            <3> QED BY <1>3, <3>2, <3>3
        <2> QED BY <1>1, <2>1, <2>2
    <1>7. ASSUME NEW p \in Requeued(f), NEW x \in Requeued(f), Key(p) = Key(x) PROVE p = x
        <2>1. PICK e \in Inbound(f) :
                  Key(p) = Key(e) /\ p.module = IF e.name = f THEN f ELSE NoHint
            BY <1>2
        <2>2. PICK y \in Inbound(f) :
                  Key(x) = Key(y) /\ x.module = IF y.name = f THEN f ELSE NoHint
            BY <1>2
        <2>3. e = y
            BY <1>2, <1>5, <1>7, <2>1, <2>2
        <2>4. p.from = x.from /\ p.rel = x.rel /\ p.name = x.name
            BY <1>2, <1>7, KeyParts
        <2> QED BY <1>2, <2>1, <2>2, <2>3, <2>4 DEF Pending
    <1>8. \A p \in pending, x \in Requeued(f) : p \in pending' /\ Key(p) = Key(x) => p \in Requeued(f)
        BY <1>1 DEF KeysOf
    <1>9. ParkedOnce'
        <2>1. \A p, x \in pending' : Key(p) = Key(x) => p = x
            BY <1>1, <1>7, <1>8 DEF Once, OneRowPerReference
        <2> QED BY <2>1 DEF ParkedOnce, Key
    <1>10. AttachedOrParked'
        <2>1. \A e \in edges', p \in pending : Key(e) # Key(p)
            BY <1>1 DEF Once, OneRowPerReference, KeysOf
        <2>2. \A e \in edges', p \in Requeued(f) : Key(e) # Key(p)
            BY <1>1, <1>2, <1>5
        <2> QED BY <1>1, <2>1, <2>2 DEF AttachedOrParked, Key
    <1> QED BY <1>4, <1>6, <1>9, <1>10, OnceFromFiles DEF IInv

\* The resolution pass leaves no import of a file parked beside an edge to it.
LEMMA ResolveOnce ==
    ASSUME IInv, Once, IInv', NEW w \in Writers, Resolve(w)
    PROVE  Once'
    <1> DEFINE external == {p \in pending : External(p)}
               attached == {p \in pending \ external : Target(p) # {}}
               new == UNION {Attached(p) : p \in attached}
    <1>1. /\ pending' = pending \ (external \cup attached)
          /\ edges' = edges \cup new
          /\ edges \subseteq Edges /\ pending \subseteq Pending
        BY DEF Resolve, IInv, TypeOK
    <1>2. \A e \in new : \E p \in attached : e \in Attached(p)
        OBVIOUS
    <1>3. \A p \in attached : p \in Pending /\ p \in pending /\ ~External(p)
        BY <1>1
    <1>4. \A p \in pending' : Target(p) = {}
        BY <1>1
    <1> HIDE DEF new, attached, external
    <1>5. \A e \in new : e.name \in Files => e.to = e.name /\ e.name \in Indexed
        BY <1>2, <1>3, AttachedToFile DEF IInv
    <1>6. FileEdgesEndThere'
        BY <1>1, <1>5 DEF Once, FileEdgesEndThere
    <1>7. SelfImportsAreHinted'
        BY <1>1 DEF Once, SelfImportsAreHinted
    <1>8. ParkedOnce'
        BY <1>1 DEF Once, OneRowPerReference, ParkedOnce, Key
    <1>9. ASSUME NEW e \in new, NEW p \in pending', e.name \in Files, Key(e) = Key(p)
          PROVE  FALSE
        <2>1. PICK q \in attached : e \in Attached(q)
            BY <1>2
        <2>2. /\ e \in Edges /\ e.from = q.from /\ e.rel = q.rel
              /\ e.name = q.name \/ q.rel = "imports"
            BY <1>3, <2>1, AttachedRows
        <2>3. p \in Pending /\ p \in pending /\ p.rel = e.rel /\ p.name = e.name
            BY <1>1, <1>9, <2>2, KeyParts
        <2>4. CASE e.name = q.name
            <3>1. Key(q) = Key(p)
                BY <1>9, <2>2, <2>4 DEF Key
            <3>2. q = p
                BY <1>3, <2>3, <3>1 DEF Once, OneRowPerReference
            <3> QED BY <1>1, <3>2
        <2>5. CASE q.rel = "imports"
            <3>1. p.name = p.from /\ p.module = NoHint
                BY <1>4, <1>5, <1>9, <2>2, <2>3, <2>5, ImportOfFileIsFound DEF IInv
            <3> QED BY <2>2, <2>3, <2>5, <3>1 DEF Once, SelfImportsAreHinted
        <2> QED BY <2>2, <2>4, <2>5
    <1>10. AttachedOrParked'
        <2>1. \A e \in edges, p \in pending : Key(e) # Key(p)
            BY DEF Once, OneRowPerReference, KeysOf
        <2> QED BY <1>1, <1>9, <2>1 DEF AttachedOrParked, Key
    <1> QED BY <1>6, <1>7, <1>8, <1>10, OnceFromFiles DEF IInv

\* A reference counts once: it is attached to one node or parked in one row, in
\* whatever order files are published, deleted and resolved.
THEOREM ReferencesCountOnce == Spec => []OneRowPerReference
    <1>1. Init => Once
        BY DEF Init, Once, FileEdgesEndThere, SelfImportsAreHinted, OneRowPerReference, KeysOf
    <1>2. ASSUME IInv, Once, IInv', [Next]_vars PROVE Once'
        <2>1. ASSUME edges' \subseteq edges, pending' \subseteq pending PROVE Once'
            BY <1>2, <2>1
            DEF Once, FileEdgesEndThere, SelfImportsAreHinted, OneRowPerReference, KeysOf, Key
        <2>2. ASSUME NEW w \in Writers, Sweep(w) PROVE Once'
            BY <2>1, <2>2 DEF Sweep
        <2>3. ASSUME NEW w \in Writers, Interrupt(w) PROVE Once'
            BY <2>1, <2>3 DEF Interrupt, rows
        <2>4. CASE UNCHANGED vars
            BY <2>1, <2>4 DEF vars, rows
        <2> QED BY <1>2, <2>2, <2>3, <2>4, PublishOnce, RemoveOnce, ResolveOnce DEF Next
    <1>3. Once => OneRowPerReference
        BY DEF Once
    <1> QED BY Invariance, <1>1, <1>2, <1>3, PTL DEF Spec
=============================================================================
