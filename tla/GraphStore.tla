------------------------------- MODULE GraphStore -------------------------------
(***************************************************************************)
(* The rows of src/sot_graph/db.py that relate files to each other: the    *)
(* confirmed rows of graph_edges and the parked rows of pending_edges,     *)
(* through publications and deletions of files by several writers, the     *)
(* resolution pass and the orphan sweep.                                   *)
(*                                                                         *)
(* Each operation runs under the write lock in one transaction, so it is   *)
(* one step; what a writer does between its operations is not protected.   *)
(* Files are modules of their own name: prefixes of dotted names,          *)
(* receivers with their method tables, and edges inside a file are left    *)
(* out.  Every reference of a file has the file node as its source.        *)
(***************************************************************************)
EXTENDS Naturals, FiniteSets

CONSTANTS
    Files,              \* paths, each also the name of its module
    Symbols,            \* what a file can define
    NoHint,             \* import_source is NULL
    Absent,             \* the file has no rows
    Versions,           \* Versions[f]: what extraction can make of file f
    Dir,                \* Dir[f]: the directory of f
    Writers,            \* processes or threads with a Reconciler on one database
    MaxPublications,    \* bound: files published or deleted
    MaxFaults           \* bound: kills and lock timeouts between operations

Names == Symbols \cup Files
Relations == {"uses", "imports"}
Refs == [rel : Relations, name : Names, module : Files \cup {NoHint}]
Contents == [defs : SUBSET Symbols, refs : SUBSET Refs]

ASSUME BoundsAssumption == MaxPublications \in Nat /\ MaxFaults \in Nat
ASSUME NamesAssumption ==
    /\ Symbols \cap Files = {}
    /\ NoHint \notin Names
    /\ Absent \notin Contents
\* The primary key of pending_edges keeps one row per relation and name.
ASSUME VersionsAssumption ==
    /\ Versions \in [Files -> SUBSET Contents]
    /\ \A f \in Files : \A content \in Versions[f] : \A r, x \in content.refs :
           r.rel = x.rel /\ r.name = x.name => r = x
\* An import without a module is a relative one that leaves the root; it is not
\* one of the file itself.
ASSUME ImportsAssumption ==
    \A f \in Files : \A content \in Versions[f] : \A r \in content.refs :
        r.rel = "imports" /\ r.name = f => r.module # NoHint

VARIABLES
    indexed,        \* indexed[f]: what the nodes and the journal row of f were made of
    edges,          \* graph_edges: the reference and the node it is attached to
    pending,        \* pending_edges: the references that are not attached
    pc,             \* pc[w]: which operation writer w owes next
    publications,   \* publications and deletions so far
    faults,         \* kills and lock timeouts so far
    interrupted,    \* history: a fault since the last orphan sweep
    linked,         \* history: references attached since their file was published
    cut             \* history: those whose target a publication dropped

rows == <<indexed, edges, pending>>
vars == <<rows, pc, publications, faults, interrupted, linked, cut>>

Edges == [from : Files, rel : Relations, name : Names, to : Files]
Pending == [from : Files, rel : Relations, name : Names, module : Files \cup {NoHint}]
Keys == [from : Files, rel : Relations, name : Names]

\* One type invariant of the module.
TypeOK ==
    /\ indexed \in [Files -> Contents \cup {Absent}]
    /\ edges \subseteq Edges
    /\ pending \subseteq Pending
    /\ pc \in [Writers -> {"idle", "resolve", "sweep"}]
    /\ publications \in Nat /\ faults \in Nat
    /\ interrupted \in BOOLEAN
    /\ linked \subseteq Keys /\ cut \subseteq Keys

\* A new database.
Init ==
    /\ indexed = [f \in Files |-> Absent]
    /\ edges = {} /\ pending = {}
    /\ pc = [w \in Writers |-> "idle"]
    /\ publications = 0 /\ faults = 0
    /\ interrupted = FALSE
    /\ linked = {} /\ cut = {}

\* The reference a row is about.
Key(row) == [from |-> row.from, rel |-> row.rel, name |-> row.name]
KeysOf(set) == {Key(row) : row \in set}
From(f, set) == {row \in set : row.from = f}

Indexed == {f \in Files : indexed[f] # Absent}

\* The names of f's nodes: its file node and its symbols.
NodesOf(f) == IF f \in Indexed THEN indexed[f].defs \cup {f} ELSE {}

\* An edge whose target node exists.
Live(e) == e.name \in NodesOf(e.to)

-----------------------------------------------------------------------------
(* Publishing and deleting one file.                                       *)

\* A reference to a name the file defines itself is an edge inside the file.
CrossFile(f, content) ==
    {[from |-> f, rel |-> r.rel, name |-> r.name, module |-> r.module] :
        r \in {ref \in content.refs : ref.name \notin content.defs}}

\* commit_file_batch replaces the rows of f.  The edges of other files into f
\* stay as they are, also those into a symbol that is gone.
Publish(w, f, content) ==
    /\ pc[w] \in {"idle", "resolve"}
    /\ publications < MaxPublications
    /\ publications' = publications + 1
    /\ indexed' = [indexed EXCEPT ![f] = content]
    /\ edges' = edges \ From(f, edges)
    /\ pending' = (pending \ From(f, pending)) \cup CrossFile(f, content)
    /\ pc' = [pc EXCEPT ![w] = "resolve"]
    /\ linked' = linked \ From(f, linked)
    /\ cut' = (cut \cup KeysOf({e \in edges : e.to = f /\ e.name \notin content.defs \cup {f}}))
                  \ From(f, cut)
    /\ UNCHANGED <<faults, interrupted>>

\* The confirmed references of other files to the nodes of f.
Inbound(f) == {e \in edges : e.to = f /\ e.from # f /\ Live(e)}

\* Mutants: the module stays the hint, or the symbol becomes it.
MutantStaleHint(f) ==
    {[from |-> e.from, rel |-> e.rel, name |-> e.name, module |-> f] : e \in Inbound(f)}
MutantSymbolHint(f) ==
    {[from |-> e.from, rel |-> e.rel, name |-> e.name, module |-> e.name] : e \in Inbound(f)}

\* A reference to a symbol is parked by its name alone, one to the file node
\* with the module it named.
Requeued(f) ==
    {[from |-> e.from, rel |-> e.rel, name |-> e.name,
      module |-> IF e.name = f THEN f ELSE NoHint] : e \in Inbound(f)}

\* Mutant: the edges of other files are left behind.
MutantOwnOnly(f) == From(f, edges)

\* The edges that go with f, its own and those into its nodes.
Dropped(f) == From(f, edges) \cup Inbound(f)

\* delete_path.  reconcile_path runs no janitor after a deletion; the other
\* callers resolve and sweep later, which Resolve is free to do at any time.
Remove(w, f) ==
    /\ pc[w] \in {"idle", "resolve"}
    /\ f \in Indexed
    /\ publications < MaxPublications
    /\ publications' = publications + 1
    /\ indexed' = [indexed EXCEPT ![f] = Absent]
    /\ edges' = edges \ Dropped(f)
    /\ pending' = {p \in pending : p.from # f /\ Key(p) \notin KeysOf(Requeued(f))}
                      \cup Requeued(f)
    /\ linked' = linked \ From(f, linked)
    /\ cut' = cut \ From(f, cut)
    /\ UNCHANGED <<pc, faults, interrupted>>

-----------------------------------------------------------------------------
(* The resolution pass.                                                    *)

\* The files with a node of this name.
Candidates(name) == {f \in Files : name \in NodesOf(f)}

\* caller_imported_modules: by resolved and by parked imports.
ImportedBy(f) ==
    {e.to : e \in {x \in From(f, edges) : x.rel = "imports" /\ Live(x)}}
        \cup {p.module : p \in {x \in From(f, pending) : x.rel = "imports" /\ x.module \in Indexed}}

\* reexport_map: where an import of module m leads.
Reexported(m, name) ==
    {e.to : e \in {x \in From(m, edges) :
                       x.rel = "imports" /\ x.name = name /\ name \in Symbols /\ Live(x)}}

\* The row names a module that is not of the project.
External(p) == p.module \notin Indexed \cup {NoHint}

\* The only member of a set, if it has only one.
Sole(set) == {f \in set : set = {f}}

\* The first of these that is not empty.
Either(first, second) == IF first # {} THEN first ELSE second

\* Another file that alone defines the name, anywhere in the project.
Unique(p) == Sole(Candidates(p.name)) \ {p.from}

\* Mutant: any relation falls back on the file node.
MutantFileForAll(p) ==
    Either(Reexported(p.module, p.name),
        Either(Candidates(p.name) \cap {p.module}, Either(Unique(p), {p.module})))

\* A row that names a module: re-exported by it, defined in it, unique
\* anywhere, or for an import the module itself.
HintedTarget(p) ==
    Either(Reexported(p.module, p.name),
        Either(Candidates(p.name) \cap {p.module},
            Either(Unique(p), IF p.rel = "imports" THEN {p.module} ELSE {})))

\* A row that names none: with several candidates the one its file imports,
\* then the one in its directory.
PlainTarget(p) ==
    LET nearby == {f \in Candidates(p.name) : Dir[f] = Dir[p.from]}
    IN  IF Cardinality(Candidates(p.name)) > 1
        THEN Either(Sole(Candidates(p.name) \cap ImportedBy(p.from)), Sole(nearby))
        ELSE Unique(p)

\* The file a row is attached to, or nothing: never one of several.
Target(p) == IF p.module = NoHint THEN PlainTarget(p) ELSE HintedTarget(p)

\* The edges that replace row p.
Attached(p) ==
    {[from |-> p.from, rel |-> p.rel, to |-> f,
      name |-> IF p.name \in NodesOf(f) THEN p.name ELSE f] : f \in Target(p)}

\* resolve_all_pending_edges: every choice is made on the tables as they were.
Resolve(w) ==
    LET external == {p \in pending : External(p)}
        attached == {p \in pending \ external : Target(p) # {}}
        new == UNION {Attached(p) : p \in attached}
    IN  /\ pc[w] \in {"idle", "resolve"}
        /\ pending' = pending \ (external \cup attached)
        /\ edges' = edges \cup new
        /\ linked' = linked \cup KeysOf(new)
        /\ pc' = [pc EXCEPT ![w] = "sweep"]
        /\ UNCHANGED <<indexed, publications, faults, interrupted, cut>>

\* Mutant: only the source is looked up.
MutantSourceOnly(e) == e.from \in Indexed

\* Both nodes of an edge exist.
Sound(e) == e.from \in Indexed /\ Live(e)

\* cleanup_orphan_edges.
Sweep(w) ==
    /\ pc[w] = "sweep"
    /\ edges' = {e \in edges : Sound(e)}
    /\ pending' = {p \in pending : p.from \in Indexed}
    /\ pc' = [pc EXCEPT ![w] = "idle"]
    /\ interrupted' = FALSE
    /\ UNCHANGED <<indexed, publications, faults, linked, cut>>

\* A writer is killed, or gives up a busy lock, before the operation it owes.
Interrupt(w) ==
    /\ pc[w] # "idle"
    /\ faults < MaxFaults
    /\ faults' = faults + 1
    /\ pc' = [pc EXCEPT ![w] = "idle"]
    /\ interrupted' = TRUE
    /\ UNCHANGED <<rows, publications, linked, cut>>

Next ==
    \E w \in Writers :
        \/ \E f \in Files : \E content \in Versions[f] : Publish(w, f, content)
        \/ \E f \in Files : Remove(w, f)
        \/ Resolve(w)
        \/ Sweep(w)
        \/ Interrupt(w)

Spec == Init /\ [][Next]_vars

-----------------------------------------------------------------------------
(* Properties.                                                             *)

\* Row of a file that says what reference r says: of the same name, or, for an
\* import of something the module does not define, of the module.
Says(row, r) ==
    /\ row.rel = r.rel
    /\ row.name = r.name \/ (r.rel = "imports" /\ row.name = r.module)

\* Whatever is requeued, attached or swept on behalf of other files, each edge
\* and each parked row comes from a reference in what its file was last
\* published from: nothing outlives the file or the version that made it.
RowsAreReferences ==
    \A row \in edges \cup pending :
        /\ row.from \in Indexed
        /\ \E r \in CrossFile(row.from, indexed[row.from]) : Says(row, r)

\* A reference counts once: it is attached to one node or parked in one row,
\* not both, whatever order files were deleted, requeued and resolved in.
OneRowPerReference ==
    /\ KeysOf(edges) \cap KeysOf(pending) = {}
    /\ \A e, x \in edges : Key(e) = Key(x) => e = x
    /\ \A p, x \in pending : Key(p) = Key(x) => p = x

\* Once every writer has run its janitors and none was interrupted, each edge
\* ends in a node that exists.
NoDanglingAtRest ==
    (\A w \in Writers : pc[w] = "idle") /\ ~interrupted => \A e \in edges : Live(e)

\* Promise of delete_path for symbols: a reference that was attached stays
\* attached or parked until its own file is published again, however often its
\* target is deleted and recreated, unless a publication dropped the symbol.
LinksAreKept ==
    \A link \in linked \ cut : link.name \in Symbols => link \in KeysOf(edges \cup pending)

=============================================================================
