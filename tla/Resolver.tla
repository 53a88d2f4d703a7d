------------------------------ MODULE Resolver ------------------------------
(***************************************************************************)
(* How stored calls become edges (store/resolve.rs).  A sync replaces the  *)
(* rows of changed files, which moves them to the end of their tables, and *)
(* rebuilds every edge from what the tables then hold.  A call resolves    *)
(* through an import, within its file, or by name alone.                   *)
(*                                                                         *)
(* A path is the sequence of its components, without the extension.        *)
(***************************************************************************)
EXTENDS Extraction

CONSTANTS
    Files,      \* numbered from 1 in the order of their paths
    PathOf,     \* the path of each file
    LanguageOf, \* "python", "typescript", "rust" or "go"
    Versions,   \* the syntax trees each file may hold
    Repos,      \* repositories: sets of files
    Cap,        \* how many candidates a lookup by name keeps
    IdBefore(_, _),     \* the order of the ids of two symbols, which are hashes
    TextBefore(_, _),   \* the order of a module and a name bound from it, before others
    Hidden,     \* names of functions neither exported nor callback-style, no `main`, no dunder
    TestFiles   \* the files is_test_support_file accepts

ASSUME ResolverAssumption ==
    /\ IsFiniteSet(Files) /\ Files = 1..Cardinality(Files)
    /\ Cap \in Nat \ {0} /\ TestFiles \subseteq Files
    /\ \A r \in Repos : r \subseteq Files
    /\ \A f \in Files :
          /\ LanguageOf[f] \in DOMAIN SymbolKinds
          /\ None \notin Versions[f] /\ \A tree \in Versions[f] : IsTree(LanguageOf[f], tree)

VARIABLES
    repo,
    content,    \* the version of each file that is indexed, or None
    tables,     \* files, and the rows of symbols, imports and pending_calls as inserted
    edges       \* [source, target, line, confidence]

vars == <<repo, content, tables, edges>>

Extracted == [f \in Files |-> [tree \in Versions[f] |-> Extract(f, LanguageOf[f], tree)]]

\* All the symbols and imports a file may ever have.
SymbolsIn(f) == UNION {ToSet(Extracted[f][tree].symbols) : tree \in Versions[f]}
ImportsIn(f) == UNION {ToSet(Extracted[f][tree].imports) : tree \in Versions[f]}

\* Ids are strings, and different symbols have different ones.
ASSUME IdAssumption ==
    \A f \in Files : \A c, d \in SymbolsIn(f) :
        /\ ~(IdBefore(c, d) /\ IdBefore(d, c))
        /\ c # d => IdBefore(c, d) \/ IdBefore(d, c)
        /\ \A e \in SymbolsIn(f) : IdBefore(c, d) /\ IdBefore(d, e) => IdBefore(c, e)

-----------------------------------------------------------------------------
\* What resolution looks at: load_name_index, load_symbol_id_index, load_import_index and
\* load_file_index.
Indexes(t) == [names |-> t.symbols, sources |-> ToSet(t.symbols), imports |-> t.imports, files |-> t.files]

\* load_name_index: candidates by path, then by id.
Before(c, d) == c.file < d.file \/ (c.file = d.file /\ IdBefore(c, d))

CandidatesAsStored(ix, name) == EntriesAt(ix.names, {k \in DOMAIN ix.names : ix.names[k].name = name})

Candidates(ix, name) == InOrder({s \in ToSet(ix.names) : s.name = name}, Before)

FirstOf(candidates) == SubSeq(candidates, 1, Min({Cap, Len(candidates)}))

IsPlain(q, name) == q # None /\ name # None /\ q = [rel |-> 0, parts |-> <<name>>]

\* matched_import_for and import_matches_qualifier: the imports a call may go through.
Matches(import, call) ==
    IF call.kind = "bare" THEN import.local = call.name
    ELSE \/ IsPlain(call.qualifier, import.local)
         \/ IsPlain(call.qualifier, import.alias)
         \/ call.qualifier = import.module

\* load_import_index: the imports of a file, by line and text, else as inserted.
Text(import) == <<import.module, import.local>>

ASSUME TextAssumption ==
    \A f \in Files : \A i, j \in ImportsIn(f) :
        /\ ~(TextBefore(Text(i), Text(j)) /\ TextBefore(Text(j), Text(i)))
        /\ TextBefore(Text(i), Text(j)) =>
              \A k \in ImportsIn(f) : TextBefore(Text(i), Text(k)) \/ TextBefore(Text(k), Text(j))

ImportBefore(i, j) == i.line < j.line \/ (i.line = j.line /\ TextBefore(Text(i), Text(j)))

ImportsOf(ix, f) == EntriesAt(ix.imports, {k \in DOMAIN ix.imports : ix.imports[k].file = f})

MatchedImports(ix, call) ==
    LET own == ImportsOf(ix, call.source.file) IN {k \in DOMAIN own : Matches(own[k], call)}

FirstImport(ix, call) ==
    LET own == ImportsOf(ix, call.source.file)
        matched == MatchedImports(ix, call)
    IN  own[CHOOSE k \in matched : \A j \in matched \ {k} :
                \/ ImportBefore(own[k], own[j])
                \/ k < j /\ ~ImportBefore(own[j], own[k])]

-----------------------------------------------------------------------------
Folder(f) == Front(PathOf[f])

\* normalize_relative_path_module: ".." drops a component, if there is one.
Walked(base, parts) ==
    LET at[i \in 0..Len(parts)] ==
          IF i = 0 THEN base
          ELSE LET here == at[i - 1]
               IN  IF parts[i] # ".." THEN Append(here, parts[i])
                   ELSE IF here = <<>> THEN <<>> ELSE Front(here)
    IN  at[Len(parts)]

\* normalize_python_relative_module: every dot but the first goes up.
Upward(base, dots) == SubSeq(base, 1, IF Len(base) < dots - 1 THEN 0 ELSE Len(base) - (dots - 1))

\* The paths a module may stand for, without extension and index file: one or none.
ModulePrefixes(f, import, kind) ==
    LET m == import.module
        whole(prefix) == IF kind # "bare" /\ import.imported # None
                         THEN Append(prefix, import.imported) ELSE prefix
    IN  CASE LanguageOf[f] = "python" /\ m.rel = 0 -> {whole(m.parts)}
          [] LanguageOf[f] = "python" /\ m.rel > 0 ->
                LET prefix == Upward(Folder(f), m.rel) \o m.parts
                IN  IF prefix = <<>> THEN {} ELSE {whole(prefix)}
          [] LanguageOf[f] = "rust" /\ m.rel > 0 ->
                {IF m.parts = <<>> THEN <<"src", "lib">> ELSE <<"src">> \o m.parts}
          [] LanguageOf[f] = "typescript" /\ m.rel > 0 -> {Walked(Folder(f), m.parts)} \ {<<>>}
          [] OTHER -> {}

\* Directories whose files belong to the module: Go names a suffix of the import path.
Dirs(f, import, kind) ==
    CASE LanguageOf[f] = "rust" -> ModulePrefixes(f, import, kind)
      [] LanguageOf[f] = "go" ->
            LET parts == import.module.parts IN {SubSeq(parts, n, Len(parts)) : n \in 1..Len(parts)}
      [] OTHER -> {}

\* ModuleTargets::matches.
InModule(g, f, import, kind) ==
    \/ /\ LanguageOf[g] = LanguageOf[f]
       /\ \E prefix \in ModulePrefixes(f, import, kind) :
             \/ PathOf[g] \in {prefix, Append(prefix, "index")}
             \/ LanguageOf[g] = "python" /\ PathOf[g] = Append(prefix, "__init__")
    \/ \E dir \in Dirs(f, import, kind) : IsStrictPrefix(dir, PathOf[g])

IsExternal(ix, f, import, kind) ==
    /\ import.module.rel = 0
    /\ ~\E g \in ix.files : InModule(g, f, import, kind)

-----------------------------------------------------------------------------
\* ResolutionPath::confidence, in hundredths.
Confidence ==
    [ImportStrict |-> 90, SameFileQualified |-> 85, SameFileBare |-> 80, NameUnique |-> 70,
     ImportFallback |-> 55, NameAmbiguous |-> 50]

Resolved(path, targets) == [path |-> path, targets |-> targets]
Unresolved == Resolved(None, {})

\* The name a call looks for: a bare call goes by the imported name, not by its alias.
NameSought(import, call) ==
    IF call.kind = "bare" /\ import.imported # None THEN import.imported ELSE call.name

ByName(ix, call, path) == Resolved(path, ToSet(FirstOf(Candidates(ix, call.name))))

\* resolve_imported_call, with what becomes of its outcome.
ThroughImport(ix, call, import) ==
    LET f == call.source.file
        named == Candidates(ix, NameSought(import, call))
        found == EntriesAt(named, {k \in DOMAIN named : InModule(named[k].file, f, import, call.kind)})
    IN  IF found # <<>> THEN Resolved("ImportStrict", ToSet(FirstOf(found)))
        ELSE IF call.kind = "bare" \/ IsExternal(ix, f, import, call.kind) THEN Unresolved
        ELSE ByName(ix, call, "ImportFallback")

\* resolve_same_file_call: who in the caller's file may be meant.
FitsInFile(ix, c, call) ==
    LET q == call.qualifier
    IN  \/ call.kind = "bare"
        \/ /\ call.kind = "scoped"
           /\ c.container # None /\ q = Dotted(0, c.container) /\ Len(c.container) = 1
        \/ /\ call.kind = "member" /\ (IsPlain(q, "self") \/ IsPlain(q, "this"))
           /\ call.source \in ix.sources
           /\ call.source.container # None /\ c.container = call.source.container

SameFileCut(ix, call) ==
    {c \in ToSet(FirstOf(Candidates(ix, call.name))) : c.file = call.source.file /\ FitsInFile(ix, c, call)}

SameFile(ix, call) ==
    {c \in ToSet(Candidates(ix, call.name)) : c.file = call.source.file /\ FitsInFile(ix, c, call)}

WithoutImport(ix, call) ==
    IF SameFile(ix, call) # {}
    THEN Resolved(IF call.kind = "bare" THEN "SameFileBare" ELSE "SameFileQualified", SameFile(ix, call))
    ELSE IF call.kind # "bare" THEN Unresolved
    ELSE ByName(ix, call, IF Len(Candidates(ix, call.name)) = 1 THEN "NameUnique" ELSE "NameAmbiguous")

\* resolve_call_explained.
ResolveCall(ix, call) ==
    IF MatchedImports(ix, call) = {} THEN WithoutImport(ix, call)
    ELSE ThroughImport(ix, call, FirstImport(ix, call))

SameSite(p, q) == p.source = q.source /\ p.line = q.line

EdgesOf(ix, call) ==
    LET to == ResolveCall(ix, call)
    IN  {[source |-> call.source, target |-> c, line |-> call.line, confidence |-> Confidence[to.path]] :
            c \in to.targets \ {call.source}}

\* INSERT OR IGNORE: of the calls on a line that reach a symbol, the first counts.
Derived(t) ==
    LET ix == Indexes(t)
        of == [i \in DOMAIN t.pending |-> EdgesOf(ix, t.pending[i])]
    IN  UNION {{e \in of[i] : \A j \in 1..(i - 1) :
                    SameSite(t.pending[j], e) => \A d \in of[j] : d.target # e.target} : i \in DOMAIN t.pending}

RebuildWithLoops(old, t) ==
    Derived(t) \union
    {[source |-> p.source, target |-> p.source, line |-> p.line, confidence |-> 80] :
        p \in {p \in ToSet(t.pending) : p.source \in ResolveCall(Indexes(t), p).targets}}

\* rebuild_edges: whatever edges there were are deleted first.
Rebuild(old, t) == Derived(t)

-----------------------------------------------------------------------------
NoRows == [files |-> {}, symbols |-> <<>>, imports |-> <<>>, pending |-> <<>>]

\* purge_file for every file that is gone or is indexed again; the edges of its symbols
\* go with them.
PurgeRows(t, gone) ==
    [files |-> t.files \ gone,
     symbols |-> EntriesAt(t.symbols, {k \in DOMAIN t.symbols : t.symbols[k].file \notin gone}),
     imports |-> EntriesAt(t.imports, {k \in DOMAIN t.imports : t.imports[k].file \notin gone}),
     pending |-> EntriesAt(t.pending, {k \in DOMAIN t.pending : t.pending[k].source.file \notin gone})]

\* write_file_graph: the rows of a file, in the order of its extraction.
IndexFile(t, f, tree) ==
    [files |-> t.files \union {f},
     symbols |-> t.symbols \o Extracted[f][tree].symbols,
     imports |-> t.imports \o Extracted[f][tree].imports,
     pending |-> t.pending \o Extracted[f][tree].calls]

\* Those of the files that exist are indexed one after another, by path.
IndexAll(t, fs, now) ==
    LET todo == {f \in fs : now[f] # None}
        after[f \in 0..Cardinality(Files)] ==
          IF f = 0 THEN t
          ELSE IF f \in todo THEN IndexFile(after[f - 1], f, now[f]) ELSE after[f - 1]
    IN  after[Cardinality(Files)]

Contents == {now \in [repo -> {None} \union UNION {Versions[f] : f \in repo}] :
                \A f \in repo : now[f] \in Versions[f] \union {None}}

ResolverInit ==
    /\ repo \in Repos
    /\ content = [f \in repo |-> None] /\ tables = NoRows /\ edges = {}

\* A sync after any number of edits; a full one indexes every file again.
Sync(now, full) ==
    LET stale == IF full THEN repo ELSE {f \in repo : now[f] # content[f]}
    IN  /\ stale # {}
        /\ tables' = IndexAll(PurgeRows(tables, stale), stale, now)
        /\ edges' = Rebuild({e \in edges : {e.source.file, e.target.file} \intersect stale = {}}, tables')
        /\ content' = now
        /\ UNCHANGED repo

-----------------------------------------------------------------------------
TypeOK ==
    /\ repo \in Repos
    /\ content \in Contents /\ \A f \in repo : content[f] # None <=> f \in tables.files
    /\ \A e \in edges :
          /\ e.source # e.target /\ {e.source, e.target} \subseteq ToSet(tables.symbols)
          /\ e.confidence \in {Confidence[path] : path \in DOMAIN Confidence}

\* "Rebuilding from scratch keeps resolution a pure function of the current symbols,
\* imports, and pending calls": after any history of edits and syncs the edges and their
\* confidences are those of a new database, in which rows stand in another order.
EdgesIndependentOfHistory == edges = Derived(IndexAll(NoRows, repo, content))

\* symbols.id is a primary key: two symbols of one hash would fail the sync of a file, and
\* with it every later sync.
Id(s) == <<s.file, QualifiedName(s), s.kind, s.nth>>

IdsAreKeys == \A i, j \in DOMAIN tables.symbols : Id(tables.symbols[i]) = Id(tables.symbols[j]) => i = j

\* "Member and scoped calls resolve through the enclosing container or the importing file's
\* imports": a method that calls another of its container on itself reaches it, however many
\* symbols bear the name.  Only an import that binds the name self takes the call away, as
\* every Rust `use m::{self, ..}` does.
OnItself(q) == IsPlain(q, "self") \/ IsPlain(q, "this")

SelfCallsArrive ==
    \A p \in ToSet(tables.pending), s \in ToSet(tables.symbols) :
        (/\ p.kind = "member" /\ OnItself(p.qualifier)
         /\ s.file = p.source.file /\ s.name = p.name /\ s # p.source
         /\ s.container # None /\ s.container = p.source.container
         /\ MatchedImports(Indexes(tables), p) = {}) =>
            \E e \in edges : SameSite(e, p) /\ e.target = s

Skeleton(tree) == [i \in DOMAIN tree |-> [tree[i] EXCEPT !.line = 0]]

OnlyMoved(old, new) ==
    \/ old = new
    \/ /\ None \notin {old, new}
       /\ Skeleton(old) = Skeleton(new)
       /\ \A i, j \in DOMAIN old : old[i].line < old[j].line <=> new[i].line < new[j].line

Drawn(es) == {[source |-> e.source, target |-> e.target, confidence |-> e.confidence] : e \in es}

\* "A symbol keeps its id when it only moves lines", and so do the edges between symbols.
MovesChangeNothing ==
    [][(\A f \in repo : OnlyMoved(content[f], content'[f])) =>
        ToSet(tables'.symbols) = ToSet(tables.symbols) /\ Drawn(edges') = Drawn(edges)]_vars

SymbolsOf(f, t) == EntriesAt(t.symbols, {k \in DOMAIN t.symbols : t.symbols[k].file = f})

\* "The first occurrence has no suffix so the common case stays stable when a duplicate
\* appears later": what is added below a file's symbols leaves them their ids.
IdsSurvive ==
    [][\A f \in repo :
        (None \notin {content[f], content'[f]} /\ IsPrefix(Skeleton(content[f]), Skeleton(content'[f]))) =>
            IsPrefix(SymbolsOf(f, tables), SymbolsOf(f, tables'))]_vars

SymbolsNamed(t, name) == {s \in ToSet(t.symbols) : s.name = name}

\* Two untouched files keep a call between them that was found in the file itself, or
\* through an import as long as the lookup is not cut, whatever else comes and goes.  An
\* import may lead back to its own file: that lookup is cut like any other.
SureTargetsStay ==
    [][\A e \in edges :
        (/\ \A f \in {e.source.file, e.target.file} : content'[f] = content[f]
         /\ e.confidence >= Confidence.SameFileBare
         /\ e.confidence # Confidence.ImportStrict \/ Cardinality(SymbolsNamed(tables', e.target.name)) <= Cap) =>
            \E d \in edges' : SameSite(d, e) /\ d.target = e.target]_vars

-----------------------------------------------------------------------------
\* dead_code, as far as it rests on the tables.
Uncalled == {s \in ToSet(tables.symbols) \ {e.target : e \in edges} :
                s.file \notin TestFiles /\ s.container # <<"tests">>}

\* A call to the name, from a line of its caller that has no edge at all.
HasPendingCall(s) ==
    \E p \in ToSet(tables.pending) : p.name = s.name /\ ~\E e \in edges : SameSite(e, p)

HasImport(s) ==
    \E i \in ToSet(tables.imports) : s.name \in {i.local, i.imported, i.alias}

\* classify_dead_code_candidate.
HighConfidence(s) ==
    /\ s.container = None /\ s.name \in Hidden /\ LanguageOf[s.file] # "typescript"
    /\ ~HasPendingCall(s) /\ ~HasImport(s)

\* What a report says of such a candidate: "private/local function has no incoming edges or
\* stored reference hints".  So every stored call to its name was resolved, if elsewhere.
HighMeansNoHints ==
    \A s \in Uncalled : HighConfidence(s) =>
        \A p \in ToSet(tables.pending) : p.name = s.name => ResolveCall(Indexes(tables), p).targets # {}
=============================================================================
