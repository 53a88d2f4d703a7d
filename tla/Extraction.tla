------------------------------ MODULE Extraction ------------------------------
(***************************************************************************)
(* What one file contributes to the graph (extractors/): symbols, imports  *)
(* and calls, from one walk over its syntax tree.                          *)
(*                                                                         *)
(* A tree is the sequence of its nodes in the order of the walk, each with *)
(* its depth.  Nodes that no rule below asks about, as the node itself, an *)
(* ancestor or a parent, are left out.  A node's other fields are the      *)
(* children tree-sitter names; None is a child that is missing or has no   *)
(* text.  A dotted or slashed name is [rel, parts], where rel counts what  *)
(* makes it relative: Python's leading dots, the leading dot of a          *)
(* TypeScript path, Rust's `crate`.                                        *)
(***************************************************************************)
EXTENDS Naturals, FiniteSets, SequencesExt, Ordering

CONSTANT None       \* no child, container, qualifier or name

\* A name with a brace in it: nothing in any program is called that.
Torn == "{"

Dotted(rel, parts) == [rel |-> rel, parts |-> parts]

-----------------------------------------------------------------------------
\* LangSpec::symbol_candidate: the nodes that define symbols, and the kinds of these.
SymbolKinds ==
    [python |-> [class_definition |-> "class", function_definition |-> "function"],
     typescript |-> [class_declaration |-> "class", function_declaration |-> "function",
                     method_definition |-> "method", variable_declarator |-> "function"],
     rust |-> [function_item |-> "function", struct_item |-> "struct", enum_item |-> "enum",
               union_item |-> "struct", trait_item |-> "trait", type_item |-> "type",
               mod_item |-> "module"],
     go |-> [function_declaration |-> "function", method_declaration |-> "method",
             type_spec |-> "type"]]

DefinesSymbol(lang, n) ==
    /\ n.kind \in DOMAIN SymbolKinds[lang]
    /\ n.kind = "variable_declarator" => n.value \in {"arrow_function", "function", "function_expression"}
    /\ n.name # None

Ancestors(tree, i) == {j \in 1..(i - 1) : \A k \in (j + 1)..i : tree[k].depth > tree[j].depth}

\* normalize_rust_type and normalize_go_receiver: the last part of what stands there.  A
\* receiver is split at its spaces, so that of `m *Map[K, V]` the part "V]" remains.
LastPart(parts) == IF parts = <<>> THEN None ELSE Last(parts)

\* rust_impl_ancestor, however many functions and modules lie in between.
ImplType(tree, i) ==
    LET impls == {j \in Ancestors(tree, i) : tree[j].kind = "impl_item"}
    IN  IF impls = {} THEN None ELSE LastPart(tree[Max(impls)].type)

\* LangSpec::symbol_container: a container other than the symbol around the node.
ContainerElsewhere(lang, tree, i) ==
    CASE lang = "rust" /\ tree[i].kind = "function_item" -> ImplType(tree, i)
      [] lang = "go" /\ tree[i].kind = "method_declaration" -> LastPart(tree[i].receiver)
      [] OTHER -> None

-----------------------------------------------------------------------------
CallNode == [python |-> "call", typescript |-> "call_expression", rust |-> "call_expression",
             go |-> "call_expression"]

\* What may stand before the arguments, and the shape of call it makes.
Callees ==
    [python |-> [identifier |-> "bare", attribute |-> "member"],
     typescript |-> [identifier |-> "bare", member_expression |-> "member"],
     rust |-> [identifier |-> "bare", field_expression |-> "member", scoped_identifier |-> "scoped"],
     go |-> [identifier |-> "bare", selector_expression |-> "member"]]

\* PY_SKIP, JS_SKIP, RUST_SKIP, GO_SKIP.
Skipped ==
    [python |-> {"print", "len", "str", "int", "float", "bool", "list", "dict", "set", "tuple",
                 "super", "isinstance", "range"},
     typescript |-> {"console", "log", "map", "filter", "reduce", "then", "catch", "setTimeout",
                     "Promise", "require"},
     rust |-> {"Some", "Ok", "Err", "None", "Box"},
     go |-> {"make", "len", "cap", "append", "panic", "recover", "new", "print", "println",
             "close", "delete", "copy"}]

\* LangSpec::call_target.
CallsSomething(lang, n) ==
    /\ n.kind = CallNode[lang]
    /\ n.func.kind \in DOMAIN Callees[lang]
    /\ n.func.name \notin Skipped[lang] \union {None}

CallTarget(lang, n) ==
    LET shape == Callees[lang][n.func.kind]
    IN  [name |-> n.func.name, kind |-> shape,
         qualifier |-> IF shape = "bare" THEN None ELSE n.func.object]

-----------------------------------------------------------------------------
Import(module, name, alias) ==
    [module |-> module, imported |-> name, alias |-> alias, local |-> IF alias # None THEN alias ELSE name]

Named(bindings) == EntriesAt(bindings, {k \in DOMAIN bindings : bindings[k].name # None})

\* `import a.b` binds a; `from m import x as y` binds y to m's x.
PythonImports(n) ==
    CASE n.kind = "import_statement" ->
            [k \in DOMAIN n.names |->
                [Import(n.names[k].module, None, n.names[k].alias) EXCEPT
                    !.local = IF @ # None THEN @ ELSE Head(n.names[k].module.parts)]]
      [] n.kind = "import_from_statement" ->
            LET names == Named(n.names)
            IN  [k \in DOMAIN names |-> Import(n.module, names[k].name, names[k].alias)]
      [] OTHER -> <<>>

\* collect_ts_import_bindings: a specifier, the whole module under a name, the default export.
Binding(module, b) ==
    CASE b.kind = "import_specifier" -> Import(module, b.name, b.alias)
      [] b.kind = "namespace_import" -> Import(module, None, b.name)
      [] b.kind = "identifier" -> [Import(module, "default", None) EXCEPT !.local = b.name]

TypeScriptImports(tree, i) ==
    LET n == tree[i]
        around == Ancestors(tree, i)
        declared == around # {} /\ tree[Max(around)].kind = "variable_declarator"
    IN  CASE n.kind = "import_statement" /\ n.module # None ->
                LET bound == Named(n.bindings)
                IN  IF bound = <<>> THEN <<Import(n.module, None, None)>>
                    ELSE [k \in DOMAIN bound |-> Binding(n.module, bound[k])]
          [] /\ n.kind = "call_expression" /\ n.func.kind = "identifier"
             /\ n.func.name = "require" /\ n.argument # None ->
                <<[Import(n.argument, None, None) EXCEPT
                    !.local = IF declared THEN tree[Max(around)].name ELSE None]>>
          [] OTHER -> <<>>

\* What splitting a group at its commas makes of a group within it: the brace stays with
\* the first name or with the last, and only the first keeps its path.
Pieces(item) ==
    IF item.group = None THEN <<[path |-> item.path, alias |-> item.alias]>>
    ELSE LET last == Len(item.group)
             opened(k) == IF k # 1 THEN item.group[k].path
                          ELSE item.path \o <<Torn>> \o Tail(item.group[k].path)
             closed(k) == IF k = last /\ item.group[k].alias = None
                          THEN Append(Front(opened(k)), Torn) ELSE opened(k)
         IN  [k \in 1..last |->
                [path |-> closed(k),
                 alias |-> IF k = last /\ item.group[k].alias # None THEN Torn ELSE item.group[k].alias]]

\* collect_rust_use.  The path of `use {a, b}` is empty, and it is no group to the code.
UseItems(n) ==
    CASE n.group = None -> <<[path |-> n.path.parts, alias |-> n.alias]>>
      [] n.path.rel = 0 /\ n.path.parts = <<>> -> <<[path |-> <<Torn, Torn>>, alias |-> None]>>
      [] OTHER ->
            LET items == FlattenSeq([k \in DOMAIN n.group |-> Pieces(n.group[k])])
            IN  [k \in DOMAIN items |->
                    [path |-> n.path.parts \o items[k].path, alias |-> items[k].alias]]

\* collect_single_rust_use: no import without a "::".
RustImports(n) ==
    IF n.kind # "use_declaration" THEN <<>>
    ELSE LET items == UseItems(n)
             uses == EntriesAt(items, {k \in DOMAIN items : n.path.rel + Len(items[k].path) >= 2})
         IN  [k \in DOMAIN uses |->
                Import(Dotted(n.path.rel, Front(uses[k].path)), Last(uses[k].path), uses[k].alias)]

\* The last component of the path, unless there is a name that binds.
GoImports(n) ==
    IF n.kind # "import_spec" \/ n.module = None THEN <<>>
    ELSE LET alias == IF n.alias \in {".", "_"} THEN None ELSE n.alias
         IN  <<[Import(n.module, None, alias) EXCEPT
                    !.local = IF @ # None THEN @ ELSE Last(n.module.parts)]>>

\* LangSpec::collect_import.
Imports(lang, tree, i) ==
    CASE lang = "python" -> PythonImports(tree[i])
      [] lang = "typescript" -> TypeScriptImports(tree, i)
      [] lang = "rust" -> RustImports(tree[i])
      [] lang = "go" -> GoImports(tree[i])

-----------------------------------------------------------------------------
\* The children that the rules ask a node for, besides the name of a symbol and the
\* function and argument of a call.
OtherChildren ==
    [python |-> [import_statement |-> {"names"}, import_from_statement |-> {"module", "names"}],
     typescript |-> [import_statement |-> {"module", "bindings"}, variable_declarator |-> {"value"}],
     rust |-> [impl_item |-> {"type"}, use_declaration |-> {"path", "group", "alias"}],
     go |-> [method_declaration |-> {"receiver"}, import_spec |-> {"module", "alias"}]]

HasChildren(lang, n) ==
    /\ {"kind", "depth", "line"} \subseteq DOMAIN n
    /\ n.kind \in DOMAIN SymbolKinds[lang] => "name" \in DOMAIN n
    /\ n.kind = CallNode[lang] => {"func", "argument"} \subseteq DOMAIN n
    /\ n.kind \in DOMAIN OtherChildren[lang] => OtherChildren[lang][n.kind] \subseteq DOMAIN n

IsList(s) == s \in Seq(ToSet(s))

\* What the parser gives: nodes have their children, and lists are lists.
IsTree(lang, tree) ==
    /\ IsList(tree)
    /\ \A i \in DOMAIN tree :
          LET n == tree[i]
          IN  /\ HasChildren(lang, n) /\ n.line \in Nat
              /\ lang = "python" /\ n.kind \in {"import_statement", "import_from_statement"} => IsList(n.names)
              /\ lang = "typescript" /\ n.kind = "import_statement" /\ n.module # None => IsList(n.bindings)
              /\ lang = "rust" /\ n.kind = "use_declaration" /\ n.group # None =>
                    /\ IsList(n.group)
                    /\ \A k \in DOMAIN n.group : n.group[k].group # None => IsList(n.group[k].group)

-----------------------------------------------------------------------------
\* A symbol's id is a hash of its file, its qualified name, its kind and its number among
\* those that share them; the qualified name is the container's with the name after it.
QualifiedName(s) == IF s.container = None THEN <<s.name>> ELSE Append(s.container, s.name)

NoOccurrence(symbols, s) == 0

\* symbol_id's ordinal: how many of the qualified name and kind came before.
Occurrence(symbols, s) ==
    Cardinality({k \in DOMAIN symbols : QualifiedName(symbols[k]) = QualifiedName(s) /\ symbols[k].kind = s.kind})

Container(lang, tree, i, stack) ==
    LET elsewhere == ContainerElsewhere(lang, tree, i)
    IN  IF elsewhere # None THEN <<elsewhere>>
        ELSE IF stack = <<>> THEN None ELSE QualifiedName(Last(stack).symbol)

SymbolWithLine(file, lang, tree, i, stack, symbols) ==
    [file |-> file, name |-> tree[i].name, container |-> Container(lang, tree, i, stack),
     kind |-> SymbolKinds[lang][tree[i].kind], nth |-> tree[i].line]

SymbolCountingDown(file, lang, tree, i, stack, symbols) ==
    [SymbolWithLine(file, lang, tree, i, stack, symbols) EXCEPT
        !.nth = Cardinality({j \in (i + 1)..Len(tree) :
                                tree[j].kind = tree[i].kind /\ tree[j].name = tree[i].name})]

\* The symbol that the i-th node defines within the symbols on the stack.
SymbolAt(file, lang, tree, i, stack, symbols) ==
    LET s == [file |-> file, name |-> tree[i].name, container |-> Container(lang, tree, i, stack),
              kind |-> SymbolKinds[lang][tree[i].kind], nth |-> 0]
    IN  [s EXCEPT !.nth = Occurrence(symbols, s)]

\* The frames that are still open at a node: those of the symbols around it.
Enclosing(stack, depth) == EntriesAt(stack, {k \in DOMAIN stack : stack[k].depth < depth})

ImportRow(file, line, import) ==
    [file |-> file, line |-> line, module |-> import.module, imported |-> import.imported,
     alias |-> import.alias, local |-> import.local]

CallRow(source, line, target) ==
    [source |-> source, line |-> line, name |-> target.name, kind |-> target.kind, qualifier |-> target.qualifier]

\* visit: imports; the call, for the innermost symbol or for nobody; the symbol, which its
\* own node's call does not yet belong to.
Visit(file, lang, tree, i, walk) ==
    LET n == tree[i]
        stack == Enclosing(walk.stack, n.depth)
        symbol == SymbolAt(file, lang, tree, i, stack, walk.symbols)
        imports == Imports(lang, tree, i)
    IN  [imports |-> walk.imports \o
            [k \in DOMAIN imports |-> ImportRow(file, n.line, imports[k])],
         calls |-> IF CallsSomething(lang, n) /\ stack # <<>>
                   THEN Append(walk.calls, CallRow(Last(stack).symbol, n.line, CallTarget(lang, n)))
                   ELSE walk.calls,
         symbols |-> IF DefinesSymbol(lang, n) THEN Append(walk.symbols, symbol) ELSE walk.symbols,
         stack |-> IF DefinesSymbol(lang, n) THEN Append(stack, [depth |-> n.depth, symbol |-> symbol])
                   ELSE stack]

\* extract_with.
Extract(file, lang, tree) ==
    LET after[i \in 0..Len(tree)] ==
          IF i = 0 THEN [imports |-> <<>>, calls |-> <<>>, symbols |-> <<>>, stack |-> <<>>]
          ELSE Visit(file, lang, tree, i, after[i - 1])
    IN  after[Len(tree)]
=============================================================================
