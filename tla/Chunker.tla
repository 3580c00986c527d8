------------------------------- MODULE Chunker -------------------------------
(***************************************************************************)
(* How the chunks of one file come about: the walk that measures the       *)
(* tree's error rate, the extraction of definitions from a tree that can   *)
(* be trusted and the walk that collects their calls, or the split at      *)
(* header lines of a file whose tree is too broken.                        *)
(*                                                                         *)
(* A file is its language, its bytes and its tree as tree-sitter returns   *)
(* it, the nodes in preorder.  Of bytes only line ends are told apart, and *)
(* the first of a header with a name: "def" (or async def) and "class".    *)
(***************************************************************************)
EXTENDS Integers, Sequences, FiniteSets

CONSTANTS
    Files,  \* the files to chunk
    Name    \* names of definitions, callees and receiver types, as numbers

None == 0 \* no name

VARIABLES
    file,
    pc,
    cursor,   \* the node a TreeCursor is at
    climbing, \* whether it has seen that node and what is below it
    named,    \* error_rate's counters
    bad,
    todo,     \* the nodes that collect_chunks has yet to see, each with its parent's name
    chunks,
    calls     \* the calls collected so far

xvars == <<file, pc, cursor, climbing, named, bad, todo, chunks, calls>>

Byte == {"x", "def", "class", "LF", "CR"}

Token == {"token", "missing_token"} \* leaves without a name in the grammar

Erroneous == {"ERROR", "missing_token", "missing_name"}

Kind ==
    Token \cup Erroneous \cup {"root", "other", "call", "decorated_definition",
                "function_definition", "class_definition", "function_declaration", "variable_declarator",
                "arrow_function", "class_declaration", "method_definition",
                "method_declaration", "type_declaration", "type_spec", "struct_type"}

Node == [kind : Kind, up : Nat, start : Nat, end : Nat, name : Name \cup {None},
         receiver : Name \cup {None}]

File == [lang : {"Python", "TypeScript", "Go"}, source : Seq(Byte), node : Seq(Node)]

source == file.source
node == file.node
Root == 1

-----------------------------------------------------------------------------
(* Trees.                                                                  *)

Children(n) == {m \in DOMAIN node : node[m].up = n}

LaterSiblings(n) == {m \in Children(node[n].up) : m > n}

Least(S) == CHOOSE m \in S : \A k \in S : m <= k

\* In preorder, what comes after a and is not below it ends its subtree.
Ancestor(a, n) == a < n /\ \A m \in a + 1 .. n : node[m].up >= a

byte(offset) == IF offset < Len(source) THEN source[offset + 1] ELSE "end"

Newlines(offset) == Cardinality({k \in 1 .. offset : source[k] = "LF"})

-----------------------------------------------------------------------------
(* Definitions.                                                            *)

recognize_python(n) == node[n].kind \in {"function_definition", "class_definition"}

recognize_typescript(n) ==
    \/ node[n].kind \in {"function_declaration", "class_declaration", "method_definition"}
    \/ /\ node[n].kind = "variable_declarator"
       /\ \E c \in Children(n) : node[c].kind = "arrow_function"

type_specs(n) == {c \in Children(n) : node[c].kind = "type_spec"}

\* Of the types that one declaration may group, the first decides.
recognize_go(n) ==
    \/ node[n].kind \in {"function_declaration", "method_declaration"}
    \/ /\ node[n].kind = "type_declaration" /\ type_specs(n) # {}
       /\ \E c \in Children(Least(type_specs(n))) : node[c].kind = "struct_type"

recognize_definition(n) ==
    \/ file.lang = "Python" /\ recognize_python(n)
    \/ file.lang = "TypeScript" /\ recognize_typescript(n)
    \/ file.lang = "Go" /\ recognize_go(n)

span_node(n) ==
    IF file.lang = "Python" /\ node[node[n].up].kind = "decorated_definition"
    THEN node[n].up ELSE n

\* Whether the nearest ancestor of one of these kinds is of kind class.
NearestIs(n, class, others) ==
    \E a \in DOMAIN node :
        /\ Ancestor(a, n) /\ node[a].kind = class
        /\ \A b \in DOMAIN node :
              (Ancestor(b, n) /\ b > a) => node[b].kind \notin others \cup {class}

\* Mutant: the climb does not stop at a function.
python_parent_is_class_AnyClass(n) == NearestIs(n, "class_definition", {})

python_parent_is_class(n) == NearestIs(n, "class_definition", {"function_definition"})

ts_parent_is_class(n) ==
    NearestIs(n, "class_declaration",
              {"function_declaration", "arrow_function", "method_definition"})

symbol_type(n) ==
    CASE node[n].kind \in {"class_definition", "class_declaration"} -> "Class"
      [] node[n].kind = "type_declaration" -> "Struct"
      [] node[n].kind = "method_declaration" -> "Method"
      [] node[n].kind = "function_definition" /\ python_parent_is_class(n) -> "Method"
      [] node[n].kind = "method_definition" /\ ts_parent_is_class(n) -> "Method"
      [] OTHER -> "Function"

\* Mutant: every definition takes the byte after it along.
extend_to_line_end_Blindly(end) == IF end < Len(source) THEN end + 1 ELSE end

\* Mutant: every CR is taken for the first half of CR LF.
extend_to_line_end_CrLf(end) ==
    CASE byte(end) = "LF" -> end + 1
      [] byte(end) = "CR" -> end + 2
      [] OTHER -> end

extend_to_line_end(end) ==
    CASE byte(end) = "LF" -> end + 1
      [] byte(end) = "CR" /\ byte(end + 1) = "LF" -> end + 2
      [] byte(end) = "CR" /\ byte(end + 1) # "LF" -> end + 1
      [] OTHER -> end

\* Mutant: the last line is that of the extended end.
build_chunk_LateLine(n, parent) ==
    LET span == node[span_node(n)] end == extend_to_line_end(span.end)
    IN  [name |-> node[n].name, type |-> symbol_type(n), parent |-> parent,
         start_byte |-> span.start, end_byte |-> end,
         start_line |-> Newlines(span.start) + 1, end_line |-> Newlines(end) + 1,
         refs |-> {}, heuristic |-> FALSE]

\* The rows of a node count the newlines before its start and before its end.
build_chunk(n, parent) ==
    LET span == node[span_node(n)]
    IN  [name |-> node[n].name, type |-> symbol_type(n), parent |-> parent,
         start_byte |-> span.start, end_byte |-> extend_to_line_end(span.end),
         start_line |-> Newlines(span.start) + 1, end_line |-> Newlines(span.end) + 1,
         refs |-> {}, heuristic |-> FALSE]

-----------------------------------------------------------------------------
(* What tree-sitter's trees are like: preorder, spans that nest, and a     *)
(* definition that begins and ends in content, and before any in it.       *)
(* A decorator defines nothing, nor does a pattern that an arrow function  *)
(* is assigned to.                                                         *)

Spanned == {"decorated_definition", "function_definition", "class_definition",
            "function_declaration", "variable_declarator", "class_declaration",
            "method_definition", "method_declaration", "type_declaration"}

\* What is defined below n is c, or below c.
DefinedIn(n, c) ==
    \A m \in DOMAIN node : (Ancestor(n, m) /\ recognize_definition(m)) => m = c \/ Ancestor(c, m)

WellFormed ==
    /\ file \in File /\ node # <<>>
    /\ node[Root].kind = "root" /\ node[Root].up = 0
    /\ \A n \in DOMAIN node \ {Root} :
          /\ node[n].kind # "root"
          /\ \/ node[n].up = n - 1
             \/ node[n].up \in DOMAIN node /\ Ancestor(node[n].up, n - 1)
    /\ \A n \in DOMAIN node :
          /\ node[n].start <= node[n].end /\ node[n].end <= Len(source)
          /\ node[n].kind \in Token => Children(n) = {}
          /\ node[n].kind = "decorated_definition" =>
                \E c \in Children(n) : recognize_python(c) /\ DefinedIn(n, c)
          /\ node[n].kind = "variable_declarator" =>
                \A c \in Children(n) : node[c].kind = "arrow_function" => DefinedIn(n, c)
          /\ node[n].receiver # None => node[n].kind = "method_declaration"
          /\ node[n].kind \in Spanned =>
                /\ node[n].name # None /\ node[n].start < node[n].end
                /\ {byte(node[n].start), byte(node[n].end - 1)} \cap {"LF", "CR"} = {}
    /\ \A m, n \in DOMAIN node : m < n =>
          IF Ancestor(m, n)
          THEN /\ node[n].start >= node[m].start /\ node[n].end <= node[m].end
               /\ {node[m].kind, node[n].kind} \subseteq Spanned => node[n].start > node[m].start
          ELSE node[m].end <= node[n].start

XInit ==
    /\ file \in Files /\ WellFormed
    /\ pc = "measure" /\ cursor = Root /\ climbing = FALSE
    /\ named = 0 /\ bad = 0
    /\ todo = <<>> /\ chunks = <<>> /\ calls = <<>>

-----------------------------------------------------------------------------
(* The depth-first walk of error_rate and of collect_calls.                *)

\* After a node is seen: to its first child, or else to what comes after it.
goto_first_child ==
    \/ /\ Children(cursor) # {}
       /\ cursor' = Least(Children(cursor))
       /\ UNCHANGED climbing
    \/ /\ Children(cursor) = {}
       /\ climbing' = TRUE
       /\ UNCHANGED cursor

Measure ==
    /\ pc = "measure" /\ ~climbing
    /\ named' = named + (IF node[cursor].kind \in Token THEN 0 ELSE 1)
    /\ bad' = bad + (IF node[cursor].kind \in Erroneous THEN 1 ELSE 0)
    /\ goto_first_child
    /\ UNCHANGED <<file, pc, todo, chunks, calls>>

\* Only the call of a plain identifier has a callee's name.
CollectCall ==
    /\ pc = "calls" /\ ~climbing
    /\ calls' = IF node[cursor].kind = "call" /\ node[cursor].name # None
                THEN Append(calls, cursor) ELSE calls
    /\ goto_first_child
    /\ UNCHANGED <<file, pc, named, bad, todo, chunks>>

goto_next_sibling ==
    /\ pc \in {"measure", "calls"} /\ climbing
    /\ LaterSiblings(cursor) # {}
    /\ cursor' = Least(LaterSiblings(cursor))
    /\ climbing' = FALSE
    /\ UNCHANGED <<file, pc, named, bad, todo, chunks, calls>>

\* Mutant: the climb stops below the root.
goto_parent_BelowRoot ==
    /\ pc \in {"measure", "calls"} /\ climbing
    /\ LaterSiblings(cursor) = {} /\ cursor # Root /\ node[cursor].up # Root
    /\ cursor' = node[cursor].up
    /\ UNCHANGED <<file, pc, climbing, named, bad, todo, chunks, calls>>

goto_parent ==
    /\ pc \in {"measure", "calls"} /\ climbing
    /\ LaterSiblings(cursor) = {} /\ cursor # Root
    /\ cursor' = node[cursor].up
    /\ UNCHANGED <<file, pc, climbing, named, bad, todo, chunks, calls>>

WalkDone == climbing /\ cursor = Root

-----------------------------------------------------------------------------
(* The choice of the path, and the heuristic one.                          *)

should_fall_back == named > 0 /\ 5 * bad >= named

Headers ==
    {o \in 0 .. Len(source) - 1 : byte(o) \in {"def", "class"} /\ (o = 0 \/ byte(o - 1) = "LF")}

\* Mutant: a chunk ends with its header's line.
HeaderEnd_OneLine(o) ==
    Least({e \in o + 1 .. Len(source) : byte(e - 1) = "LF"} \cup {Len(source)})

HeaderEnd(o) == Least({h \in Headers : h > o} \cup {Len(source)})

line_range(start, end) ==
    [start |-> 1 + Newlines(start),
     end |-> 1 + Newlines(IF end - 1 > start THEN end - 1 ELSE start)]

heuristic_chunk(o) ==
    LET end == HeaderEnd(o) lines == line_range(o, end)
    IN  [name |-> None, type |-> IF byte(o) = "class" THEN "Class" ELSE "Function",
         parent |-> None, start_byte |-> o, end_byte |-> end,
         start_line |-> lines.start, end_line |-> lines.end, refs |-> {}, heuristic |-> TRUE]

\* The one increasing sequence of a set of numbers, as a set.
InOrder(S) ==
    {s \in [1 .. Cardinality(S) -> S] : \A i, j \in DOMAIN s : i < j => s[i] < s[j]}

FallBack ==
    /\ pc = "measure" /\ WalkDone /\ should_fall_back
    /\ \E h \in InOrder(Headers) : chunks' = [i \in DOMAIN h |-> heuristic_chunk(h[i])]
    /\ pc' = "done"
    /\ UNCHANGED <<file, cursor, climbing, named, bad, todo, calls>>

-----------------------------------------------------------------------------
(* extract_chunks: the pending calls of collect_chunks are the list todo.  *)

\* The children of n come before what is left of the list, as in the recursion.
Recurse(n, parent, rest) ==
    \E c \in InOrder(Children(n)) : todo' = [i \in DOMAIN c |-> <<c[i], parent>>] \o rest

TrustTree ==
    /\ pc = "measure" /\ WalkDone /\ ~should_fall_back
    /\ Recurse(Root, None, <<>>)
    /\ pc' = "extract"
    /\ UNCHANGED <<file, cursor, climbing, named, bad, chunks, calls>>

child == todo[1][1]
enclosing == todo[1][2]

\* Only a method of Go names its parent itself.
parent_override == node[child].receiver # None

\* Mutant: what is below a definition is not looked at.
CollectDefinition_Flat ==
    /\ pc = "extract" /\ todo # <<>> /\ recognize_definition(child)
    /\ chunks' = Append(chunks, build_chunk(child, enclosing))
    /\ todo' = Tail(todo)
    /\ UNCHANGED <<file, pc, cursor, climbing, named, bad, calls>>

\* Mutant: the parent stays the outermost definition.
CollectDefinition_Outermost ==
    /\ pc = "extract" /\ todo # <<>> /\ recognize_definition(child)
    /\ chunks' = Append(chunks, build_chunk(child, enclosing))
    /\ Recurse(child, IF enclosing = None THEN node[child].name ELSE enclosing, Tail(todo))
    /\ UNCHANGED <<file, pc, cursor, climbing, named, bad, calls>>

CollectDefinition ==
    /\ pc = "extract" /\ todo # <<>> /\ recognize_definition(child)
    /\ chunks' = Append(chunks, build_chunk(child, IF parent_override THEN node[child].receiver
                                             ELSE enclosing))
    /\ Recurse(child, node[child].name, Tail(todo))
    /\ UNCHANGED <<file, pc, cursor, climbing, named, bad, calls>>

CollectOther ==
    /\ pc = "extract" /\ todo # <<>> /\ ~recognize_definition(child)
    /\ Recurse(child, enclosing, Tail(todo))
    /\ UNCHANGED <<file, pc, cursor, climbing, named, bad, chunks, calls>>

\* A stable sort, as the set of its one result.
sort_by_start_byte(cs) ==
    {[i \in DOMAIN cs |-> cs[p[i]]] :
        p \in {q \in [DOMAIN cs -> DOMAIN cs] :
                 \A i, j \in DOMAIN cs :
                    i < j => \/ cs[q[i]].start_byte < cs[q[j]].start_byte
                             \/ cs[q[i]].start_byte = cs[q[j]].start_byte /\ q[i] < q[j]}}

Extracted ==
    /\ pc = "extract" /\ todo = <<>>
    /\ chunks' \in sort_by_start_byte(chunks)
    /\ pc' = "calls" /\ cursor' = Root /\ climbing' = FALSE
    /\ UNCHANGED <<file, named, bad, todo, calls>>

call_names_in_span(start, end) ==
    {node[calls[k]].name : k \in {l \in DOMAIN calls :
        node[calls[l]].start >= start /\ node[calls[l]].end <= end}}

\* The order of the chunks is that of extract_chunks; it is sorted again.
Enrich ==
    /\ pc = "calls" /\ WalkDone
    /\ chunks' \in sort_by_start_byte(
           [i \in DOMAIN chunks |->
               [chunks[i] EXCEPT !.refs = call_names_in_span(chunks[i].start_byte,
                                                             chunks[i].end_byte)]])
    /\ pc' = "done"
    /\ UNCHANGED <<file, cursor, climbing, named, bad, todo, calls>>

-----------------------------------------------------------------------------
XNext ==
    \/ Measure \/ CollectCall \/ goto_next_sibling \/ goto_parent
    \/ FallBack \/ TrustTree
    \/ CollectDefinition \/ CollectOther \/ Extracted \/ Enrich

\* A file is chunked without interruption.
XSpec == XInit /\ [][XNext]_xvars /\ WF_xvars(XNext)

-----------------------------------------------------------------------------
Chunk ==
    [name : Name \cup {None}, type : {"Function", "Class", "Method", "Struct"},
     parent : Name \cup {None}, start_byte : Nat, end_byte : Nat, start_line : Nat, end_line : Nat,
     refs : SUBSET Name, heuristic : BOOLEAN]

\* The shape of every variable; the spans of chunks lie in the file.
XTypeOK ==
    /\ file \in File
    /\ pc \in {"measure", "extract", "calls", "done"}
    /\ cursor \in DOMAIN node /\ climbing \in BOOLEAN
    /\ named \in Nat /\ bad \in Nat
    /\ todo \in Seq((DOMAIN node) \X (Name \cup {None}))
    /\ chunks \in Seq(Chunk)
    /\ \A i \in DOMAIN chunks :
          chunks[i].start_byte < chunks[i].end_byte /\ chunks[i].end_byte <= Len(source)
    /\ calls \in Seq(DOMAIN node)

Encloses(c, d) == c.start_byte <= d.start_byte /\ d.end_byte <= c.end_byte

Disjoint(c, d) == c.end_byte <= d.start_byte \/ d.end_byte <= c.start_byte

\* Two chunks of a file are disjoint or strictly nested, line ends included:
\* what the retriever's dedup takes for granted.
Laminar ==
    \A i, j \in DOMAIN chunks : i # j =>
        \/ Disjoint(chunks[i], chunks[j])
        \/ Encloses(chunks[i], chunks[j]) /\ ~Encloses(chunks[j], chunks[i])
        \/ Encloses(chunks[j], chunks[i]) /\ ~Encloses(chunks[i], chunks[j])

\* The chunks that enclose chunk i, and the smallest of them.
Around(i) == {j \in DOMAIN chunks \ {i} : Encloses(chunks[j], chunks[i])}

Innermost(i) == {j \in Around(i) : \A k \in Around(i) : Encloses(chunks[k], chunks[j])}

\* The parent of a chunk is the smallest chunk around it, but for Go's methods.
ParentIsInnermost ==
    pc = "done" =>
        \A i \in DOMAIN chunks : (file.lang = "Go" /\ chunks[i].type = "Method") \/
            IF Around(i) = {} THEN chunks[i].parent = None
            ELSE ~chunks[i].heuristic /\ \E j \in Innermost(i) : chunks[i].parent = chunks[j].name

\* A method is one of the class around it; in Python each function there is one.
MethodsAreOfClasses ==
    (pc = "done" /\ file.lang # "Go") =>
        \A i \in DOMAIN chunks :
            LET inClass == \E j \in Innermost(i) : chunks[j].type = "Class"
            IN  /\ chunks[i].type = "Method" => inClass
                /\ (file.lang = "Python" /\ inClass) => chunks[i].type # "Function"

\* Both paths give a chunk the lines of its first and of its last byte, whose own
\* line end does not count.
LinesAgree ==
    \A i \in DOMAIN chunks :
        /\ chunks[i].start_line = 1 + Newlines(chunks[i].start_byte)
        /\ chunks[i].end_line = 1 + Newlines(chunks[i].end_byte - 1)

\* The chunks of the heuristic path tile the file from its first header.
FallbackTiles ==
    (chunks # <<>> /\ chunks[1].heuristic) =>
        /\ chunks[Len(chunks)].end_byte = Len(source)
        /\ \A i \in 1 .. Len(chunks) - 1 : chunks[i].end_byte = chunks[i + 1].start_byte
        /\ \A o \in Headers : \E i \in DOMAIN chunks : chunks[i].start_byte = o

\* Nothing is skipped or seen twice: every node counts once for the error rate,
\* every definition has one chunk and every call is a reference of each chunk
\* that it is in.
NothingSkipped ==
    /\ pc # "measure" =>
          /\ named = Cardinality({n \in DOMAIN node : node[n].kind \notin Token})
          /\ bad = Cardinality({n \in DOMAIN node : node[n].kind \in Erroneous})
    /\ pc = "calls" =>
          Len(chunks) = Cardinality({n \in DOMAIN node \ {Root} : recognize_definition(n)})
    /\ pc = "done" =>
          \A i \in DOMAIN chunks, n \in DOMAIN node :
              (~chunks[i].heuristic /\ node[n].kind = "call" /\ node[n].name # None) =>
                  (Encloses(chunks[i], [start_byte |-> node[n].start, end_byte |-> node[n].end])
                      => node[n].name \in chunks[i].refs)

\* Every file is chunked in the end: the walks leave the tree.
ChunksEnd == <>(pc = "done")

=============================================================================
