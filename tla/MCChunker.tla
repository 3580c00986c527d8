----------------------------- MODULE MCChunker -------------------------------
(* Instances of Chunker for TLC: small trees on two lines that end in every  *)
(* way, deeper ones below a wrapper, wide ones at the threshold of the error *)
(* rate, and broken ones.                                                    *)
EXTENDS Chunker

CONSTANT Languages

Lines == {<<"def", "x", "LF", "x">>, <<"def", "x", "x", "CR", "LF">>, <<"class", "x", "CR">>}

Kinds ==
    [Python |-> {"function_definition", "class_definition", "decorated_definition", "call",
                 "other"},
     TypeScript |-> {"function_declaration", "class_declaration", "method_definition",
                     "variable_declarator", "arrow_function"},
     Go |-> {"function_declaration", "method_declaration", "type_declaration", "type_spec",
            "struct_type"}]

Whole(src) == [kind |-> "root", up |-> 0, start |-> 0, end |-> Len(src), name |-> None,
               receiver |-> None]

Content(src) == {o \in 0 .. Len(src) - 1 : src[o + 1] \notin {"LF", "CR"}}

\* Whether a node of kind k with span s .. e can be the next one below node u.
Fits(t, k, u, s, e) ==
    /\ t[u].kind \notin {"call", "struct_type"}
    /\ k = "type_spec" => t[u].kind = "type_declaration"
    /\ s < e /\ e <= t[u].end
    /\ s >= t[u].start + (IF {k, t[u].kind} \subseteq Spanned THEN 1 ELSE 0)
    /\ \A m \in 2 .. Len(t) : t[m].up = u => t[m].end <= s
    /\ \A m \in u + 1 .. Len(t) : t[m].up >= u

\* A tree and its next node, whose span begins and ends in content; definition n is
\* named n, every callee 8 and every receiver's type 9.
Grow(lang, src, trees) ==
    UNION {{Append(t, [kind |-> f[1], up |-> f[2], start |-> f[3], end |-> f[4] + 1,
                       name |-> CASE f[1] = "call" -> 8 [] f[1] \in Spanned -> Len(t) + 1
                                  [] OTHER -> None,
                       receiver |-> IF f[1] = "method_declaration" THEN 9 ELSE None]) :
               f \in {g \in (Kinds[lang] \X (DOMAIN t) \X Content(src) \X Content(src)) :
                         Fits(t, g[1], g[2], g[3], g[4] + 1)}} : t \in trees}

Small ==
    UNION {{[lang |-> lang, source |-> src, node |-> t] :
               t \in Grow(lang, src, Grow(lang, src, Grow(lang, src, {<<Whole(src)>>})))} :
               lang \in Languages, src \in Lines}

\* One more level below a wrapper of the first statement.
Wrapped ==
    LET src == <<"def", "x", "LF", "x">>
        wrapper(kind) == [kind |-> kind, up |-> 1, start |-> 0, end |-> 4, name |-> 2,
                          receiver |-> None]
    IN  UNION {{[lang |-> w[1], source |-> src, node |-> t] :
                   t \in Grow(w[1], src, Grow(w[1], src, Grow(w[1], src,
                             {<<Whole(src), wrapper(w[2])>>})))} :
                   w \in {<<"Python", "decorated_definition">>,
                          <<"TypeScript", "variable_declarator">>,
                          <<"Go", "type_declaration">>}}

\* A row of statements, of which the last is broken.
Row(src, n, kind) ==
    [i \in 1 .. n |->
        IF i = 1 THEN Whole(src)
        ELSE [kind |-> IF i = n THEN kind ELSE "other", up |-> 1, start |-> Len(src),
              end |-> Len(src), name |-> None, receiver |-> None]]

Wide ==
    {[lang |-> "Python", source |-> src, node |-> Row(src, n, kind)] :
        src \in Lines, n \in 2 .. 7, kind \in {"other", "token", "ERROR"} \cup Erroneous}

Broken ==
    {[lang |-> "Python", source |-> src, node |-> Row(src, 2, "ERROR")] :
        src \in UNION {[1 .. n -> Byte] : n \in 0 .. 4}}

AllFiles == Small \cup Wrapped \cup Wide \cup Broken

=============================================================================
