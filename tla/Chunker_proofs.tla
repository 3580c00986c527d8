--------------------------- MODULE Chunker_proofs ----------------------------
(***************************************************************************)
(* For files of any size, any language and any tree that tree-sitter may   *)
(* return: the chunks are well-formed and laminar, their lines are those   *)
(* of their bytes, each has the innermost definition around it for parent  *)
(* and a type that agrees with it, and the walks skip nothing.             *)
(***************************************************************************)
EXTENDS Chunker, FiniteSetTheorems, WellFoundedInduction, TLAPS

LEMMA LeastIs ==
    ASSUME NEW S \in SUBSET Nat, S # {}
    PROVE  Least(S) \in S /\ \A k \in S : Least(S) <= k
<1>1. PICK m \in S : \A k \in S : <<k, m>> \notin OpToRel(<, Nat)
  BY NatLessThanWellFounded, WFMin
<1>2. \A k \in S : ~(k < m)
  BY <1>1 DEF OpToRel
<1>3. \A k \in S : m <= k
  BY <1>2
<1> QED
  BY <1>3 DEF Least

LEMMA BoundedFinite ==
    ASSUME NEW S, NEW n \in Nat, \A k \in S : k \in Nat /\ k <= n
    PROVE  IsFiniteSet(S) /\ Cardinality(S) \in Nat
<1>1. S \in SUBSET Nat /\ \A k \in S : k <= n
  OBVIOUS
<1>2. IsFiniteSet(S)
  BY <1>1, FS_BoundedSetOfNaturals
<1> QED
  BY <1>2, FS_CardinalityType

LEMMA NewlinesIs ==
    ASSUME NEW o \in Nat
    PROVE  Newlines(o) \in Nat
<1> DEFINE S == {k \in 1 .. o : source[k] = "LF"}
<1>1. \A k \in S : k \in Nat /\ k <= o
  OBVIOUS
<1>2. Cardinality(S) \in Nat
  BY <1>1, BoundedFinite
<1> QED
  BY <1>2 DEF Newlines

-----------------------------------------------------------------------------
(* Trees.                                                                  *)

LEMMA TreeIs ==
    ASSUME WellFormed
    PROVE  /\ source \in Seq(Byte) /\ node \in Seq(Node) /\ Len(source) \in Nat
           /\ Len(node) \in Nat /\ DOMAIN node = 1 .. Len(node) /\ Root \in DOMAIN node
           /\ \A n \in DOMAIN node : node[n] \in Node
BY DEF WellFormed, File, source, node, Root

LEMMA RecognizedIs ==
    ASSUME WellFormed, NEW n \in DOMAIN node, recognize_definition(n)
    PROVE  /\ node[n].kind \in Spanned \ {"decorated_definition"} /\ n # Root
           /\ file.lang = "Python" => recognize_python(n)
BY DEF WellFormed, recognize_definition, recognize_python, recognize_typescript, recognize_go,
       Spanned

LEMMA UpIs ==
    ASSUME WellFormed, NEW n \in DOMAIN node \ {Root}
    PROVE  node[n].up \in DOMAIN node /\ node[n].up < n /\ Ancestor(node[n].up, n)
<1>1. CASE node[n].up = n - 1
  BY <1>1, TreeIs DEF Ancestor, Root
<1>2. CASE node[n].up \in DOMAIN node /\ Ancestor(node[n].up, n - 1)
  BY <1>2, TreeIs DEF Ancestor, Root
<1> QED
  BY <1>1, <1>2 DEF WellFormed

LEMMA SpanIs ==
    ASSUME WellFormed, NEW n \in DOMAIN node, recognize_definition(n)
    PROVE  span_node(n) \in DOMAIN node /\ node[span_node(n)].kind \in Spanned
<1>1. node[n].kind \in Spanned /\ n # Root /\ node[n].up \in DOMAIN node
  BY RecognizedIs, UpIs
<1>2. CASE span_node(n) = n
  BY <1>1, <1>2
<1>3. CASE span_node(n) = node[n].up /\ node[node[n].up].kind = "decorated_definition"
  BY <1>1, <1>3 DEF Spanned
<1> QED
  BY <1>2, <1>3 DEF span_node

LEMMA ChildrenFinite ==
    ASSUME WellFormed, NEW S \in SUBSET DOMAIN node
    PROVE  IsFiniteSet(S) /\ Cardinality(S) \in Nat
<1>1. Len(node) \in Nat /\ \A k \in S : k \in Nat /\ k <= Len(node)
  BY TreeIs
<1> QED
  BY <1>1, BoundedFinite

\* What comes after n and is not below it comes after what is below n.
LEMMA ChildIs ==
    ASSUME WellFormed, NEW n \in DOMAIN node, NEW c \in Children(n)
    PROVE  /\ c \in DOMAIN node /\ n < c
           /\ \A t \in DOMAIN node : (n < t /\ ~Ancestor(n, t)) => c < t /\ ~Ancestor(c, t)
           /\ \A d \in Children(n) : ~Ancestor(c, d)
<1>0. c \in DOMAIN node /\ node[c].up = n /\ DOMAIN node = 1 .. Len(node) /\ Len(node) \in Nat
  BY TreeIs DEF Children
<1>1. c # Root
  BY <1>0 DEF WellFormed, Root
<1>2. n < c /\ \A m \in n + 1 .. c : node[m].up >= n
  BY <1>0, <1>1, UpIs DEF Ancestor
<1>3. \A m \in DOMAIN node : node[m].up \in Nat
  BY TreeIs DEF Node
<1>4. ASSUME NEW t \in DOMAIN node, n < t, ~Ancestor(n, t)
      PROVE  c < t /\ ~Ancestor(c, t)
  <2>1. PICK m \in n + 1 .. t : ~(node[m].up >= n)
    BY <1>4 DEF Ancestor
  <2>2. m > c
    BY <1>0, <1>2, <2>1
  <2>3. m \in c + 1 .. t /\ m \in DOMAIN node
    BY <1>0, <2>1, <2>2
  <2>4. ~(node[m].up >= c)
    BY <1>0, <1>2, <1>3, <2>1, <2>3
  <2> QED
    BY <1>0, <2>1, <2>2, <2>3, <2>4 DEF Ancestor
<1>5. ASSUME NEW d \in Children(n), Ancestor(c, d)
      PROVE  FALSE
  <2>1. d \in DOMAIN node /\ node[d].up = n
    BY <1>5 DEF Children
  <2>2. c < d /\ node[d].up >= c
    BY <1>0, <1>5, <2>1 DEF Ancestor
  <2> QED
    BY <1>0, <1>2, <2>1, <2>2
<1> QED
  BY <1>0, <1>2, <1>4, <1>5

\* Ancestors of one node are below each other.
LEMMA AncestorIs ==
    ASSUME WellFormed, NEW a \in DOMAIN node, NEW b \in DOMAIN node, NEW n \in DOMAIN node
    PROVE  /\ Ancestor(a, b) /\ Ancestor(b, n) => Ancestor(a, n)
           /\ Ancestor(a, n) /\ a < b /\ b < n => Ancestor(a, b)
           /\ Ancestor(a, b) => a < b
<1>1. \A m \in DOMAIN node : node[m].up \in Nat
  BY TreeIs DEF Node
<1>2. DOMAIN node = 1 .. Len(node) /\ Len(node) \in Nat
  BY TreeIs
<1>3. ASSUME Ancestor(a, b), Ancestor(b, n) PROVE Ancestor(a, n)
  <2>1. a < b /\ b < n BY <1>3 DEF Ancestor
  <2>2. ASSUME NEW m \in a + 1 .. n PROVE node[m].up >= a
    <3>1. CASE m <= b BY <1>2, <1>3, <2>1, <2>2, <3>1 DEF Ancestor
    <3>2. CASE m > b
      <4>1. m \in b + 1 .. n /\ m \in DOMAIN node BY <1>2, <2>2, <3>2
      <4>2. node[m].up >= b BY <1>3, <4>1 DEF Ancestor
      <4> QED BY <1>1, <1>2, <2>1, <4>1, <4>2
    <3> QED BY <1>2, <2>2, <3>1, <3>2
  <2> QED BY <1>2, <2>1, <2>2 DEF Ancestor
<1>4. ASSUME Ancestor(a, n), a < b, b < n PROVE Ancestor(a, b)
  BY <1>2, <1>4 DEF Ancestor
<1> QED BY <1>3, <1>4 DEF Ancestor

\* Below a comes its last child up to n, and n is that one or below it.
LEMMA ChildOn ==
    ASSUME WellFormed, NEW a \in DOMAIN node, NEW n \in DOMAIN node, Ancestor(a, n)
    PROVE  \E c \in Children(a) : n = c \/ Ancestor(c, n)
<1> DEFINE S == {x \in Nat : n - x \in Children(a) /\ n - x <= n}
<1>0. /\ DOMAIN node = 1 .. Len(node) /\ Len(node) \in Nat /\ a < n
      /\ \A m \in DOMAIN node : node[m].up \in Nat
  BY TreeIs DEF Node, Ancestor
<1>1. a + 1 \in Children(a)
  <2>1. a + 1 \in DOMAIN node /\ node[a + 1].up >= a BY <1>0 DEF Ancestor
  <2>2. node[a + 1].up < a + 1 BY <1>0, <2>1, UpIs DEF Root
  <2> QED BY <1>0, <2>1, <2>2 DEF Children
<1>2. n - (a + 1) \in S
  <2>1. n - (a + 1) \in Nat /\ n - (n - (a + 1)) = a + 1 BY <1>0
  <2> QED BY <1>0, <1>1, <2>1
<1>3. PICK x \in S : \A y \in S : x <= y
  <2>1. S \in SUBSET Nat /\ S # {} BY <1>2
  <2> HIDE DEF S
  <2> QED BY <2>1, LeastIs
<1> DEFINE c == n - x
<1>4. c \in Children(a) /\ c <= n /\ c \in DOMAIN node /\ a < c /\ c = n - x
  BY <1>3, ChildIs DEF Children
<1> HIDE DEF c
<1>5. ASSUME NEW k \in c + 1 .. n PROVE node[k].up >= c
  <2>1. k \in DOMAIN node /\ k # Root /\ k \in a + 1 .. n BY <1>0, <1>4 DEF Root
  <2>2. node[k].up >= a /\ node[k].up \in DOMAIN node /\ Ancestor(node[k].up, k)
    BY <2>1, UpIs DEF Ancestor
  <2>3. node[k].up # a
    <3>1. SUFFICES ASSUME node[k].up = a PROVE FALSE OBVIOUS
    <3>2. k \in Children(a) BY <2>1, <3>1 DEF Children
    <3>3. n - k \in Nat /\ n - (n - k) = k /\ n - k < x
      <4>1. x \in Nat /\ n \in Nat /\ k \in Nat BY <1>0, <1>3, <2>1
      <4>2. k <= n /\ n - x < k BY <1>0, <1>4, <2>1
      <4> QED BY <4>1, <4>2
    <3>4. n - k \in S BY <1>0, <2>1, <3>2, <3>3
    <3> QED BY <1>3, <3>3, <3>4
  <2>4. SUFFICES ASSUME node[k].up < c PROVE FALSE BY <1>0, <1>4, <2>1
  <2>5. node[c].up >= node[k].up
    <3>1. c \in node[k].up + 1 .. k BY <1>0, <1>4, <2>1, <2>2, <2>4
    <3> QED BY <2>2, <3>1 DEF Ancestor
  <2> QED BY <1>0, <1>4, <2>2, <2>3, <2>5 DEF Children
<1>6. n = c \/ Ancestor(c, n)
  <2>1. c \in Nat /\ n \in Nat /\ (n = c \/ c < n) BY <1>0, <1>4
  <2> QED BY <1>5, <2>1 DEF Ancestor
<1> QED BY <1>4, <1>6

-----------------------------------------------------------------------------
(* The walk of a cursor.                                                   *)

\* The nodes seen when the cursor is at c: those before it, or, when it
\* climbs, also c and those below it.
SeenAt(c, climbs) ==
    IF climbs THEN {m \in DOMAIN node : m <= c \/ Ancestor(c, m)} ELSE {m \in DOMAIN node : m < c}

LEMMA SeeNode ==
    ASSUME WellFormed, NEW c \in DOMAIN node
    PROVE  /\ Children(c) # {} => SeenAt(Least(Children(c)), FALSE) = SeenAt(c, FALSE) \cup {c}
           /\ Children(c) = {} => SeenAt(c, TRUE) = SeenAt(c, FALSE) \cup {c}
           /\ c \notin SeenAt(c, FALSE)
<1>0. DOMAIN node = 1 .. Len(node) /\ Len(node) \in Nat
  BY TreeIs
<1>1. ASSUME Children(c) # {} PROVE Least(Children(c)) = c + 1
  <2>1. PICK d \in Children(c) : TRUE BY <1>1
  <2>2. d \in DOMAIN node /\ c < d /\ Ancestor(c, d)
    BY <1>0, UpIs, ChildIs DEF Children, Root
  <2>3. PICK e \in Children(c) : c + 1 = e \/ Ancestor(e, c + 1)
    <3>1. c + 1 \in DOMAIN node /\ (c + 1 = d \/ Ancestor(c, c + 1))
      BY <1>0, <2>2, AncestorIs
    <3> QED BY <2>2, <3>1, ChildOn
  <2>4. e = c + 1 BY <1>0, <2>3, ChildIs DEF Ancestor
  <2>5. \A x \in Children(c) : x \in Nat /\ c + 1 <= x BY <1>0, ChildIs
  <2>6. Children(c) \in SUBSET Nat BY <2>5
  <2>7. Least(Children(c)) \in Children(c) /\ Least(Children(c)) <= c + 1
    BY <1>1, <2>4, <2>6, LeastIs
  <2> QED BY <1>0, <2>5, <2>7
<1>2. ASSUME Children(c) = {} PROVE \A m \in DOMAIN node : ~Ancestor(c, m)
  BY <1>2, ChildOn
<1> QED BY <1>0, <1>1, <1>2 DEF SeenAt

\* After c and what is below it comes its next sibling, or what comes after
\* its parent.
LEMMA SeeSubtree ==
    ASSUME WellFormed, NEW c \in DOMAIN node, c # Root
    PROVE  /\ LaterSiblings(c) # {} => SeenAt(Least(LaterSiblings(c)), FALSE) = SeenAt(c, TRUE)
           /\ LaterSiblings(c) = {} => SeenAt(node[c].up, TRUE) = SeenAt(c, TRUE)
<1> DEFINE p == node[c].up
<1>0. /\ DOMAIN node = 1 .. Len(node) /\ Len(node) \in Nat
      /\ p \in DOMAIN node /\ p < c /\ Ancestor(p, c) /\ c \in Children(p)
  BY TreeIs, UpIs DEF Children
<1>1. ASSUME NEW m \in DOMAIN node, c < m, Ancestor(p, m), ~Ancestor(c, m)
      PROVE  \E k \in LaterSiblings(c) : k <= m
  <2>1. PICK d \in Children(p) : m = d \/ Ancestor(d, m) BY <1>0, <1>1, ChildOn
  <2>2. d \in DOMAIN node /\ d <= m /\ d # c BY <1>0, <1>1, <2>1 DEF Children, Ancestor
  <2>3. ~(d < c)
    BY <1>0, <1>1, <2>1, <2>2, AncestorIs, ChildIs
  <2> QED BY <1>0, <2>1, <2>2, <2>3 DEF LaterSiblings
<1>2. ASSUME LaterSiblings(c) # {}
      PROVE  SeenAt(Least(LaterSiblings(c)), FALSE) = SeenAt(c, TRUE)
  <2> DEFINE d == Least(LaterSiblings(c))
  <2>1. d \in LaterSiblings(c) /\ \A k \in LaterSiblings(c) : d <= k
    <3>1. LaterSiblings(c) \in SUBSET Nat BY <1>0 DEF LaterSiblings, Children
    <3> QED BY <1>2, <3>1, LeastIs
  <2>2. d \in DOMAIN node /\ d \in Children(p) /\ c < d /\ d # Root
    BY <1>0, <2>1 DEF LaterSiblings, Children, Root
  <2> HIDE DEF d
  <2>3. ASSUME NEW m \in DOMAIN node, c < m, m < d PROVE Ancestor(c, m)
    <3>1. Ancestor(p, d) BY <2>2, UpIs DEF Children
    <3>2. Ancestor(p, m) BY <1>0, <2>2, <2>3, <3>1, AncestorIs
    <3> QED BY <1>0, <1>1, <2>1, <2>2, <2>3, <3>2 DEF LaterSiblings, Children
  <2>4. ASSUME NEW m \in DOMAIN node, Ancestor(c, m) PROVE m < d
    <3>1. ~Ancestor(c, d) BY <1>0, <2>2, ChildIs
    <3> QED BY <1>0, <2>2, <2>4, <3>1, AncestorIs
  <2>5. SeenAt(d, FALSE) = SeenAt(c, TRUE) BY <1>0, <2>2, <2>3, <2>4 DEF SeenAt
  <2> QED BY <2>5 DEF d
<1>3. ASSUME LaterSiblings(c) = {}
      PROVE  SeenAt(p, TRUE) = SeenAt(c, TRUE)
  <2>1. ASSUME NEW m \in DOMAIN node, m <= p \/ Ancestor(p, m)
        PROVE  m <= c \/ Ancestor(c, m)
    BY <1>0, <1>1, <1>3, <2>1
  <2>2. ASSUME NEW m \in DOMAIN node, m <= c \/ Ancestor(c, m)
        PROVE  m <= p \/ Ancestor(p, m)
    BY <1>0, <2>2, AncestorIs
  <2> QED BY <2>1, <2>2 DEF SeenAt
<1> QED BY <1>2, <1>3

LEMMA SeeAll ==
    ASSUME WellFormed
    PROVE  SeenAt(Root, TRUE) = DOMAIN node /\ SeenAt(Root, FALSE) = {}
<1>1. DOMAIN node = 1 .. Len(node) /\ Len(node) \in Nat BY TreeIs
<1>2. ASSUME NEW m \in DOMAIN node, m # Root PROVE Ancestor(Root, m)
  <2>1. \A k \in Root + 1 .. m : k \in DOMAIN node /\ k # Root BY <1>1 DEF Root
  <2>2. \A k \in Root + 1 .. m : node[k].up >= Root BY <1>1, <2>1, UpIs DEF Root
  <2> QED BY <1>1, <1>2, <2>2 DEF Ancestor, Root
<1> QED BY <1>1, <1>2 DEF SeenAt, Root

-----------------------------------------------------------------------------
(* Spans.                                                                  *)

\* A decorated definition spans its wrapper, which wraps no other one.
LEMMA SpanInjective ==
    ASSUME WellFormed, NEW m \in DOMAIN node, NEW n \in DOMAIN node,
           recognize_definition(m), recognize_definition(n), span_node(m) = span_node(n)
    PROVE  m = n
<1>1. CASE span_node(m) = m /\ span_node(n) = n
  BY <1>1
<1>2. CASE /\ span_node(m) # m \/ span_node(n) # n
  <2> DEFINE d == span_node(m)
  <2>1. file.lang = "Python" /\ node[d].kind = "decorated_definition"
    BY <1>2 DEF span_node
  <2>2. node[m].up = d /\ node[n].up = d
    BY <2>1, RecognizedIs DEF span_node
  <2>3. m \in Children(d) /\ n \in Children(d) /\ d \in DOMAIN node /\ m # Root /\ n # Root
    BY <2>2, SpanIs, RecognizedIs DEF Children
  <2>4. PICK c \in Children(d) : DefinedIn(d, c)
    BY <2>1, <2>3 DEF WellFormed
  <2>5. /\ Ancestor(d, m) /\ Ancestor(d, n) /\ ~Ancestor(c, m) /\ ~Ancestor(c, n)
    BY <2>2, <2>3, UpIs, ChildIs
  <2> QED
    BY <2>4, <2>5 DEF DefinedIn
<1> QED
  BY <1>1, <1>2

-----------------------------------------------------------------------------
(* Line ends.                                                              *)

Content(offset) == byte(offset) \notin {"LF", "CR"}

\* An extended end does not reach past the end or the start of other content.
LEMMA ExtendIs ==
    ASSUME WellFormed, NEW e \in 1 .. Len(source), Content(e - 1)
    PROVE  /\ extend_to_line_end(e) \in e .. Len(source)
           /\ \A k \in e + 1 .. Len(source) : Content(k - 1) => extend_to_line_end(e) <= k
           /\ \A k \in e .. Len(source) - 1 : Content(k) => extend_to_line_end(e) <= k
<1>0. Len(source) \in Nat
  BY TreeIs
<1>1. CASE byte(e) = "LF"
  BY <1>0, <1>1 DEF extend_to_line_end, byte, Content
<1>2. CASE byte(e) = "CR" /\ byte(e + 1) = "LF"
  BY <1>0, <1>2 DEF extend_to_line_end, byte, Content
<1>3. CASE byte(e) = "CR" /\ byte(e + 1) # "LF"
  BY <1>0, <1>3 DEF extend_to_line_end, byte, Content
<1>4. CASE byte(e) \notin {"LF", "CR"}
  BY <1>0, <1>4 DEF extend_to_line_end, byte, Content
<1> QED
  BY <1>1, <1>2, <1>3, <1>4

\* The line end that is taken along does not count for the last line.
LEMMA ExtendLine ==
    ASSUME WellFormed, NEW e \in 1 .. Len(source), Content(e - 1)
    PROVE  Newlines(extend_to_line_end(e) - 1) = Newlines(e)
<1> DEFINE N(o) == {k \in 1 .. o : source[k] = "LF"}
<1>0. Len(source) \in Nat
  BY TreeIs
<1>1. CASE byte(e) = "LF"
  <2>1. extend_to_line_end(e) - 1 = e
    BY <1>0, <1>1 DEF extend_to_line_end
  <2> QED
    BY <2>1
<1>2. CASE byte(e) = "CR" /\ byte(e + 1) = "LF"
  <2>1. extend_to_line_end(e) - 1 = e + 1 /\ source[e + 1] # "LF"
    BY <1>0, <1>2 DEF extend_to_line_end, byte
  <2>2. N(e + 1) = N(e)
    BY <2>1
  <2> QED
    BY <2>1, <2>2 DEF Newlines
<1>3. CASE byte(e) = "CR" /\ byte(e + 1) # "LF"
  <2>1. extend_to_line_end(e) - 1 = e
    BY <1>0, <1>3 DEF extend_to_line_end
  <2> QED
    BY <2>1
<1>4. CASE byte(e) \notin {"LF", "CR"}
  <2>1. extend_to_line_end(e) - 1 = e - 1 /\ source[e] # "LF"
    BY <1>0, <1>4 DEF extend_to_line_end, byte, Content
  <2>2. N(e - 1) = N(e)
    BY <2>1
  <2> QED
    BY <2>1, <2>2 DEF Newlines
<1> QED
  BY <1>1, <1>2, <1>3, <1>4

\* What is known of the span that a chunk is built from.
LEMMA SpannedIs ==
    ASSUME WellFormed, NEW n \in DOMAIN node, node[n].kind \in Spanned
    PROVE  /\ node[n].start \in Nat /\ node[n].end \in 1 .. Len(source)
           /\ node[n].start < node[n].end
           /\ Content(node[n].start) /\ Content(node[n].end - 1)
           /\ node[n].name # None
<1>1. node[n] \in Node /\ Len(source) \in Nat
  BY TreeIs
<1>2. /\ node[n].start <= node[n].end /\ node[n].end <= Len(source)
      /\ node[n].name # None /\ node[n].start < node[n].end
      /\ {byte(node[n].start), byte(node[n].end - 1)} \cap {"LF", "CR"} = {}
  BY DEF WellFormed
<1>3. byte(node[n].start) \notin {"LF", "CR"} /\ byte(node[n].end - 1) \notin {"LF", "CR"}
  BY <1>2
<1>4. node[n].start \in Nat /\ node[n].end \in Nat
  BY <1>1 DEF Node
<1> QED
  BY <1>1, <1>2, <1>3, <1>4 DEF Content

Extended(n) == [start_byte |-> node[n].start, end_byte |-> extend_to_line_end(node[n].end)]

NestOrApart(c, d) ==
    \/ Disjoint(c, d)
    \/ Encloses(c, d) /\ ~Encloses(d, c)
    \/ Encloses(d, c) /\ ~Encloses(c, d)

\* Definitions nest or lie apart, and so they do with their line ends.
LEMMA SpansNest ==
    ASSUME WellFormed, NEW a \in DOMAIN node, NEW b \in DOMAIN node, a < b,
           node[a].kind \in Spanned, node[b].kind \in Spanned
    PROVE  IF Ancestor(a, b)
           THEN Encloses(Extended(a), Extended(b)) /\ ~Encloses(Extended(b), Extended(a))
           ELSE /\ Disjoint(Extended(a), Extended(b))
                /\ ~Encloses(Extended(a), Extended(b)) /\ ~Encloses(Extended(b), Extended(a))
<1> DEFINE ea == node[a].end eb == node[b].end
<1>1. /\ node[a].start \in Nat /\ ea \in 1 .. Len(source) /\ Content(ea - 1)
      /\ node[b].start \in Nat /\ eb \in 1 .. Len(source) /\ Content(eb - 1)
      /\ node[a].start < ea /\ node[b].start < eb /\ Content(node[b].start)
      /\ Len(source) \in Nat
  BY SpannedIs, TreeIs
<1>2. /\ extend_to_line_end(ea) \in ea .. Len(source) /\ extend_to_line_end(eb) \in eb .. Len(source)
      /\ \A k \in ea .. Len(source) - 1 : Content(k) => extend_to_line_end(ea) <= k
      /\ \A k \in eb + 1 .. Len(source) : Content(k - 1) => extend_to_line_end(eb) <= k
  BY <1>1, ExtendIs
<1>3. CASE Ancestor(a, b)
  <2>1. node[b].start > node[a].start /\ eb <= ea
    BY <1>3 DEF WellFormed
  <2>2. extend_to_line_end(eb) <= extend_to_line_end(ea)
    <3>1. CASE eb = ea
      BY <1>1, <1>2, <3>1
    <3>2. CASE eb < ea
      BY <1>1, <1>2, <3>2
    <3> QED
      BY <1>1, <2>1, <3>1, <3>2
  <2> QED
    BY <1>1, <1>2, <1>3, <2>1, <2>2 DEF Encloses, Extended
<1>4. CASE ~Ancestor(a, b)
  <2>1. ea <= node[b].start
    BY <1>4 DEF WellFormed
  <2>2. extend_to_line_end(ea) <= node[b].start
    BY <1>1, <1>2, <2>1
  <2> QED
    BY <1>1, <1>2, <1>4, <2>2 DEF Disjoint, Encloses, Extended
<1> QED
  BY <1>3, <1>4

\* The span node of a definition is itself or its parent, and a wrapper is no
\* definition.
LEMMA SpanChoice ==
    ASSUME WellFormed, NEW n \in DOMAIN node, recognize_definition(n)
    PROVE  \/ span_node(n) = n
           \/ /\ span_node(n) = node[n].up /\ Ancestor(node[n].up, n)
              /\ node[node[n].up].kind = "decorated_definition"
              /\ ~recognize_definition(node[n].up)
<1>1. CASE span_node(n) # n
  <2>1. span_node(n) = node[n].up /\ node[node[n].up].kind = "decorated_definition"
    BY <1>1 DEF span_node
  <2>2. n # Root BY RecognizedIs
  <2>3. node[n].up \in DOMAIN node /\ Ancestor(node[n].up, n) BY <2>2, UpIs
  <2>4. ~recognize_definition(node[n].up) BY <2>1, <2>3, RecognizedIs
  <2> QED BY <2>1, <2>3, <2>4
<1> QED BY <1>1

\* Of two definitions, the chunk of one encloses that of the other just if the
\* one is above the other.
LEMMA EnclosesIs ==
    ASSUME WellFormed, NEW m \in DOMAIN node, NEW n \in DOMAIN node, m # n,
           recognize_definition(m), recognize_definition(n)
    PROVE  Encloses(Extended(span_node(m)), Extended(span_node(n))) <=> Ancestor(m, n)
<1> DEFINE a == span_node(m) b == span_node(n)
<1>1. /\ a \in DOMAIN node /\ node[a].kind \in Spanned
      /\ b \in DOMAIN node /\ node[b].kind \in Spanned /\ a # b
      /\ DOMAIN node = 1 .. Len(node) /\ Len(node) \in Nat
  BY SpanIs, SpanInjective, TreeIs
<1>2. Encloses(Extended(a), Extended(b)) <=> Ancestor(a, b)
  <2>1. CASE a < b BY <1>1, <2>1, SpansNest
  <2>2. CASE b < a
    <3>1. ~Ancestor(a, b) BY <1>1, <2>2 DEF Ancestor
    <3> QED BY <1>1, <2>2, <3>1, SpansNest
  <2> QED BY <1>1, <2>1, <2>2
<1>3. ASSUME Ancestor(m, n) PROVE Ancestor(a, b)
  <2>1. Ancestor(m, b)
    <3>1. CASE b = n BY <1>3, <3>1
    <3>2. CASE b # n
      <4>1. b = node[n].up /\ ~recognize_definition(b) /\ Ancestor(b, n) BY <3>2, SpanChoice
      <4>2. node[n].up >= m BY <1>1, <1>3 DEF Ancestor
      <4> QED BY <1>1, <1>3, <4>1, <4>2, AncestorIs
    <3> QED BY <3>1, <3>2
  <2>2. a = m \/ Ancestor(a, m) BY SpanChoice
  <2> QED BY <1>1, <2>1, <2>2, AncestorIs
<1>4. ASSUME Ancestor(a, b) PROVE Ancestor(m, n)
  <2>1. Ancestor(a, n)
    <3>1. b = n \/ Ancestor(b, n) BY SpanChoice
    <3> QED BY <1>1, <1>4, <3>1, AncestorIs
  <2>2. CASE a # m
    <3>1. /\ a = node[m].up /\ Ancestor(a, m) /\ node[a].kind = "decorated_definition"
          /\ m \in Children(a)
      BY <2>2, SpanChoice DEF Children
    <3>2. PICK c \in Children(a) : DefinedIn(a, c) BY <1>1, <3>1 DEF WellFormed
    <3>3. ~Ancestor(c, m) BY <1>1, <3>1, <3>2, ChildIs
    <3> QED BY <2>1, <3>1, <3>2, <3>3 DEF DefinedIn
  <2> QED BY <2>1, <2>2
<1> QED BY <1>2, <1>3, <1>4

-----------------------------------------------------------------------------
(* The parent that collect_chunks hands down.                              *)

\* Definition a is the nearest one around node n.
Nearest(a, n) ==
    /\ Ancestor(a, n) /\ recognize_definition(a)
    /\ \A b \in DOMAIN node : Ancestor(b, n) /\ recognize_definition(b) => b <= a

Handed(parent, n) ==
    \/ \E a \in DOMAIN node : Nearest(a, n) /\ parent = node[a].name
    \/ /\ \A a \in DOMAIN node : Ancestor(a, n) => ~recognize_definition(a)
       /\ parent = None

LEMMA HandDown ==
    ASSUME WellFormed, NEW n \in DOMAIN node, NEW c \in Children(n)
    PROVE  /\ recognize_definition(n) => Handed(node[n].name, c)
           /\ ~recognize_definition(n) => \A p : Handed(p, n) => Handed(p, c)
<1>0. DOMAIN node = 1 .. Len(node) /\ Len(node) \in Nat
  BY TreeIs
<1>1. c \in DOMAIN node /\ n < c /\ Ancestor(n, c)
  BY <1>0, ChildIs, UpIs DEF Children, Root
<1>2. ASSUME NEW b \in DOMAIN node PROVE Ancestor(b, c) <=> b = n \/ Ancestor(b, n)
  <2>1. ASSUME Ancestor(b, c), b # n PROVE Ancestor(b, n)
    <3>1. b <= n BY <1>0, <1>1, <2>1 DEF Ancestor, Children
    <3> QED BY <1>0, <1>1, <2>1, <3>1, AncestorIs
  <2> QED BY <1>1, <2>1, AncestorIs
<1>3. ASSUME recognize_definition(n) PROVE Handed(node[n].name, c)
  BY <1>0, <1>1, <1>2, <1>3 DEF Handed, Nearest, Ancestor
<1>4. ASSUME NEW p, ~recognize_definition(n), Handed(p, n) PROVE Handed(p, c)
  BY <1>2, <1>4 DEF Handed, Nearest
<1> QED BY <1>3, <1>4

\* No definition is around a child of the root.
LEMMA HandRoot ==
    ASSUME WellFormed
    PROVE  Handed(None, Root) /\ ~recognize_definition(Root)
<1>1. \A a \in DOMAIN node : ~Ancestor(a, Root) BY TreeIs DEF Ancestor, Root
<1> QED BY <1>1, RecognizedIs, TreeIs DEF Handed

-----------------------------------------------------------------------------
(* What the chunks are made of.                                            *)

\* A chunk of the definition at node n.
Built(c, n) ==
    /\ recognize_definition(n)
    /\ ~c.heuristic /\ c.name = node[n].name /\ c.type = symbol_type(n)
    /\ node[n].receiver # None \/ Handed(c.parent, n)
    /\ c.start_byte = Extended(span_node(n)).start_byte
    /\ c.end_byte = Extended(span_node(n)).end_byte
    /\ c.start_line = Newlines(c.start_byte) + 1
    /\ c.end_line = Newlines(node[span_node(n)].end) + 1

\* Each chunk is that of another definition, and g tells of which.
From(g) ==
    /\ g \in [DOMAIN chunks -> DOMAIN node]
    /\ \A i, j \in DOMAIN chunks : i # j => g[i] # g[j]
    /\ \A i \in DOMAIN chunks : Built(chunks[i], g[i])

\* Each chunk is that of another header.
FromHeaders ==
    \E h \in InOrder(Headers) : chunks = [i \in DOMAIN h |-> heuristic_chunk(h[i])]

LEMMA BuiltIs ==
    ASSUME WellFormed, NEW c, NEW n \in DOMAIN node, Built(c, n)
    PROVE  /\ c.start_byte \in Nat /\ c.end_byte \in Nat
           /\ c.start_byte < c.end_byte /\ c.end_byte <= Len(source)
           /\ c.start_line = 1 + Newlines(c.start_byte)
           /\ c.end_line = 1 + Newlines(c.end_byte - 1)
<1> DEFINE s == span_node(n)
<1>1. s \in DOMAIN node /\ node[s].kind \in Spanned
  BY SpanIs DEF Built
<1>2. /\ node[s].start \in Nat /\ node[s].end \in 1 .. Len(source)
      /\ node[s].start < node[s].end /\ Content(node[s].end - 1)
  BY <1>1, SpannedIs
<1>3. /\ extend_to_line_end(node[s].end) \in node[s].end .. Len(source)
      /\ Newlines(extend_to_line_end(node[s].end) - 1) = Newlines(node[s].end)
  BY <1>2, ExtendIs, ExtendLine
<1>4. \A o \in Nat : Newlines(o) \in Nat
  BY NewlinesIs
<1>5. Len(source) \in Nat
  BY TreeIs
<1>6. c.start_byte = node[s].start /\ c.end_byte = extend_to_line_end(node[s].end)
  BY DEF Built, Extended
<1>7. c.start_line = Newlines(c.start_byte) + 1 /\ c.end_line = Newlines(node[s].end) + 1
  BY DEF Built
<1>8. c.start_byte \in Nat /\ c.end_byte \in Nat /\ c.start_byte < c.end_byte /\ c.end_byte <= Len(source)
  BY <1>2, <1>3, <1>5, <1>6
<1>9. c.start_line = 1 + Newlines(c.start_byte)
  <2>1. Newlines(c.start_byte) \in Nat
    BY <1>4, <1>8
  <2>2. c.start_line = Newlines(c.start_byte) + 1
    BY <1>7
  <2> QED
    BY <2>1, <2>2
<1>10. Newlines(c.end_byte - 1) = Newlines(node[s].end)
  BY <1>3, <1>6
<1>11. Newlines(node[s].end) \in Nat
  <2>1. node[s].end \in Nat
    BY <1>2, <1>5
  <2> QED
    BY <2>1, <1>4
<1>12. c.end_line = 1 + Newlines(c.end_byte - 1)
  BY <1>7, <1>10, <1>11
<1> QED
  BY <1>8, <1>9, <1>12

LEMMA FromLaminar ==
    ASSUME WellFormed, NEW g, From(g)
    PROVE  Laminar /\ LinesAgree
<1>1. Laminar
  <2> SUFFICES ASSUME NEW i \in DOMAIN chunks, NEW j \in DOMAIN chunks, i # j
               PROVE  NestOrApart(chunks[i], chunks[j])
    BY DEF Laminar, NestOrApart
  <2> DEFINE a == span_node(g[i]) b == span_node(g[j])
  <2>1. /\ g[i] \in DOMAIN node /\ g[j] \in DOMAIN node /\ g[i] # g[j]
        /\ Built(chunks[i], g[i]) /\ Built(chunks[j], g[j])
    BY DEF From
  <2>2. /\ a \in DOMAIN node /\ node[a].kind \in Spanned
        /\ b \in DOMAIN node /\ node[b].kind \in Spanned /\ a # b
    BY <2>1, SpanIs, SpanInjective DEF Built
  <2>3. NestOrApart(Extended(a), Extended(b)) \/ NestOrApart(Extended(b), Extended(a))
    BY <2>2, SpansNest, TreeIs DEF NestOrApart
  <2> QED
    BY <2>1, <2>3 DEF NestOrApart, Disjoint, Encloses, Built
<1>2. LinesAgree
  BY BuiltIs DEF LinesAgree, From
<1> QED
  BY <1>1, <1>2

LEMMA HeadersIs ==
    ASSUME WellFormed
    PROVE  /\ Len(source) \in Nat
           /\ \A h \in Headers : h \in Nat /\ h < Len(source)
           /\ Cardinality(Headers) \in Nat
<1>1. Len(source) \in Nat /\ \A h \in Headers : h \in Nat /\ h < Len(source)
  BY TreeIs DEF Headers
<1>2. \A h \in Headers : h \in Nat /\ h <= Len(source)
  BY <1>1
<1> QED
  BY <1>1, <1>2, BoundedFinite

LEMMA HeaderIs ==
    ASSUME WellFormed, NEW o \in Headers
    PROVE  /\ o \in Nat /\ HeaderEnd(o) \in o + 1 .. Len(source)
           /\ \A h \in Headers : o < h => HeaderEnd(o) <= h
           /\ HeaderEnd(o) \in Headers \/ HeaderEnd(o) = Len(source)
<1> DEFINE S == {h \in Headers : h > o} \cup {Len(source)}
<1>1. Len(source) \in Nat /\ \A h \in Headers : h \in Nat /\ h < Len(source)
  BY HeadersIs
<1>2. \A k \in S : k \in Nat /\ k > o /\ k <= Len(source)
  BY <1>1
<1>3. S \in SUBSET Nat /\ S # {}
  <2>1. \A k \in S : k \in Nat
    BY <1>2
  <2>2. Len(source) \in S
    OBVIOUS
  <2> HIDE DEF S
  <2> QED
    BY <2>1, <2>2
<1>4. Least(S) \in S /\ \A k \in S : Least(S) <= k
  <2> HIDE DEF S
  <2> QED
    BY <1>3, LeastIs
<1>5. HeaderEnd(o) = Least(S)
  BY DEF HeaderEnd
<1>6. /\ \A h \in Headers : o < h => h \in S
      /\ \A k \in S : k \in Headers \/ k = Len(source)
  BY <1>1
<1> HIDE DEF S
<1>7. HeaderEnd(o) \in S /\ \A k \in S : HeaderEnd(o) <= k
  BY <1>4, <1>5
<1>8. o \in Nat /\ HeaderEnd(o) \in o + 1 .. Len(source)
  BY <1>1, <1>2, <1>7
<1> QED
  BY <1>6, <1>7, <1>8

HeaderChunk(c, o) ==
    /\ c.start_byte = o /\ c.end_byte = HeaderEnd(o) /\ c.heuristic
    /\ c.parent = None /\ c.type \in {"Function", "Class"}
    /\ c.start_line = line_range(o, HeaderEnd(o)).start
    /\ c.end_line = line_range(o, HeaderEnd(o)).end

LEMMA HeaderChunkIs ==
    ASSUME NEW o
    PROVE  HeaderChunk(heuristic_chunk(o), o)
BY DEF HeaderChunk, heuristic_chunk

LEMMA HeadersApart ==
    ASSUME WellFormed, FromHeaders
    PROVE  \A i, j \in DOMAIN chunks : i # j =>
              Disjoint(chunks[i], chunks[j]) /\ ~Encloses(chunks[i], chunks[j])
<1>0. PICK h \in InOrder(Headers) : chunks = [i \in DOMAIN h |-> heuristic_chunk(h[i])]
  BY DEF FromHeaders
<1>1. /\ DOMAIN chunks = DOMAIN h /\ DOMAIN h = 1 .. Cardinality(Headers)
      /\ \A i \in DOMAIN h : h[i] \in Headers
      /\ \A i, j \in DOMAIN h : i < j => h[i] < h[j]
  BY <1>0 DEF InOrder
<1>2. \A i \in DOMAIN h : chunks[i] = heuristic_chunk(h[i])
  BY <1>0
<1>3. \A i \in DOMAIN h : HeaderChunk(chunks[i], h[i])
  BY <1>2, HeaderChunkIs
<1> SUFFICES ASSUME NEW i \in DOMAIN h, NEW j \in DOMAIN h, i # j
             PROVE  Disjoint(chunks[i], chunks[j]) /\ ~Encloses(chunks[i], chunks[j])
  BY <1>1
<1>4. Cardinality(Headers) \in Nat /\ Len(source) \in Nat
  BY HeadersIs
<1>5. i < j \/ j < i
  BY <1>1, <1>4
<1>6. /\ h[i] \in Nat /\ HeaderEnd(h[i]) \in h[i] + 1 .. Len(source)
      /\ h[j] \in Nat /\ HeaderEnd(h[j]) \in h[j] + 1 .. Len(source)
      /\ h[i] < h[j] => HeaderEnd(h[i]) <= h[j]
      /\ h[j] < h[i] => HeaderEnd(h[j]) <= h[i]
  BY <1>1, HeaderIs
<1> QED
  BY <1>1, <1>3, <1>4, <1>5, <1>6 DEF Disjoint, Encloses, HeaderChunk

LEMMA HeadersLaminar ==
    ASSUME WellFormed, FromHeaders
    PROVE  Laminar /\ LinesAgree
<1>0. PICK h \in InOrder(Headers) : chunks = [i \in DOMAIN h |-> heuristic_chunk(h[i])]
  BY DEF FromHeaders
<1>1. /\ DOMAIN chunks = DOMAIN h /\ DOMAIN h = 1 .. Cardinality(Headers)
      /\ \A i \in DOMAIN h : h[i] \in Headers
      /\ \A i, j \in DOMAIN h : i < j => h[i] < h[j]
  BY <1>0 DEF InOrder
<1>2. \A i \in DOMAIN h : chunks[i] = heuristic_chunk(h[i])
  BY <1>0
<1>3. \A i \in DOMAIN h : HeaderChunk(chunks[i], h[i])
  BY <1>2, HeaderChunkIs
<1>4. Laminar
  BY HeadersApart DEF Laminar
<1>5. LinesAgree
  <2> SUFFICES ASSUME NEW i \in DOMAIN h
               PROVE  /\ chunks[i].start_line = 1 + Newlines(chunks[i].start_byte)
                      /\ chunks[i].end_line = 1 + Newlines(chunks[i].end_byte - 1)
    BY <1>1 DEF LinesAgree
  <2>1. h[i] \in Nat /\ HeaderEnd(h[i]) \in h[i] + 1 .. Len(source) /\ Len(source) \in Nat
    BY <1>1, HeaderIs, TreeIs
  <2>2. (IF HeaderEnd(h[i]) - 1 > h[i] THEN HeaderEnd(h[i]) - 1 ELSE h[i]) = HeaderEnd(h[i]) - 1
    BY <2>1
  <2> QED
    BY <1>3, <2>2 DEF line_range, HeaderChunk
<1> QED
  BY <1>4, <1>5

-----------------------------------------------------------------------------
(* The chunker's steps.                                                    *)

\* Pending nodes come in preorder and none is below another.
Pending(q) ==
    \A k, l \in DOMAIN q : k < l => q[k][1] < q[l][1] /\ ~Ancestor(q[k][1], q[l][1])

\* The chunks so far are of nodes before every pending one.
Ahead(g) == \A i \in DOMAIN chunks, k \in DOMAIN todo : g[i] < todo[k][1]

Types ==
    /\ pc \in {"measure", "extract", "calls", "done"}
    /\ cursor \in DOMAIN node /\ climbing \in BOOLEAN
    /\ named \in Nat /\ bad \in Nat
    /\ todo \in Seq((DOMAIN node) \X (Name \cup {None}))
    /\ chunks \in Seq(Chunk)
    /\ calls \in Seq({n \in DOMAIN node : node[n].name # None})

LEMMA FileKept ==
    ASSUME UNCHANGED file
    PROVE  /\ node' = node /\ source' = source /\ (file \in File)' = (file \in File)
           /\ \A n : Children(n)' = Children(n)
           /\ \A m, n : Ancestor(m, n)' = Ancestor(m, n)
           /\ \A e : byte(e)' = byte(e)
           /\ \A o : Newlines(o)' = Newlines(o)
           /\ \A n : recognize_definition(n)' = recognize_definition(n)
           /\ \A n : recognize_python(n)' = recognize_python(n)
           /\ \A n : span_node(n)' = span_node(n)
           /\ \A n : symbol_type(n)' = symbol_type(n)
           /\ \A e : extend_to_line_end(e)' = extend_to_line_end(e)
<1>1. node' = node /\ source' = source /\ (file \in File)' = (file \in File)
  BY DEF node, source, File
<1>2. \A n : Children(n)' = Children(n)
  BY <1>1, Zenon DEF Children
<1>3. \A m, n : Ancestor(m, n)' = Ancestor(m, n)
  BY <1>1, Zenon DEF Ancestor
<1>4. \A e : byte(e)' = byte(e)
  BY <1>1, Zenon DEF byte
<1>5. \A o : Newlines(o)' = Newlines(o)
  BY <1>1, Zenon DEF Newlines
<1>6. \A n : recognize_definition(n)' = recognize_definition(n)
  <2>1. \A n : type_specs(n)' = type_specs(n)
    BY <1>1, <1>2, Zenon DEF type_specs
  <2>2. \A n : Children(Least(type_specs(n)))' = Children(Least(type_specs(n)))
    BY <1>2, <2>1, Zenon DEF Least
  <2>3. \A n : recognize_go(n)' = recognize_go(n)
    BY <1>1, <2>1, <2>2, Zenon DEF recognize_go
  <2>4. \A n : recognize_typescript(n)' = recognize_typescript(n)
    BY <1>1, <1>2, Zenon DEF recognize_typescript
  <2> QED BY <1>1, <2>3, <2>4, Zenon DEF recognize_definition, recognize_python
<1>7. \A n : recognize_python(n)' = recognize_python(n)
  BY <1>1, Zenon DEF recognize_python
<1>8. \A n : span_node(n)' = span_node(n)
  BY <1>1, Zenon DEF span_node
<1>9. \A e : extend_to_line_end(e)' = extend_to_line_end(e)
  BY <1>4, SMT DEF extend_to_line_end
<1>10. \A n, class, others : NearestIs(n, class, others)' = NearestIs(n, class, others)
  BY <1>1, <1>3, Zenon DEF NearestIs
<1>11. ASSUME NEW n
       PROVE  /\ python_parent_is_class(n)' = python_parent_is_class(n)
              /\ ts_parent_is_class(n)' = ts_parent_is_class(n)
  BY <1>10, Zenon DEF python_parent_is_class, ts_parent_is_class
<1>12. \A n : symbol_type(n)' = symbol_type(n)
  BY <1>1, <1>11, Zenon DEF symbol_type
<1> QED
  BY <1>1, <1>2, <1>3, <1>4, <1>5, <1>6, <1>7, <1>8, <1>9, <1>12

LEMMA WellFormedKept ==
    ASSUME WellFormed, UNCHANGED file
    PROVE  WellFormed'
<1>1. /\ node' = node /\ source' = source /\ (file \in File)' = (file \in File)
  BY FileKept
<1>2. (/\ file \in File /\ node # <<>>
       /\ node[Root].kind = "root" /\ node[Root].up = 0)'
  BY <1>1 DEF WellFormed, Root
<1>3. (\A n \in DOMAIN node \ {Root} :
          /\ node[n].kind # "root"
          /\ \/ node[n].up = n - 1
             \/ node[n].up \in DOMAIN node /\ Ancestor(node[n].up, n - 1))'
  BY <1>1, Zenon DEF WellFormed, Root, Ancestor
<1>4. ASSUME NEW n \in DOMAIN node
      PROVE  (/\ node[n].start <= node[n].end /\ node[n].end <= Len(source)
              /\ node[n].kind \in Token => Children(n) = {}
              /\ node[n].kind = "decorated_definition" =>
                    \E c \in Children(n) : recognize_python(c) /\ DefinedIn(n, c)
              /\ node[n].kind = "variable_declarator" =>
                    \A c \in Children(n) : node[c].kind = "arrow_function" => DefinedIn(n, c)
              /\ node[n].receiver # None => node[n].kind = "method_declaration"
              /\ node[n].kind \in Spanned =>
                    /\ node[n].name # None /\ node[n].start < node[n].end
                    /\ {byte(node[n].start), byte(node[n].end - 1)} \cap {"LF", "CR"} = {})'
  <2>1. (node[n].start <= node[n].end /\ node[n].end <= Len(source))'
    BY <1>1 DEF WellFormed
  <2>2. (node[n].kind \in Token => Children(n) = {})'
    BY <1>1, Zenon DEF WellFormed, Children
  <2>0. \A c : DefinedIn(n, c)' = DefinedIn(n, c)
    BY FileKept, <1>1 DEF DefinedIn
  <2>3. (node[n].kind = "decorated_definition" =>
            \E c \in Children(n) : recognize_python(c) /\ DefinedIn(n, c))'
    <3>1. node[n].kind = "decorated_definition" =>
            \E c \in Children(n) : recognize_python(c) /\ DefinedIn(n, c)
      BY DEF WellFormed
    <3> QED BY <1>1, <2>0, <3>1, FileKept
  <2>5. /\ (node[n].kind = "variable_declarator" =>
              \A c \in Children(n) : node[c].kind = "arrow_function" => DefinedIn(n, c))'
        /\ (node[n].receiver # None => node[n].kind = "method_declaration")'
    <3>1. /\ node[n].kind = "variable_declarator" =>
                \A c \in Children(n) : node[c].kind = "arrow_function" => DefinedIn(n, c)
          /\ node[n].receiver # None => node[n].kind = "method_declaration"
      BY DEF WellFormed
    <3> QED BY <1>1, <2>0, <3>1, FileKept
  <2>4. (node[n].kind \in Spanned =>
            /\ node[n].name # None /\ node[n].start < node[n].end
            /\ {byte(node[n].start), byte(node[n].end - 1)} \cap {"LF", "CR"} = {})'
    BY <1>1, Zenon DEF WellFormed, byte
  <2> QED
    BY <2>1, <2>2, <2>3, <2>4, <2>5
<1>5. ASSUME NEW m \in DOMAIN node, NEW n \in DOMAIN node, m < n
      PROVE  (IF Ancestor(m, n)
              THEN /\ node[n].start >= node[m].start /\ node[n].end <= node[m].end
                   /\ {node[m].kind, node[n].kind} \subseteq Spanned =>
                         node[n].start > node[m].start
              ELSE node[m].end <= node[n].start)'
  BY <1>1, <1>5, Zenon DEF WellFormed, Ancestor
<1> QED
  BY <1>1, <1>2, <1>3, <1>4, <1>5 DEF WellFormed

LEMMA HandedKept ==
    ASSUME UNCHANGED file
    PROVE  \A p, n : Handed(p, n)' = Handed(p, n)
BY FileKept, Zenon DEF Handed, Nearest

LEMMA BuiltKept ==
    ASSUME UNCHANGED file, NEW c, NEW n
    PROVE  Built(c, n)' = Built(c, n)
<1>1. /\ node' = node /\ recognize_definition(n)' = recognize_definition(n)
      /\ span_node(n)' = span_node(n)
  BY FileKept
<1>2. extend_to_line_end(node[span_node(n)].end)' = extend_to_line_end(node[span_node(n)].end)
  BY <1>1, FileKept
<1>3. /\ Newlines(c.start_byte)' = Newlines(c.start_byte)
      /\ Newlines(node[span_node(n)].end)' = Newlines(node[span_node(n)].end)
  BY <1>1, FileKept
<1>4. /\ symbol_type(n)' = symbol_type(n) /\ Handed(c.parent, n)' = Handed(c.parent, n)
  BY FileKept, HandedKept
<1> QED
  BY <1>1, <1>2, <1>3, <1>4 DEF Built, Extended

LEMMA FromNext ==
    ASSUME UNCHANGED file, NEW g, g \in [DOMAIN chunks' -> DOMAIN node],
           \A i, j \in DOMAIN chunks' : i # j => g[i] # g[j],
           \A i \in DOMAIN chunks' : Built(chunks'[i], g[i])
    PROVE  From(g)'
BY FileKept, BuiltKept DEF From

LEMMA AncestorKept ==
    ASSUME UNCHANGED file, NEW m, NEW n
    PROVE  Ancestor(m, n)' <=> Ancestor(m, n)
BY DEF Ancestor, node

LEMMA InOrderIs ==
    ASSUME NEW S, Cardinality(S) \in Nat, NEW s \in InOrder(S)
    PROVE  /\ s \in Seq(S) /\ DOMAIN s = 1 .. Len(s) /\ Len(s) \in Nat
           /\ \A i, j \in DOMAIN s : i < j => s[i] < s[j]
<1>1. s \in [1 .. Cardinality(S) -> S]
  BY DEF InOrder
<1>2. s \in Seq(S)
  BY <1>1, SMT
<1> QED
  BY <1>2 DEF InOrder

LEMMA InOrderOnto ==
    ASSUME NEW S \in SUBSET Nat, IsFiniteSet(S), NEW s \in InOrder(S)
    PROVE  \A x \in S : \E i \in DOMAIN s : s[i] = x
<1> DEFINE D == 1 .. Cardinality(S)
<1>1. Cardinality(S) \in Nat BY FS_CardinalityType
<1>2. s \in [D -> S] /\ \A i, j \in D : i < j => s[i] < s[j] BY DEF InOrder
<1>3. ASSUME NEW i \in D, NEW j \in D, i # j PROVE s[i] # s[j]
  <2>1. s[i] \in Nat /\ s[j] \in Nat BY <1>2
  <2>2. i < j \/ j < i BY <1>1, <1>3
  <2> QED BY <1>2, <2>1, <2>2
<1>4. s \in Injection(D, S) BY <1>2, <1>3 DEF Injection, IsInjective
<1>5. Cardinality(D) = Cardinality(S) BY <1>1, FS_Interval
<1>6. s \in Surjection(D, S) BY <1>4, <1>5, FS_Injection
<1> QED BY <1>2, <1>6 DEF Surjection

Joined(q, s, t) ==
    /\ DOMAIN q = 1 .. Len(s) + Len(t)
    /\ \A k \in 1 .. Len(s) : q[k] = s[k]
    /\ \A k \in Len(s) + 1 .. Len(s) + Len(t) : q[k] = t[k - Len(s)]

LEMMA ConcatIs ==
    ASSUME NEW T, NEW s \in Seq(T), NEW t \in Seq(T)
    PROVE  s \o t \in Seq(T) /\ Joined(s \o t, s, t)
BY SMT DEF Joined

LEMMA RecurseIs ==
    ASSUME WellFormed, NEW n \in DOMAIN node, NEW parent \in Name \cup {None},
           NEW rest \in Seq((DOMAIN node) \X (Name \cup {None})), Pending(rest),
           \A k \in DOMAIN rest : n < rest[k][1] /\ ~Ancestor(n, rest[k][1]),
           NEW c \in InOrder(Children(n))
    PROVE  LET q == [i \in DOMAIN c |-> <<c[i], parent>>] \o rest
           IN  /\ q \in Seq((DOMAIN node) \X (Name \cup {None})) /\ Pending(q)
               /\ \A k \in DOMAIN q : n < q[k][1]
<1> DEFINE T == (DOMAIN node) \X (Name \cup {None})
           f == [i \in DOMAIN c |-> <<c[i], parent>>]
           q == f \o rest
<1>1. /\ c \in Seq(Children(n)) /\ DOMAIN c = 1 .. Len(c) /\ Len(c) \in Nat
      /\ \A i, j \in DOMAIN c : i < j => c[i] < c[j]
  <2>1. Children(n) \in SUBSET DOMAIN node
    BY DEF Children
  <2>2. Cardinality(Children(n)) \in Nat
    BY <2>1, ChildrenFinite
  <2> QED
    BY <2>2, InOrderIs
<1>2. \A i \in DOMAIN c : c[i] \in Children(n) /\ c[i] \in DOMAIN node
  BY <1>1 DEF Children
<1>3. f \in Seq(T) /\ Len(f) = Len(c) /\ \A i \in 1 .. Len(c) : f[i] = <<c[i], parent>>
  BY <1>1, <1>2
<1> HIDE DEF f
<1>4. /\ q \in Seq(T) /\ DOMAIN q = 1 .. Len(c) + Len(rest)
      /\ \A k \in 1 .. Len(c) : q[k] = f[k]
      /\ \A k \in Len(c) + 1 .. Len(c) + Len(rest) :
            q[k] = rest[k - Len(c)] /\ k - Len(c) \in DOMAIN rest
  <2>1. rest \in Seq(T) /\ Len(rest) \in Nat /\ DOMAIN rest = 1 .. Len(rest)
    OBVIOUS
  <2> HIDE DEF T
  <2>2. /\ q \in Seq(T) /\ DOMAIN q = 1 .. Len(f) + Len(rest)
        /\ \A k \in 1 .. Len(f) : q[k] = f[k]
        /\ \A k \in Len(f) + 1 .. Len(f) + Len(rest) : q[k] = rest[k - Len(f)]
    <3>1. q \in Seq(T) /\ Joined(q, f, rest)
      BY <1>3, <2>1, ConcatIs
    <3> QED
      BY <3>1 DEF Joined
  <2> HIDE DEF q
  <2>3. \A k \in Len(c) + 1 .. Len(c) + Len(rest) : k - Len(c) \in DOMAIN rest
    BY <1>1, <2>1
  <2> QED
    BY <1>3, <2>2, <2>3
<1> HIDE DEF q
<1>5. \A k \in DOMAIN rest : rest[k][1] \in DOMAIN node
  OBVIOUS
<1>6. ASSUME NEW k \in DOMAIN q
      PROVE  \/ k \in DOMAIN c /\ q[k][1] = c[k]
             \/ k > Len(c) /\ k - Len(c) \in DOMAIN rest /\ q[k][1] = rest[k - Len(c)][1]
  <2>1. k \in 1 .. Len(c) \/ (k \in Len(c) + 1 .. Len(c) + Len(rest) /\ k > Len(c))
    BY <1>1, <1>4
  <2>2. CASE k \in 1 .. Len(c)
    <3>1. q[k] = <<c[k], parent>>
      BY <1>3, <1>4, <2>2
    <3> QED
      BY <1>1, <2>2, <3>1
  <2>3. CASE k \in Len(c) + 1 .. Len(c) + Len(rest) /\ k > Len(c)
    BY <1>4, <2>3
  <2> QED
    BY <2>1, <2>2, <2>3
<1>7. \A k \in DOMAIN q : n < q[k][1]
  BY <1>2, <1>6, ChildIs
<1>8. Pending(q)
  <2> SUFFICES ASSUME NEW k \in DOMAIN q, NEW l \in DOMAIN q, k < l
               PROVE  q[k][1] < q[l][1] /\ ~Ancestor(q[k][1], q[l][1])
    BY DEF Pending
  <2>0. Len(rest) \in Nat /\ DOMAIN rest = 1 .. Len(rest)
    OBVIOUS
  <2>1. CASE k \in DOMAIN c /\ q[k][1] = c[k] /\ l \in DOMAIN c /\ q[l][1] = c[l]
    BY <1>1, <1>2, <2>1, ChildIs
  <2>2. CASE /\ k \in DOMAIN c /\ q[k][1] = c[k]
             /\ l - Len(c) \in DOMAIN rest /\ q[l][1] = rest[l - Len(c)][1]
    BY <1>2, <1>5, <2>2, ChildIs
  <2>3. CASE /\ k > Len(c) /\ k - Len(c) \in DOMAIN rest /\ q[k][1] = rest[k - Len(c)][1]
             /\ l > Len(c) /\ l - Len(c) \in DOMAIN rest /\ q[l][1] = rest[l - Len(c)][1]
    <3>1. k - Len(c) < l - Len(c)
      BY <1>1, <1>4
    <3> QED
      BY <2>3, <3>1 DEF Pending
  <2>4. ~(k > Len(c) /\ l \in DOMAIN c)
    BY <1>1, <1>4, <2>0
  <2> QED
    BY <1>6, <2>1, <2>2, <2>3, <2>4
<1> QED
  BY <1>4, <1>7, <1>8 DEF q, f

\* Every pending node was handed its parent.
Threaded(q) == \A k \in DOMAIN q : Handed(q[k][2], q[k][1])

\* n is yet to see: pending, or below a node that is.
Waits(q, n) == \E k \in DOMAIN q : n = q[k][1] \/ Ancestor(q[k][1], n)

\* What follows of n are its children, and then the rest.
LEMMA RecurseAll ==
    ASSUME WellFormed, NEW n \in DOMAIN node, NEW parent \in Name \cup {None},
           NEW rest \in Seq((DOMAIN node) \X (Name \cup {None})),
           NEW c \in InOrder(Children(n))
    PROVE  LET q == [i \in DOMAIN c |-> <<c[i], parent>>] \o rest
           IN  /\ (Threaded(rest) /\ \A d \in Children(n) : Handed(parent, d)) => Threaded(q)
               /\ \A m \in DOMAIN node : Ancestor(n, m) \/ Waits(rest, m) => Waits(q, m)
<1> DEFINE f == [i \in DOMAIN c |-> <<c[i], parent>>]
           q == f \o rest
           T == (DOMAIN node) \X (Name \cup {None})
<1>0. Children(n) \in SUBSET Nat /\ IsFiniteSet(Children(n)) /\ Cardinality(Children(n)) \in Nat
  BY TreeIs, ChildrenFinite DEF Children
<1>1. /\ DOMAIN c = 1 .. Len(c) /\ Len(c) \in Nat /\ \A i \in DOMAIN c : c[i] \in Children(n)
      /\ \A x \in Children(n) : \E i \in DOMAIN c : c[i] = x
  BY <1>0, InOrderIs, InOrderOnto
<1>2. \A i \in DOMAIN c : c[i] \in DOMAIN node
  BY <1>1 DEF Children
<1>3. f \in Seq(T) /\ Len(f) = Len(c) /\ \A i \in DOMAIN c : f[i] = <<c[i], parent>>
  BY <1>1, <1>2
<1>4. rest \in Seq(T) /\ Len(rest) \in Nat /\ DOMAIN rest = 1 .. Len(rest)
  OBVIOUS
<1> HIDE DEF f, T
<1>5. /\ DOMAIN q = 1 .. Len(c) + Len(rest)
      /\ \A k \in DOMAIN c : q[k] = f[k]
      /\ \A k \in Len(c) + 1 .. Len(c) + Len(rest) : q[k] = rest[k - Len(c)]
  <2>1. /\ DOMAIN q = 1 .. Len(f) + Len(rest)
        /\ \A k \in 1 .. Len(f) : q[k] = f[k]
        /\ \A k \in Len(f) + 1 .. Len(f) + Len(rest) : q[k] = rest[k - Len(f)]
    <3>1. Joined(q, f, rest)
      BY <1>3, <1>4, ConcatIs
    <3> QED
      BY <3>1 DEF Joined
  <2> HIDE DEF q
  <2> QED
    BY <1>1, <1>3, <2>1
<1> HIDE DEF q
<1>6. ASSUME NEW k \in DOMAIN rest PROVE k + Len(c) \in DOMAIN q /\ q[k + Len(c)] = rest[k]
  <2>1. k \in Nat /\ k >= 1 /\ k <= Len(rest) BY <1>4
  <2>2. k + Len(c) \in Len(c) + 1 .. Len(c) + Len(rest) /\ (k + Len(c)) - Len(c) = k
    BY <1>1, <1>4, <2>1
  <2> QED BY <1>1, <1>5, <2>2
<1>7. ASSUME NEW k \in DOMAIN q
      PROVE  k \in DOMAIN c \/ (k - Len(c) \in DOMAIN rest /\ q[k] = rest[k - Len(c)])
  BY <1>1, <1>4, <1>5
<1>8. ASSUME Threaded(rest), \A d \in Children(n) : Handed(parent, d) PROVE Threaded(q)
  <2>1. ASSUME NEW k \in DOMAIN q PROVE Handed(q[k][2], q[k][1])
    <3>1. CASE k \in DOMAIN c
      <4>1. q[k] = <<c[k], parent>> /\ c[k] \in Children(n) BY <1>1, <1>3, <1>5, <3>1
      <4> QED BY <1>8, <4>1
    <3>2. CASE k - Len(c) \in DOMAIN rest /\ q[k] = rest[k - Len(c)]
      BY <1>8, <3>2 DEF Threaded
    <3> QED BY <1>7, <3>1, <3>2
  <2> QED BY <2>1 DEF Threaded
<1>9. ASSUME NEW m \in DOMAIN node, Ancestor(n, m) PROVE Waits(q, m)
  <2>1. PICK d \in Children(n) : m = d \/ Ancestor(d, m) BY <1>9, ChildOn
  <2>2. PICK i \in DOMAIN c : c[i] = d BY <1>1
  <2>3. i \in DOMAIN q /\ q[i][1] = d BY <1>1, <1>3, <1>4, <1>5, <2>2
  <2> QED BY <2>1, <2>3 DEF Waits
<1>10. ASSUME NEW m \in DOMAIN node, Waits(rest, m) PROVE Waits(q, m)
  BY <1>6, <1>10 DEF Waits
<1> QED BY <1>8, <1>9, <1>10 DEF q, f

\* A sort only moves the chunks; p says from where.
Moved(s, cs) ==
    \E p \in [DOMAIN cs -> DOMAIN cs] :
        /\ \A i \in DOMAIN cs : s[i] = cs[p[i]]
        /\ \A i, j \in DOMAIN cs : i # j => p[i] # p[j]
        /\ \A j \in DOMAIN cs : \E i \in DOMAIN cs : p[i] = j

LEMMA SortIs ==
    ASSUME NEW cs \in Seq(Chunk), NEW s \in sort_by_start_byte(cs)
    PROVE  s \in Seq(Chunk) /\ DOMAIN s = DOMAIN cs /\ Moved(s, cs)
<1>1. PICK p \in [DOMAIN cs -> DOMAIN cs] :
         /\ s = [i \in DOMAIN cs |-> cs[p[i]]]
         /\ \A i, j \in DOMAIN cs :
               i < j => \/ cs[p[i]].start_byte < cs[p[j]].start_byte
                        \/ cs[p[i]].start_byte = cs[p[j]].start_byte /\ p[i] < p[j]
  BY DEF sort_by_start_byte
<1>2. DOMAIN cs = 1 .. Len(cs) /\ Len(cs) \in Nat
  OBVIOUS
<1>3. \A i \in DOMAIN cs : p[i] \in DOMAIN cs /\ cs[p[i]] \in Chunk
  OBVIOUS
<1>4. s \in Seq(Chunk) /\ DOMAIN s = DOMAIN cs
  BY <1>1, <1>2, <1>3
<1>5. \A i, j \in DOMAIN cs : i < j => p[i] # p[j]
  <2> SUFFICES ASSUME NEW i \in DOMAIN cs, NEW j \in DOMAIN cs, i < j, p[i] = p[j]
               PROVE  FALSE
    OBVIOUS
  <2>1. cs[p[i]] \in Chunk /\ p[i] \in 1 .. Len(cs)
    BY <1>2, <1>3
  <2>2. cs[p[i]].start_byte \in Nat
    BY <2>1 DEF Chunk
  <2> QED
    BY <1>1, <1>2, <2>1, <2>2
<1>6. \A i, j \in DOMAIN cs : i # j => p[i] # p[j]
  <2> SUFFICES ASSUME NEW i \in DOMAIN cs, NEW j \in DOMAIN cs, i # j
               PROVE  p[i] # p[j]
    OBVIOUS
  <2>1. i < j \/ j < i
    BY <1>2
  <2> QED
    BY <1>5, <2>1
<1>7. \A j \in DOMAIN cs : \E i \in DOMAIN cs : p[i] = j
  <2>1. p \in Injection(DOMAIN cs, DOMAIN cs) BY <1>6 DEF Injection, IsInjective
  <2>2. IsFiniteSet(DOMAIN cs) BY <1>2, FS_Interval
  <2>3. p \in Surjection(DOMAIN cs, DOMAIN cs) BY <2>1, <2>2, FS_Injection
  <2> QED BY <2>3 DEF Surjection
<1>8. \A i \in DOMAIN cs : s[i] = cs[p[i]]
  BY <1>1
<1> QED
  BY <1>4, <1>6, <1>7, <1>8 DEF Moved

\* Every definition has its chunk.
Complete(g) == \A n \in DOMAIN node : recognize_definition(n) => \E i \in DOMAIN g : g[i] = n

LEMMA BuildIs ==
    ASSUME WellFormed, NEW n \in DOMAIN node, recognize_definition(n),
           NEW parent \in Name \cup {None}, node[n].receiver # None \/ Handed(parent, n)
    PROVE  build_chunk(n, parent) \in Chunk /\ Built(build_chunk(n, parent), n)
<1> DEFINE s == span_node(n)
           e == extend_to_line_end(node[s].end)
           c == build_chunk(n, parent)
<1>1. node[n].name \in Name \cup {None}
  BY TreeIs DEF Node
<1>2. symbol_type(n) \in {"Function", "Class", "Method", "Struct"}
  BY DEF symbol_type
<1>3. s \in DOMAIN node /\ node[s].kind \in Spanned
  BY SpanIs
<1>4. /\ node[s].start \in Nat /\ node[s].end \in 1 .. Len(source) /\ Content(node[s].end - 1)
      /\ Len(source) \in Nat
  BY <1>3, SpannedIs, TreeIs
<1>5. e \in node[s].end .. Len(source)
  BY <1>4, ExtendIs
<1>6. node[s].end \in Nat /\ e \in Nat
  BY <1>4, <1>5
<1>7. Newlines(node[s].start) \in Nat /\ Newlines(node[s].end) \in Nat
  BY <1>4, <1>6, NewlinesIs
<1>8. c = [name |-> node[n].name, type |-> symbol_type(n), parent |-> parent,
           start_byte |-> node[s].start, end_byte |-> e,
           start_line |-> Newlines(node[s].start) + 1, end_line |-> Newlines(node[s].end) + 1,
           refs |-> {}, heuristic |-> FALSE]
  BY DEF build_chunk
<1> HIDE DEF s, e, c
<1>9. c \in Chunk
  BY <1>1, <1>2, <1>4, <1>6, <1>7, <1>8 DEF Chunk
<1>10. /\ c.start_byte = node[s].start /\ c.end_byte = e
       /\ c.start_line = Newlines(node[s].start) + 1 /\ c.end_line = Newlines(node[s].end) + 1
      /\ ~c.heuristic /\ c.name = node[n].name /\ c.type = symbol_type(n) /\ c.parent = parent
  BY <1>8
<1>11. c.start_line = Newlines(c.start_byte) + 1
  BY <1>10
<1>12. Built(c, n)
  BY <1>10, <1>11 DEF Built, Extended, s, e
<1> QED
  BY <1>9, <1>12 DEF c

LEMMA HeaderTyped ==
    ASSUME WellFormed, NEW o \in Headers
    PROVE  heuristic_chunk(o) \in Chunk
<1> DEFINE end == HeaderEnd(o) lines == line_range(o, end)
<1>1. o \in Nat /\ Len(source) \in Nat /\ end \in o + 1 .. Len(source)
  BY HeaderIs, TreeIs
<1>2. end \in Nat /\ (IF end - 1 > o THEN end - 1 ELSE o) \in Nat
  BY <1>1
<1> HIDE DEF end
<1>3. lines.start \in Nat /\ lines.end \in Nat
  <2>1. /\ Newlines(o) \in Nat
        /\ Newlines(IF end - 1 > o THEN end - 1 ELSE o) \in Nat
    BY <1>1, <1>2, NewlinesIs
  <2> QED
    BY <2>1 DEF line_range
<1>4. heuristic_chunk(o) =
         [name |-> None, type |-> IF byte(o) = "class" THEN "Class" ELSE "Function",
          parent |-> None, start_byte |-> o, end_byte |-> end,
          start_line |-> lines.start, end_line |-> lines.end, refs |-> {}, heuristic |-> TRUE]
  BY DEF heuristic_chunk, end
<1> HIDE DEF lines
<1> QED
  BY <1>1, <1>2, <1>3, <1>4 DEF Chunk

LEMMA CompleteKept ==
    ASSUME UNCHANGED file, NEW g
    PROVE  Complete(g)' = Complete(g)
BY FileKept, Zenon DEF Complete

\* The chunks of an extraction keep their nodes when they are sorted.
LEMMA SortedFrom ==
    ASSUME UNCHANGED file, NEW cs \in Seq(Chunk), chunks' \in sort_by_start_byte(cs),
           NEW g \in [DOMAIN cs -> DOMAIN node],
           \A i, j \in DOMAIN cs : i # j => g[i] # g[j],
           \A i \in DOMAIN cs : Built(cs[i], g[i]), Complete(g)
    PROVE  chunks' \in Seq(Chunk) /\ \E h : From(h)' /\ Complete(h)'
<1>1. chunks' \in Seq(Chunk) /\ DOMAIN chunks' = DOMAIN cs /\ Moved(chunks', cs)
  BY SortIs
<1>2. PICK p \in [DOMAIN cs -> DOMAIN cs] :
         /\ \A i \in DOMAIN cs : chunks'[i] = cs[p[i]]
         /\ \A i, j \in DOMAIN cs : i # j => p[i] # p[j]
         /\ \A j \in DOMAIN cs : \E i \in DOMAIN cs : p[i] = j
  BY <1>1 DEF Moved
<1> DEFINE h == [i \in DOMAIN cs |-> g[p[i]]]
<1>3. DOMAIN h = DOMAIN cs /\ \A i \in DOMAIN cs : h[i] = g[p[i]] /\ p[i] \in DOMAIN cs
  OBVIOUS
<1>4. h \in [DOMAIN chunks' -> DOMAIN node]
  BY <1>1
<1> HIDE DEF h
<1>5. \A i, j \in DOMAIN chunks' : i # j => h[i] # h[j]
  BY <1>1, <1>2, <1>3
<1>6. \A i \in DOMAIN chunks' : Built(chunks'[i], h[i])
  BY <1>1, <1>2, <1>3
<1>7. From(h)'
  BY <1>4, <1>5, <1>6, FromNext
<1>8. \A j \in DOMAIN g : \E i \in DOMAIN h : h[i] = g[j]
  BY <1>2, <1>3
<1>9. Complete(h)
  BY <1>8 DEF Complete
<1>10. Complete(h)'
  BY <1>9, CompleteKept
<1> QED
  BY <1>1, <1>7, <1>10

-----------------------------------------------------------------------------
(* The inductive invariant.                                                *)

\* Every definition that is not yet to see has its chunk.
Covers(g, q) ==
    \A n \in DOMAIN node : recognize_definition(n) =>
        Waits(q, n) \/ \E i \in DOMAIN g : g[i] = n

XInv ==
    /\ WellFormed /\ Types
    /\ pc = "measure" => chunks = <<>>
    /\ pc = "extract" => /\ Pending(todo) /\ Threaded(todo)
                        /\ \E g : From(g) /\ Ahead(g) /\ Covers(g, todo)
    /\ pc = "calls" => \E g : From(g) /\ Complete(g)
    /\ pc = "done" => FromHeaders \/ \E g : From(g) /\ Complete(g)

LEMMA FromKept ==
    ASSUME UNCHANGED <<file, chunks>>, NEW g, From(g)
    PROVE  From(g)'
BY FileKept, BuiltKept DEF From

LEMMA HeadersKept ==
    ASSUME UNCHANGED file
    PROVE  /\ Headers' = Headers /\ InOrder(Headers)' = InOrder(Headers)
           /\ \A o : heuristic_chunk(o)' = heuristic_chunk(o)
<1>1. /\ node' = node /\ source' = source /\ \A e : byte(e)' = byte(e)
      /\ \A o : Newlines(o)' = Newlines(o)
  BY FileKept
<1>2. Headers' = Headers
  BY <1>1, Zenon DEF Headers, byte
<1>3. InOrder(Headers)' = InOrder(Headers)
  BY <1>2, Zenon DEF InOrder
<1>4. \A o : HeaderEnd(o)' = HeaderEnd(o)
  BY <1>1, <1>2, Zenon DEF HeaderEnd, Least
<1>5. ASSUME NEW o PROVE heuristic_chunk(o)' = heuristic_chunk(o)
  BY <1>1, <1>4, ZenonT(60) DEF heuristic_chunk, line_range, HeaderEnd, Headers, Least, byte, Newlines
<1> QED
  BY <1>2, <1>3, <1>5

LEMMA SubsetIs ==
    ASSUME WellFormed, NEW n, NEW S \in SUBSET Children(n), S # {}
    PROVE  Least(S) \in DOMAIN node
<1>1. S \in SUBSET Nat
  BY TreeIs DEF Children
<1> QED
  BY <1>1, LeastIs DEF Children

LEMMA WalkIs ==
    ASSUME WellFormed, cursor \in DOMAIN node, climbing \in BOOLEAN, goto_first_child
    PROVE  cursor' \in DOMAIN node /\ climbing' \in BOOLEAN
BY SubsetIs DEF goto_first_child

\* The chunks with their references, before they are sorted again.
Enriched ==
    [i \in DOMAIN chunks |->
        [chunks[i] EXCEPT !.refs = call_names_in_span(chunks[i].start_byte, chunks[i].end_byte)]]

LEMMA EnrichIs ==
    ASSUME WellFormed, Types
    PROVE  /\ Enriched \in Seq(Chunk) /\ DOMAIN Enriched = DOMAIN chunks
           /\ \A i \in DOMAIN chunks :
                 /\ Enriched[i].start_byte = chunks[i].start_byte
                 /\ Enriched[i].end_byte = chunks[i].end_byte
                 /\ Enriched[i].start_line = chunks[i].start_line
                 /\ Enriched[i].end_line = chunks[i].end_line
                 /\ Enriched[i].heuristic = chunks[i].heuristic
                 /\ Enriched[i].name = chunks[i].name /\ Enriched[i].type = chunks[i].type
                 /\ Enriched[i].parent = chunks[i].parent
                 /\ Enriched[i].refs = call_names_in_span(chunks[i].start_byte, chunks[i].end_byte)
<1> DEFINE R(i) == call_names_in_span(chunks[i].start_byte, chunks[i].end_byte)
<1>1. chunks \in Seq(Chunk) /\ DOMAIN chunks = 1 .. Len(chunks) /\ Len(chunks) \in Nat
  BY DEF Types
<1>2. ASSUME NEW i \in DOMAIN chunks PROVE R(i) \in SUBSET Name
  <2>1. \A k \in DOMAIN calls : calls[k] \in DOMAIN node /\ node[calls[k]].name # None
    BY DEF Types
  <2>2. \A k \in DOMAIN calls : node[calls[k]].name \in Name
    BY <2>1, TreeIs DEF Node
  <2> QED
    BY <2>2 DEF call_names_in_span
<1> HIDE DEF R
<1>3. ASSUME NEW i \in DOMAIN chunks
      PROVE  LET c == [chunks[i] EXCEPT !.refs = R(i)]
             IN  /\ c \in Chunk
                 /\ c.start_byte = chunks[i].start_byte /\ c.end_byte = chunks[i].end_byte
                 /\ c.start_line = chunks[i].start_line /\ c.end_line = chunks[i].end_line
                 /\ c.heuristic = chunks[i].heuristic /\ c.name = chunks[i].name
                 /\ c.type = chunks[i].type /\ c.parent = chunks[i].parent /\ c.refs = R(i)
  <2>1. chunks[i] \in Chunk /\ R(i) \in SUBSET Name
    BY <1>1, <1>2
  <2> QED
    BY <2>1 DEF Chunk
<1>4. Enriched = [i \in DOMAIN chunks |-> [chunks[i] EXCEPT !.refs = R(i)]]
  BY DEF Enriched, R
<1>5. Enriched \in Seq(Chunk)
  <2>1. Enriched \in [1 .. Len(chunks) -> Chunk]
    BY <1>1, <1>3, <1>4, Zenon
  <2> QED
    BY <1>1, <2>1
<1>6. \A i \in DOMAIN chunks : Enriched[i] = [chunks[i] EXCEPT !.refs = R(i)]
  BY <1>4
<1> QED
  BY <1>3, <1>4, <1>5, <1>6 DEF R

LEMMA Initial == XInit => XInv
<1> SUFFICES ASSUME XInit PROVE XInv
  OBVIOUS
<1>1. WellFormed /\ pc = "measure" /\ chunks = <<>>
  BY DEF XInit
<1>2. Types
  <2>1. cursor \in DOMAIN node
    BY <1>1, TreeIs DEF XInit
  <2>2. todo \in Seq((DOMAIN node) \X (Name \cup {None})) /\ chunks \in Seq(Chunk)
        /\ calls \in Seq({n \in DOMAIN node : node[n].name # None})
    BY DEF XInit
  <2> QED
    BY <2>1, <2>2 DEF XInit, Types
<1> QED
  BY <1>1, <1>2 DEF XInv

LEMMA Step == XInv /\ [XNext]_xvars => XInv'
<1> SUFFICES ASSUME XInv, [XNext]_xvars PROVE XInv'
  OBVIOUS
<1> USE DEF XInv
<1>0. UNCHANGED file
  BY DEF XNext, xvars, Measure, CollectCall, goto_next_sibling, goto_parent, FallBack, TrustTree,
         CollectDefinition, CollectOther, Extracted, Enrich
<1>1. WellFormed' /\ node' = node
  BY <1>0, WellFormedKept, FileKept
<1>2. WellFormed /\ Types
  OBVIOUS
<1>3. CASE Measure
  <2>1. Types'
    BY <1>1, <1>2, <1>3, WalkIs DEF Measure, Types
  <2> QED
    BY <1>1, <1>3, <2>1 DEF Measure
<1>4. ASSUME UNCHANGED chunks, pc = "calls", pc' = pc, Types' PROVE XInv'
  <2>1. \E g : From(g)' /\ Complete(g)'
    BY <1>0, <1>4, FromKept, CompleteKept
  <2> QED
    BY <1>1, <1>4, <2>1
<1>5. CASE CollectCall
  <2>1. calls' \in Seq({n \in DOMAIN node : node[n].name # None})
    BY <1>2, <1>5 DEF CollectCall, Types
  <2>2. Types'
    BY <1>1, <1>2, <1>5, <2>1, WalkIs DEF CollectCall, Types
  <2> QED
    BY <1>4, <1>5, <2>2 DEF CollectCall
<1>6. CASE goto_next_sibling
  <2>1. cursor' \in DOMAIN node
    BY <1>2, <1>6, SubsetIs DEF goto_next_sibling, LaterSiblings
  <2>2. Types'
    BY <1>1, <1>2, <1>6, <2>1 DEF goto_next_sibling, Types
  <2>3. CASE pc = "measure"
    BY <1>1, <1>6, <2>2, <2>3 DEF goto_next_sibling
  <2> QED
    BY <1>4, <1>6, <2>2, <2>3 DEF goto_next_sibling
<1>7. CASE goto_parent
  <2>1. cursor' \in DOMAIN node
    BY <1>2, <1>7, UpIs DEF goto_parent, Types
  <2>2. Types'
    BY <1>1, <1>2, <1>7, <2>1 DEF goto_parent, Types
  <2>3. CASE pc = "measure"
    BY <1>1, <1>7, <2>2, <2>3 DEF goto_parent
  <2> QED
    BY <1>4, <1>7, <2>2, <2>3 DEF goto_parent
<1>8. CASE FallBack
  <2>1. PICK h \in InOrder(Headers) : chunks' = [i \in DOMAIN h |-> heuristic_chunk(h[i])]
    BY <1>8 DEF FallBack
  <2>2. h \in Seq(Headers) /\ DOMAIN h = 1 .. Len(h) /\ Len(h) \in Nat
    BY <1>2, HeadersIs, InOrderIs
  <2>3. \A i \in 1 .. Len(h) : heuristic_chunk(h[i]) \in Chunk
    BY <1>2, <2>2, HeaderTyped
  <2>4. chunks' \in Seq(Chunk)
    BY <2>1, <2>2, <2>3
  <2>5. Types'
    BY <1>1, <1>2, <1>8, <2>4 DEF FallBack, Types
  <2>6. FromHeaders'
    <3>1. h \in InOrder(Headers)'
      BY <1>0, HeadersKept
    <3>2. chunks' = [i \in DOMAIN h |-> heuristic_chunk(h[i])']
      BY <1>0, <2>1, HeadersKept
    <3> QED
      BY <3>1, <3>2 DEF FromHeaders
  <2> QED
    BY <1>1, <1>8, <2>5, <2>6 DEF FallBack
<1>9. ASSUME Types', pc' = "extract", Pending(todo'), Threaded(todo'),
             NEW g, From(g)', Ahead(g)', Covers(g, todo')
      PROVE  XInv'
  <2>1. Pending(todo)' /\ Threaded(todo)'
    BY <1>0, <1>9, FileKept, HandedKept DEF Pending, Threaded
  <2>2. Covers(g, todo)'
    BY <1>0, <1>1, <1>9, FileKept DEF Covers, Waits
  <2> QED
    BY <1>1, <1>9, <2>1, <2>2
<1>10. CASE TrustTree
  <2>1. Root \in DOMAIN node /\ None \in Name \cup {None}
    BY <1>2, TreeIs
  <2>2. PICK c \in InOrder(Children(Root)) :
           todo' = [i \in DOMAIN c |-> <<c[i], None>>] \o <<>>
    BY <1>10 DEF TrustTree, Recurse
  <2>3. todo' \in Seq((DOMAIN node) \X (Name \cup {None})) /\ Pending(todo')
    <3>1. <<>> \in Seq((DOMAIN node) \X (Name \cup {None})) /\ Pending(<<>>)
      BY DEF Pending
    <3>2. \A k \in DOMAIN <<>> : Root < <<>>[k][1] /\ ~Ancestor(Root, <<>>[k][1])
      OBVIOUS
    <3> QED
      BY <1>2, <2>1, <2>2, <3>1, <3>2, RecurseIs
  <2>4. Types' /\ pc' = "extract" /\ chunks' = <<>>
    BY <1>1, <1>2, <1>10, <2>3 DEF TrustTree, Types
  <2>5. From(<<>>)' /\ Ahead(<<>>)'
    BY <2>4 DEF From, Ahead
  <2>6. <<>> \in Seq((DOMAIN node) \X (Name \cup {None})) /\ Threaded(<<>>)
    BY DEF Threaded
  <2>7. \A d \in Children(Root) : Handed(None, d)
    BY <1>2, <2>1, HandRoot, HandDown
  <2>8. Threaded(todo') /\ \A m \in DOMAIN node : Ancestor(Root, m) => Waits(todo', m)
    BY <1>2, <2>1, <2>2, <2>6, <2>7, RecurseAll
  <2>9. ASSUME NEW n \in DOMAIN node, recognize_definition(n) PROVE Ancestor(Root, n)
    BY <1>2, <2>9, RecognizedIs, SeeAll, TreeIs DEF SeenAt, Root
  <2>10. Covers(<<>>, todo')
    BY <2>8, <2>9 DEF Covers
  <2> QED
    BY <1>9, <2>3, <2>4, <2>5, <2>8, <2>10
<1>11. ASSUME pc = "extract", todo # <<>>
       PROVE  /\ child \in DOMAIN node /\ enclosing \in Name \cup {None}
              /\ Tail(todo) \in Seq((DOMAIN node) \X (Name \cup {None})) /\ Pending(Tail(todo))
              /\ \A k \in DOMAIN Tail(todo) :
                    child < Tail(todo)[k][1] /\ ~Ancestor(child, Tail(todo)[k][1])
              /\ Handed(enclosing, child) /\ Threaded(Tail(todo))
              /\ \A m \in DOMAIN node : Waits(todo, m) =>
                    m = child \/ Ancestor(child, m) \/ Waits(Tail(todo), m)
  <2>1. todo \in Seq((DOMAIN node) \X (Name \cup {None})) /\ Pending(todo) /\ Threaded(todo)
    BY <1>2, <1>11 DEF Types
  <2>2. /\ Len(todo) \in Nat \ {0} /\ 1 \in DOMAIN todo
        /\ \A k \in DOMAIN Tail(todo) : k \in Nat \ {0} /\ k + 1 \in DOMAIN todo
                                       /\ Tail(todo)[k] = todo[k + 1]
    BY <1>11, <2>1
  <2>3. Pending(Tail(todo))
    BY <2>1, <2>2 DEF Pending
  <2>4. \A k \in DOMAIN Tail(todo) :
           child < Tail(todo)[k][1] /\ ~Ancestor(child, Tail(todo)[k][1])
    BY <2>1, <2>2 DEF Pending, child
  <2>5. Handed(enclosing, child) /\ Threaded(Tail(todo))
    BY <2>1, <2>2 DEF Threaded, child, enclosing
  <2>6. \A k \in DOMAIN todo : k = 1 \/ (k - 1 \in DOMAIN Tail(todo) /\ todo[k] = Tail(todo)[k - 1])
    BY <1>11, <2>1
  <2>7. ASSUME NEW m \in DOMAIN node, Waits(todo, m)
        PROVE  m = child \/ Ancestor(child, m) \/ Waits(Tail(todo), m)
    BY <2>6, <2>7 DEF Waits, child
  <2> QED
    BY <2>1, <2>2, <2>3, <2>4, <2>5, <2>7, <1>11 DEF child, enclosing
<1>12. CASE CollectDefinition
  <2>1. /\ pc = "extract" /\ todo # <<>> /\ recognize_definition(child) /\ pc' = "extract"
        /\ Recurse(child, node[child].name, Tail(todo))
    BY <1>12 DEF CollectDefinition
  <2>2. PICK parent \in Name \cup {None} :
           /\ chunks' = Append(chunks, build_chunk(child, parent))
           /\ node[child].receiver # None \/ Handed(parent, child)
    BY <1>2, <1>11, <1>12, <2>1, TreeIs DEF CollectDefinition, Node, parent_override
  <2> DEFINE d == build_chunk(child, parent)
  <2>3. d \in Chunk /\ Built(d, child)
    BY <1>2, <1>11, <2>1, <2>2, BuildIs
  <2>4. PICK c \in InOrder(Children(child)) :
           todo' = [i \in DOMAIN c |-> <<c[i], node[child].name>>] \o Tail(todo)
    BY <2>1 DEF Recurse
  <2>5. node[child].name \in Name \cup {None}
    BY <1>2, <1>11, <2>1, TreeIs DEF Node
  <2>6. /\ todo' \in Seq((DOMAIN node) \X (Name \cup {None})) /\ Pending(todo')
        /\ \A k \in DOMAIN todo' : child < todo'[k][1] /\ todo'[k][1] \in Nat
    <3>1. /\ todo' \in Seq((DOMAIN node) \X (Name \cup {None})) /\ Pending(todo')
          /\ \A k \in DOMAIN todo' : child < todo'[k][1]
      BY <1>2, <1>11, <2>1, <2>4, <2>5, RecurseIs
    <3>2. \A k \in DOMAIN todo' : todo'[k][1] \in DOMAIN node
      BY <3>1
    <3> QED
      BY <1>2, <3>1, <3>2, TreeIs
  <2> HIDE DEF d
  <2>7. /\ chunks' \in Seq(Chunk) /\ Len(chunks) \in Nat /\ DOMAIN chunks = 1 .. Len(chunks)
        /\ DOMAIN chunks' = 1 .. Len(chunks) + 1 /\ chunks'[Len(chunks) + 1] = d
        /\ \A i \in DOMAIN chunks : chunks'[i] = chunks[i]
    BY <1>2, <2>2, <2>3 DEF Types, d
  <2>8. Types'
    BY <1>1, <1>2, <1>12, <2>6, <2>7 DEF CollectDefinition, Types
  <2>9. PICK g : From(g) /\ Ahead(g) /\ Covers(g, todo)
    BY <2>1
  <2> PICK h : h = [i \in 1 .. Len(chunks) + 1 |-> IF i \in DOMAIN chunks THEN g[i] ELSE child]
    OBVIOUS
  <2>10. /\ \A i \in DOMAIN chunks : h[i] = g[i] /\ g[i] \in DOMAIN node /\ g[i] < child
         /\ h[Len(chunks) + 1] = child /\ h \in [DOMAIN chunks' -> DOMAIN node]
    <3>1. \A i \in DOMAIN chunks : g[i] \in DOMAIN node /\ g[i] < child
      BY <1>2, <2>1, <2>9 DEF From, Ahead, child, Types
    <3> QED
      BY <1>11, <2>1, <2>7, <3>1
  <2>11. \A i \in DOMAIN chunks' : i \in DOMAIN chunks \/ i = Len(chunks) + 1
    BY <2>7
  <2>12. child \in Nat /\ DOMAIN node \subseteq Nat
    BY <1>2, <1>11, <2>1, TreeIs
  <2>13. \A i, j \in DOMAIN chunks' : i # j => h[i] # h[j]
    <3>1. \A i, j \in DOMAIN chunks : i # j => g[i] # g[j]
      BY <2>9 DEF From
    <3>2. SUFFICES ASSUME NEW i \in DOMAIN chunks', NEW j \in DOMAIN chunks', i # j
                   PROVE  h[i] # h[j]
      OBVIOUS
    <3>3. CASE i \in DOMAIN chunks /\ j \in DOMAIN chunks
      BY <2>10, <3>1, <3>2, <3>3
    <3>4. ASSUME NEW k \in DOMAIN chunks PROVE h[k] # h[Len(chunks) + 1]
      <4>1. h[k] \in Nat /\ h[k] < child /\ h[Len(chunks) + 1] = child
        BY <2>10, <2>12
      <4> QED
        BY <2>12, <4>1
    <3> QED
      BY <2>11, <3>2, <3>3, <3>4
  <2>14. \A i \in DOMAIN chunks' : Built(chunks'[i], h[i])
    <3>1. \A i \in DOMAIN chunks : Built(chunks[i], g[i])
      BY <2>9 DEF From
    <3>2. \A i \in DOMAIN chunks : Built(chunks'[i], h[i])
      BY <2>7, <2>10, <3>1
    <3>3. Built(chunks'[Len(chunks) + 1], h[Len(chunks) + 1])
      BY <2>3, <2>7, <2>10
    <3> QED
      BY <2>11, <3>2, <3>3
  <2>15. From(h)'
    BY <1>0, <2>10, <2>13, <2>14, FromNext
  <2>16. Ahead(h)'
    <3>1. ASSUME NEW i \in DOMAIN chunks', NEW k \in DOMAIN todo' PROVE h[i] < todo'[k][1]
      <4>1. h[i] \in Nat /\ h[i] <= child
        <5>1. CASE i \in DOMAIN chunks
          <6>1. h[i] = g[i] /\ g[i] \in Nat /\ g[i] < child
            BY <2>10, <2>12, <5>1
          <6> QED
            BY <2>12, <6>1
        <5>2. CASE i = Len(chunks) + 1
          BY <2>10, <2>12, <5>2
        <5> QED
          BY <2>11, <5>1, <5>2
      <4>2. child < todo'[k][1] /\ todo'[k][1] \in Nat
        BY <2>6
      <4> QED
        BY <2>12, <4>1, <4>2
    <3> QED
      BY <3>1 DEF Ahead
  <2>17. Threaded(todo') /\ \A m \in DOMAIN node :
            Ancestor(child, m) \/ Waits(Tail(todo), m) => Waits(todo', m)
    <3>1. \A e \in Children(child) : Handed(node[child].name, e)
      BY <1>2, <1>11, <2>1, HandDown
    <3> QED
      BY <1>2, <1>11, <2>1, <2>4, <2>5, <3>1, RecurseAll
  <2>18. Covers(h, todo')
    <3>1. DOMAIN h = 1 .. Len(chunks) + 1 /\ DOMAIN g = DOMAIN chunks
      BY <2>7, <2>9, <2>10 DEF From
    <3>2. SUFFICES ASSUME NEW n \in DOMAIN node, recognize_definition(n), ~Waits(todo', n)
                   PROVE  \E i \in DOMAIN h : h[i] = n
      BY DEF Covers
    <3>3. CASE n = child
      BY <2>7, <2>10, <3>1, <3>3
    <3>4. CASE n # child
      <4>1. ~Waits(todo, n) BY <1>11, <2>1, <2>17, <3>2, <3>4
      <4>2. PICK i \in DOMAIN g : g[i] = n BY <2>9, <3>2, <4>1 DEF Covers
      <4> QED BY <2>7, <2>10, <3>1, <4>2
    <3> QED BY <3>3, <3>4
  <2> QED
    BY <1>9, <2>1, <2>6, <2>8, <2>15, <2>16, <2>17, <2>18
<1>13. CASE CollectOther
  <2>1. /\ pc = "extract" /\ todo # <<>> /\ pc' = "extract" /\ UNCHANGED chunks
        /\ ~recognize_definition(child) /\ Recurse(child, enclosing, Tail(todo))
    BY <1>13 DEF CollectOther
  <2>2. PICK c \in InOrder(Children(child)) :
           todo' = [i \in DOMAIN c |-> <<c[i], enclosing>>] \o Tail(todo)
    BY <2>1 DEF Recurse
  <2>3. /\ todo' \in Seq((DOMAIN node) \X (Name \cup {None})) /\ Pending(todo')
        /\ \A k \in DOMAIN todo' : child < todo'[k][1]
    BY <1>2, <1>11, <2>1, <2>2, RecurseIs
  <2>4. Types'
    BY <1>1, <1>2, <1>13, <2>3 DEF CollectOther, Types
  <2>5. PICK g : From(g) /\ Ahead(g) /\ Covers(g, todo)
    BY <2>1
  <2>6. From(g)'
    BY <1>0, <2>1, <2>5, FromKept
  <2>7. Ahead(g)'
    <3>1. ASSUME NEW i \in DOMAIN chunks', NEW k \in DOMAIN todo' PROVE g[i] < todo'[k][1]
      <4>1. g[i] \in DOMAIN node /\ g[i] < child /\ child \in DOMAIN node
        BY <1>2, <1>11, <2>1, <2>5 DEF From, Ahead, child, Types
      <4>2. todo'[k][1] \in DOMAIN node /\ child < todo'[k][1]
        BY <2>3
      <4> QED
        BY <1>2, <4>1, <4>2, TreeIs
    <3> QED
      BY <3>1 DEF Ahead
  <2>8. Threaded(todo') /\ \A m \in DOMAIN node :
            Ancestor(child, m) \/ Waits(Tail(todo), m) => Waits(todo', m)
    <3>1. \A e \in Children(child) : Handed(enclosing, e)
      BY <1>2, <1>11, <2>1, HandDown
    <3> QED
      BY <1>2, <1>11, <2>1, <2>2, <3>1, RecurseAll
  <2>9. Covers(g, todo')
    BY <1>11, <2>1, <2>5, <2>8 DEF Covers
  <2> QED
    BY <1>9, <2>1, <2>3, <2>4, <2>6, <2>7, <2>8, <2>9
<1>14. CASE Extracted
  <2>1. PICK g : From(g) /\ Covers(g, todo)
    BY <1>14 DEF Extracted
  <2>4. Complete(g)
    BY <1>14, <2>1 DEF Extracted, Covers, Waits, Complete
  <2>2. chunks' \in Seq(Chunk) /\ \E h : From(h)' /\ Complete(h)'
    BY <1>0, <1>2, <1>14, <2>1, <2>4, SortedFrom DEF Extracted, From, Types
  <2>3. Types'
    BY <1>1, <1>2, <1>14, <2>2, TreeIs DEF Extracted, Types
  <2> QED
    BY <1>1, <1>14, <2>2, <2>3 DEF Extracted
<1>15. CASE Enrich
  <2>1. PICK g : From(g) /\ Complete(g)
    BY <1>15 DEF Enrich
  <2>2. /\ Enriched \in Seq(Chunk) /\ DOMAIN Enriched = DOMAIN chunks
        /\ chunks' \in sort_by_start_byte(Enriched)
    BY <1>2, <1>15, EnrichIs DEF Enrich, Enriched
  <2>3. /\ g \in [DOMAIN Enriched -> DOMAIN node]
        /\ \A i, j \in DOMAIN Enriched : i # j => g[i] # g[j]
        /\ \A i \in DOMAIN Enriched : Built(Enriched[i], g[i])
    BY <1>2, <2>1, <2>2, EnrichIs DEF From, Built
  <2>4. chunks' \in Seq(Chunk) /\ \E h : From(h)' /\ Complete(h)'
    BY <1>0, <2>1, <2>2, <2>3, SortedFrom
  <2>5. Types'
    BY <1>1, <1>2, <1>15, <2>4 DEF Enrich, Types
  <2> QED
    BY <1>1, <1>15, <2>4, <2>5 DEF Enrich
<1>16. CASE UNCHANGED xvars
  <2>1. UNCHANGED <<file, pc, cursor, climbing, named, bad, todo, chunks, calls>>
    BY <1>16 DEF xvars
  <2>2. Types'
    BY <1>1, <1>2, <2>1 DEF Types
  <2>3. CASE pc = "extract"
    <3>1. PICK g : From(g) /\ Ahead(g) /\ Covers(g, todo)
      BY <2>3
    <3>2. From(g)' /\ Ahead(g)' /\ Covers(g, todo')
      BY <2>1, <3>1, FromKept DEF Ahead
    <3> QED
      BY <1>9, <2>1, <2>2, <2>3, <3>2
  <2>4. CASE pc = "calls"
    BY <1>4, <2>1, <2>2, <2>4
  <2>5. CASE pc = "measure"
    BY <1>1, <2>1, <2>2, <2>5
  <2>6. CASE pc = "done"
    <3>1. CASE FromHeaders
      <4>1. FromHeaders'
        BY <2>1, <3>1, HeadersKept DEF FromHeaders
      <4> QED
        BY <1>1, <2>1, <2>2, <2>6, <4>1
    <3>2. CASE \E g : From(g) /\ Complete(g)
      <4>1. \E g : From(g)' /\ Complete(g)'
        BY <2>1, <3>2, FromKept, CompleteKept
      <4> QED
        BY <1>1, <2>1, <2>2, <2>6, <4>1
    <3> QED
      BY <2>6, <3>1, <3>2
  <2> QED
    BY <1>2, <2>3, <2>4, <2>5, <2>6 DEF Types
<1> QED
  BY <1>3, <1>5, <1>6, <1>7, <1>8, <1>10, <1>12, <1>13, <1>14, <1>15, <1>16 DEF XNext

-----------------------------------------------------------------------------
(* What the invariant says of the chunks.                                  *)

\* From one header to the next, and from the last to the end of the file.
LEMMA TilesImplied == XInv => FallbackTiles
<1> SUFFICES ASSUME XInv, chunks # <<>>, chunks[1].heuristic
             PROVE  /\ chunks[Len(chunks)].end_byte = Len(source)
                    /\ \A i \in 1 .. Len(chunks) - 1 :
                          chunks[i].end_byte = chunks[i + 1].start_byte
                    /\ \A o \in Headers : \E i \in DOMAIN chunks : chunks[i].start_byte = o
  BY DEF FallbackTiles
<1>1. WellFormed /\ chunks \in Seq(Chunk)
  BY DEF XInv, Types
<1>2. 1 \in DOMAIN chunks /\ Len(chunks) \in DOMAIN chunks /\ DOMAIN chunks = 1 .. Len(chunks)
      /\ Len(chunks) \in Nat
  BY <1>1
<1>3. ~\E g : From(g)
  BY <1>2 DEF From, Built
<1>4. FromHeaders
  BY <1>1, <1>3 DEF XInv, Types
<1>5. PICK h \in InOrder(Headers) : chunks = [i \in DOMAIN h |-> heuristic_chunk(h[i])]
  BY <1>4 DEF FromHeaders
<1>6. Headers \in SUBSET Nat /\ IsFiniteSet(Headers) /\ Len(source) \in Nat
      /\ \A o \in Headers : o < Len(source)
  <2>1. Len(source) \in Nat /\ \A o \in Headers : o \in Nat /\ o < Len(source)
    BY <1>1, HeadersIs
  <2>2. \A o \in Headers : o \in Nat /\ o <= Len(source)
    BY <2>1
  <2> QED
    BY <2>1, <2>2, BoundedFinite
<1>7. /\ DOMAIN h = DOMAIN chunks /\ \A i \in DOMAIN h : h[i] \in Headers /\ h[i] \in Nat
      /\ \A i, j \in DOMAIN h : i < j => h[i] < h[j]
      /\ \A o \in Headers : \E i \in DOMAIN h : h[i] = o
  BY <1>5, <1>6, InOrderOnto DEF InOrder
<1>8. \A i \in DOMAIN h : chunks[i].start_byte = h[i] /\ chunks[i].end_byte = HeaderEnd(h[i])
  BY <1>5, HeaderChunkIs DEF HeaderChunk
<1>9. ASSUME NEW i \in DOMAIN h, HeaderEnd(h[i]) \in Headers
      PROVE  i + 1 \in DOMAIN h /\ HeaderEnd(h[i]) >= h[i + 1]
  <2>1. PICK k \in DOMAIN h : h[k] = HeaderEnd(h[i])
    BY <1>7, <1>9
  <2>2. h[k] > h[i]
    BY <1>1, <1>6, <1>7, <2>1, HeaderIs
  <2>3. k > i
    BY <1>2, <1>7, <2>2
  <2>4. i + 1 \in DOMAIN h /\ (k = i + 1 \/ i + 1 < k)
    BY <1>2, <1>7, <2>3
  <2>5. CASE k = i + 1
    BY <1>7, <2>1, <2>4, <2>5
  <2>6. CASE i + 1 < k
    <3>1. h[i + 1] < h[k] /\ h[i + 1] \in Nat /\ h[k] \in Nat
      BY <1>7, <2>4, <2>6
    <3> QED
      BY <2>1, <2>4, <3>1
  <2> QED
    BY <2>4, <2>5, <2>6
<1>10. ASSUME NEW i \in 1 .. Len(chunks) - 1
       PROVE  chunks[i].end_byte = chunks[i + 1].start_byte
  <2>1. i \in DOMAIN h /\ i + 1 \in DOMAIN h /\ h[i] < h[i + 1]
    BY <1>2, <1>7
  <2>2. HeaderEnd(h[i]) <= h[i + 1] /\ HeaderEnd(h[i]) \in Headers /\ HeaderEnd(h[i]) \in Nat
    <3>1. h[i] \in Headers /\ h[i + 1] \in Headers
      BY <1>7, <2>1
    <3>2. /\ HeaderEnd(h[i]) <= h[i + 1]
          /\ HeaderEnd(h[i]) \in Headers \/ HeaderEnd(h[i]) = Len(source)
      BY <1>1, <2>1, <3>1, HeaderIs
    <3>3. h[i + 1] \in Nat /\ h[i + 1] < Len(source)
      BY <1>6, <3>1
    <3>4. Len(source) \in Nat /\ HeaderEnd(h[i]) # Len(source)
      BY <1>6, <3>2, <3>3
    <3>5. HeaderEnd(h[i]) \in Headers
      BY <3>2, <3>4
    <3> QED
      BY <1>6, <3>2, <3>5
  <2> QED
    BY <1>7, <1>8, <1>9, <2>1, <2>2
<1>11. chunks[Len(chunks)].end_byte = Len(source)
  <2>1. ~(Len(chunks) + 1 \in DOMAIN h)
    BY <1>2, <1>7
  <2> QED
    BY <1>1, <1>2, <1>7, <1>8, <1>9, <2>1, HeaderIs
<1>12. ASSUME NEW o \in Headers PROVE \E i \in DOMAIN chunks : chunks[i].start_byte = o
  <2>1. PICK i \in DOMAIN h : h[i] = o
    BY <1>7
  <2> QED
    BY <1>7, <1>8, <2>1
<1> QED
  BY <1>10, <1>11, <1>12

\* The chunks around a chunk are those of the definitions above its own.
LEMMA AroundIs ==
    ASSUME WellFormed, NEW g, From(g), NEW i \in DOMAIN chunks, NEW j \in DOMAIN chunks, i # j
    PROVE  Encloses(chunks[j], chunks[i]) <=> Ancestor(g[j], g[i])
<1>1. /\ g[i] \in DOMAIN node /\ g[j] \in DOMAIN node /\ g[i] # g[j]
      /\ Built(chunks[i], g[i]) /\ Built(chunks[j], g[j])
  BY DEF From
<1>2. Encloses(Extended(span_node(g[j])), Extended(span_node(g[i]))) <=> Ancestor(g[j], g[i])
  BY <1>1, EnclosesIs DEF Built
<1> QED
  BY <1>1, <1>2 DEF Built, Encloses

\* The innermost of them is that of the nearest definition.
LEMMA InnermostIs ==
    ASSUME WellFormed, NEW g, From(g), Complete(g), NEW i \in DOMAIN chunks
    PROVE  /\ \A a \in DOMAIN node : Nearest(a, g[i]) => \E j \in Innermost(i) : g[j] = a
           /\ \A j \in Innermost(i) : j \in DOMAIN chunks /\ Nearest(g[j], g[i])
           /\ (\A a \in DOMAIN node : Ancestor(a, g[i]) => ~recognize_definition(a))
                 => Around(i) = {}
<1>0. DOMAIN node \subseteq Nat
  BY TreeIs
<1>1. /\ DOMAIN g = DOMAIN chunks
      /\ \A k \in DOMAIN chunks : g[k] \in DOMAIN node /\ recognize_definition(g[k])
      /\ \A k, l \in DOMAIN chunks : g[k] = g[l] => k = l
  BY DEF From, Built
<1>2. \A j \in DOMAIN chunks : j \in Around(i) <=> Ancestor(g[j], g[i])
  <2>1. ~Ancestor(g[i], g[i])
    BY <1>0, <1>1 DEF Ancestor
  <2> QED
    BY <2>1, AroundIs DEF Around
<1>3. ASSUME NEW a \in DOMAIN node, Nearest(a, g[i])
      PROVE  \E j \in Innermost(i) : g[j] = a
  <2>1. PICK j \in DOMAIN chunks : g[j] = a
    BY <1>1, <1>3 DEF Complete, Nearest
  <2>2. j \in Around(i)
    BY <1>2, <1>3, <2>1 DEF Nearest
  <2>3. ASSUME NEW k \in Around(i) PROVE Encloses(chunks[k], chunks[j])
    <3>1. k \in DOMAIN chunks /\ Ancestor(g[k], g[i]) /\ g[k] <= a /\ a < g[i]
      BY <1>1, <1>2, <1>3, <2>3 DEF Around, Nearest, Ancestor
    <3>2. CASE k = j
      <4>1. chunks[j].start_byte \in Nat /\ chunks[j].end_byte \in Nat
        BY <1>1, BuiltIs DEF From
      <4> QED
        BY <3>2, <4>1 DEF Encloses
    <3>3. CASE k # j
      <4>1. g[k] < a
        BY <1>0, <1>1, <2>1, <3>1, <3>3
      <4>2. Ancestor(g[k], g[j])
        BY <1>1, <2>1, <3>1, <4>1, AncestorIs
      <4> QED
        BY <3>1, <3>3, <4>2, AroundIs
    <3> QED
      BY <3>2, <3>3
  <2> QED
    BY <2>1, <2>2, <2>3 DEF Innermost
<1>4. ASSUME NEW j \in Innermost(i)
      PROVE  j \in DOMAIN chunks /\ Nearest(g[j], g[i])
  <2>1. j \in DOMAIN chunks /\ j \in Around(i) /\ Ancestor(g[j], g[i])
    BY <1>2, <1>4 DEF Innermost, Around
  <2>2. ASSUME NEW b \in DOMAIN node, Ancestor(b, g[i]), recognize_definition(b)
        PROVE  b <= g[j]
    <3>1. PICK k \in DOMAIN chunks : g[k] = b
      BY <1>1, <2>2 DEF Complete
    <3>2. Encloses(chunks[k], chunks[j])
      BY <1>2, <1>4, <2>2, <3>1 DEF Innermost
    <3>3. k = j \/ Ancestor(g[k], g[j])
      BY <2>1, <3>1, <3>2, AroundIs
    <3> QED
      BY <1>0, <1>1, <2>1, <3>1, <3>3 DEF Ancestor
  <2> QED
    BY <1>1, <2>1, <2>2 DEF Nearest
<1> QED
  BY <1>1, <1>2, <1>3, <1>4 DEF Around

LEMMA ParentImplied == XInv => ParentIsInnermost
<1> SUFFICES ASSUME XInv, pc = "done", NEW i \in DOMAIN chunks,
                    ~(file.lang = "Go" /\ chunks[i].type = "Method")
             PROVE  IF Around(i) = {} THEN chunks[i].parent = None
                    ELSE /\ ~chunks[i].heuristic
                         /\ \E j \in Innermost(i) : chunks[i].parent = chunks[j].name
  BY DEF ParentIsInnermost
<1>1. WellFormed /\ (FromHeaders \/ \E g : From(g) /\ Complete(g))
  BY DEF XInv
<1>2. CASE FromHeaders
  <2>1. Around(i) = {}
    BY <1>1, <1>2, HeadersApart DEF Around
  <2>2. chunks[i].parent = None
    BY <1>2, HeaderChunkIs DEF FromHeaders, HeaderChunk
  <2> QED
    BY <2>1, <2>2
<1>3. CASE \E g : From(g) /\ Complete(g)
  <2>1. PICK g : From(g) /\ Complete(g)
    BY <1>3
  <2> DEFINE n == g[i]
  <2>2. n \in DOMAIN node /\ Built(chunks[i], n) /\ recognize_definition(n)
    BY <2>1 DEF From, Built
  <2>3. node[n].receiver = None
    <3>1. SUFFICES ASSUME node[n].receiver # None PROVE FALSE
      OBVIOUS
    <3>2. node[n].kind = "method_declaration"
      BY <1>1, <2>2, <3>1 DEF WellFormed
    <3>3. file.lang = "Go"
      BY <2>2, <3>2 DEF recognize_definition, recognize_python, recognize_typescript
    <3>4. symbol_type(n) = "Method"
      BY <3>2 DEF symbol_type
    <3> QED
      BY <2>2, <3>3, <3>4 DEF Built
  <2>4. Handed(chunks[i].parent, n) /\ ~chunks[i].heuristic
    BY <2>2, <2>3 DEF Built
  <2>5. CASE \E a \in DOMAIN node : Nearest(a, n) /\ chunks[i].parent = node[a].name
    <3>1. PICK a \in DOMAIN node : Nearest(a, n) /\ chunks[i].parent = node[a].name
      BY <2>5
    <3>2. PICK j \in Innermost(i) : g[j] = a
      BY <1>1, <2>1, <3>1, InnermostIs
    <3>3. j \in Around(i) /\ j \in DOMAIN chunks
      BY <3>2 DEF Innermost, Around
    <3>4. chunks[j].name = node[a].name
      BY <2>1, <3>2, <3>3 DEF From, Built
    <3> QED
      BY <2>4, <3>1, <3>2, <3>3, <3>4
  <2>6. CASE /\ \A a \in DOMAIN node : Ancestor(a, n) => ~recognize_definition(a)
             /\ chunks[i].parent = None
    BY <1>1, <2>1, <2>6, InnermostIs
  <2> QED
    BY <2>4, <2>5, <2>6 DEF Handed
<1> QED
  BY <1>1, <1>2, <1>3

\* In Python and in TypeScript, the climb of parent_is_class ends at the nearest
\* definition.
LEMMA ClimbIs ==
    ASSUME WellFormed, NEW n \in DOMAIN node, recognize_definition(n), file.lang # "Go"
    PROVE  /\ symbol_type(n) = "Method" =>
                 \E a \in DOMAIN node : Nearest(a, n) /\ symbol_type(a) = "Class"
           /\ (file.lang = "Python" /\ symbol_type(n) = "Function") =>
                 \A a \in DOMAIN node : Nearest(a, n) => symbol_type(a) # "Class"
<1>0. DOMAIN node \subseteq Nat
  BY TreeIs
<1>1. CASE file.lang = "Python"
  <2>1. \A m \in DOMAIN node : recognize_definition(m) <=>
           node[m].kind \in {"function_definition", "class_definition"}
    BY <1>1 DEF recognize_definition, recognize_python
  <2>2. \A m \in DOMAIN node : node[m].kind = "class_definition" => symbol_type(m) = "Class"
    BY DEF symbol_type
  <2>3. ASSUME symbol_type(n) = "Method"
        PROVE  \E a \in DOMAIN node : Nearest(a, n) /\ symbol_type(a) = "Class"
    <3>1. node[n].kind = "function_definition" /\ python_parent_is_class(n)
      BY <2>1, <2>3 DEF symbol_type
    <3>2. PICK a \in DOMAIN node :
             /\ Ancestor(a, n) /\ node[a].kind = "class_definition"
             /\ \A b \in DOMAIN node : (Ancestor(b, n) /\ b > a) =>
                   node[b].kind \notin {"function_definition"} \cup {"class_definition"}
      BY <3>1 DEF python_parent_is_class, NearestIs
    <3>3. Nearest(a, n)
      BY <1>0, <2>1, <3>2 DEF Nearest
    <3> QED
      BY <2>2, <3>2, <3>3
  <2>4. ASSUME symbol_type(n) = "Function", NEW a \in DOMAIN node, Nearest(a, n),
               symbol_type(a) = "Class"
        PROVE  FALSE
    <3>1. node[n].kind = "function_definition" /\ ~python_parent_is_class(n)
      BY <2>1, <2>4 DEF symbol_type
    <3>2. node[a].kind = "class_definition"
      BY <2>1, <2>4 DEF symbol_type, Nearest
    <3>3. \A b \in DOMAIN node : (Ancestor(b, n) /\ b > a) =>
             node[b].kind \notin {"function_definition"} \cup {"class_definition"}
      BY <1>0, <2>1, <2>4 DEF Nearest
    <3> QED
      BY <2>4, <3>1, <3>2, <3>3 DEF python_parent_is_class, NearestIs, Nearest
  <2> QED
    BY <2>3, <2>4
<1>2. CASE file.lang = "TypeScript"
  <2>1. ASSUME symbol_type(n) = "Method"
        PROVE  \E a \in DOMAIN node : Nearest(a, n) /\ symbol_type(a) = "Class"
    <3>1. node[n].kind = "method_definition" /\ ts_parent_is_class(n)
      BY <1>2, <2>1 DEF symbol_type, recognize_definition, recognize_typescript
    <3>2. PICK a \in DOMAIN node :
             /\ Ancestor(a, n) /\ node[a].kind = "class_declaration"
             /\ \A b \in DOMAIN node : (Ancestor(b, n) /\ b > a) =>
                   node[b].kind \notin {"function_declaration", "arrow_function",
                                       "method_definition"} \cup {"class_declaration"}
      BY <3>1 DEF ts_parent_is_class, NearestIs
    <3>3. recognize_definition(a) /\ symbol_type(a) = "Class"
      BY <1>2, <3>2 DEF recognize_definition, recognize_typescript, symbol_type
    <3>4. ASSUME NEW b \in DOMAIN node, Ancestor(b, n), recognize_definition(b), b > a
          PROVE  FALSE
      <4>1. node[b].kind = "variable_declarator"
            /\ \E c \in Children(b) : node[c].kind = "arrow_function"
        BY <1>2, <3>2, <3>4 DEF recognize_definition, recognize_typescript
      <4>2. PICK c \in Children(b) : node[c].kind = "arrow_function"
        BY <4>1
      <4>3. DefinedIn(b, c) /\ c \in DOMAIN node /\ b < c
        BY <4>1, <4>2, ChildIs DEF WellFormed
      <4>4. Ancestor(c, n)
        BY <3>1, <3>4, <4>2, <4>3 DEF DefinedIn
      <4> QED
        BY <1>0, <3>2, <3>4, <4>2, <4>3, <4>4
    <3> QED
      BY <1>0, <3>2, <3>3, <3>4 DEF Nearest
  <2> QED
    BY <1>2, <2>1
<1> QED
  BY <1>1, <1>2 DEF recognize_definition

LEMMA MethodsImplied == XInv => MethodsAreOfClasses
<1> SUFFICES ASSUME XInv, pc = "done", file.lang # "Go", NEW i \in DOMAIN chunks
             PROVE  LET inClass == \E j \in Innermost(i) : chunks[j].type = "Class"
                    IN  /\ chunks[i].type = "Method" => inClass
                        /\ (file.lang = "Python" /\ inClass) => chunks[i].type # "Function"
  BY DEF MethodsAreOfClasses
<1>1. WellFormed /\ (FromHeaders \/ \E g : From(g) /\ Complete(g))
  BY DEF XInv
<1>2. CASE FromHeaders
  <2>1. Innermost(i) = {}
    BY <1>1, <1>2, HeadersApart DEF Around, Innermost
  <2>2. chunks[i].type # "Method"
    BY <1>2, HeaderChunkIs DEF FromHeaders, HeaderChunk
  <2> QED
    BY <2>1, <2>2
<1>3. CASE \E g : From(g) /\ Complete(g)
  <2>1. PICK g : From(g) /\ Complete(g)
    BY <1>3
  <2>2. \A k \in DOMAIN chunks : /\ g[k] \in DOMAIN node /\ recognize_definition(g[k])
                                 /\ chunks[k].type = symbol_type(g[k])
    BY <2>1 DEF From, Built
  <2>3. \A j \in Innermost(i) : j \in DOMAIN chunks /\ Nearest(g[j], g[i])
    BY <1>1, <2>1, InnermostIs
  <2>4. \A a \in DOMAIN node : Nearest(a, g[i]) => \E j \in Innermost(i) : g[j] = a
    BY <1>1, <2>1, InnermostIs
  <2> QED
    BY <1>1, <2>2, <2>3, <2>4, ClimbIs
<1> QED
  BY <1>1, <1>2, <1>3

-----------------------------------------------------------------------------
(* What the two walks have seen.                                           *)

NamedIn(S) == {n \in S : node[n].kind \notin Token}
BadIn(S) == {n \in S : node[n].kind \in Erroneous}

\* The counters are those of the nodes in S.
Counted(S) == named = Cardinality(NamedIn(S)) /\ bad = Cardinality(BadIn(S))

IsCall(n) == node[n].kind = "call" /\ node[n].name # None

Gathered(S) == \A n \in S : IsCall(n) => \E k \in DOMAIN calls : calls[k] = n

SpanOf(n) == [start_byte |-> node[n].start, end_byte |-> node[n].end]

\* A chunk that is not heuristic has every call in its span for a reference.
Referenced(c) ==
    \A n \in DOMAIN node : (IsCall(n) /\ Encloses(c, SpanOf(n))) => node[n].name \in c.refs

WalkInv ==
    /\ Counted(IF pc = "measure" THEN SeenAt(cursor, climbing) ELSE DOMAIN node)
    /\ pc = "calls" => Gathered(SeenAt(cursor, climbing))
    /\ pc = "done" => \A i \in DOMAIN chunks : chunks[i].heuristic \/ Referenced(chunks[i])

LEMMA CountOne ==
    ASSUME WellFormed, NEW S \in SUBSET DOMAIN node, NEW c \in DOMAIN node, c \notin S
    PROVE  /\ Cardinality(NamedIn(S \cup {c})) =
                 Cardinality(NamedIn(S)) + (IF node[c].kind \in Token THEN 0 ELSE 1)
           /\ Cardinality(BadIn(S \cup {c})) =
                 Cardinality(BadIn(S)) + (IF node[c].kind \in Erroneous THEN 1 ELSE 0)
<1>1. /\ NamedIn(S) \in SUBSET DOMAIN node /\ c \notin NamedIn(S)
      /\ BadIn(S) \in SUBSET DOMAIN node /\ c \notin BadIn(S)
  BY DEF NamedIn, BadIn
<1>2. /\ IsFiniteSet(NamedIn(S)) /\ Cardinality(NamedIn(S)) \in Nat
      /\ IsFiniteSet(BadIn(S)) /\ Cardinality(BadIn(S)) \in Nat
  BY <1>1, ChildrenFinite
<1>3. /\ Cardinality(NamedIn(S) \cup {c}) = Cardinality(NamedIn(S)) + 1
      /\ Cardinality(BadIn(S) \cup {c}) = Cardinality(BadIn(S)) + 1
  BY <1>1, <1>2, FS_AddElement
<1>4. NamedIn(S \cup {c}) = IF node[c].kind \in Token THEN NamedIn(S) ELSE NamedIn(S) \cup {c}
  BY DEF NamedIn
<1>5. BadIn(S \cup {c}) = IF node[c].kind \in Erroneous THEN BadIn(S) \cup {c} ELSE BadIn(S)
  BY DEF BadIn
<1>6. Cardinality(NamedIn(S \cup {c})) =
         Cardinality(NamedIn(S)) + (IF node[c].kind \in Token THEN 0 ELSE 1)
  BY <1>2, <1>3, <1>4
<1>7. Cardinality(BadIn(S \cup {c})) =
         Cardinality(BadIn(S)) + (IF node[c].kind \in Erroneous THEN 1 ELSE 0)
  BY <1>2, <1>3, <1>5
<1> QED
  BY <1>6, <1>7

LEMMA SeenKept ==
    ASSUME UNCHANGED file
    PROVE  /\ \A c, b : SeenAt(c, b)' = SeenAt(c, b)
           /\ SeenAt(cursor, climbing)' = SeenAt(cursor', climbing')
           /\ \A S : NamedIn(S)' = NamedIn(S) /\ BadIn(S)' = BadIn(S)
           /\ \A n : IsCall(n)' = IsCall(n)
           /\ \A c : Referenced(c)' = Referenced(c)
<1>1. node' = node /\ \A m, n : Ancestor(m, n)' = Ancestor(m, n)
  BY FileKept
<1>2. /\ \A c, b : SeenAt(c, b)' = SeenAt(c, b)
      /\ SeenAt(cursor, climbing)' = SeenAt(cursor', climbing')
  BY <1>1 DEF SeenAt, Ancestor
<1>3. \A S : NamedIn(S)' = NamedIn(S) /\ BadIn(S)' = BadIn(S)
  BY <1>1, Zenon DEF NamedIn, BadIn
<1>4. \A n : IsCall(n)' = IsCall(n)
  BY <1>1, Zenon DEF IsCall
<1>5. \A c : Referenced(c)' = Referenced(c)
  BY <1>1, <1>4, Zenon DEF Referenced, SpanOf
<1> QED
  BY <1>2, <1>3, <1>4, <1>5

\* A step down sees the node that it leaves.
LEMMA WalkOn ==
    ASSUME WellFormed, Types, UNCHANGED file, ~climbing, goto_first_child
    PROVE  /\ SeenAt(cursor, climbing)' = SeenAt(cursor, climbing) \cup {cursor}
           /\ cursor \in DOMAIN node /\ cursor \notin SeenAt(cursor, climbing)
           /\ SeenAt(cursor, climbing) \in SUBSET DOMAIN node
<1>1. cursor \in DOMAIN node /\ climbing = FALSE
  BY DEF Types
<1>2. SeenAt(cursor', climbing') = SeenAt(cursor, climbing) \cup {cursor}
  BY <1>1, SeeNode DEF goto_first_child
<1> QED
  BY <1>1, <1>2, SeeNode, SeenKept DEF SeenAt

\* A step aside or up sees no other node.
LEMMA WalkBack ==
    ASSUME WellFormed, Types, UNCHANGED file, goto_next_sibling \/ goto_parent
    PROVE  SeenAt(cursor, climbing)' = SeenAt(cursor, climbing)
<1>1. cursor \in DOMAIN node /\ climbing = TRUE
  BY DEF Types, goto_next_sibling, goto_parent
<1>2. CASE goto_next_sibling
  <2>1. cursor # Root
    <3>1. SUFFICES ASSUME NEW m \in DOMAIN node, m > Root, node[m].up = node[Root].up PROVE FALSE
      BY <1>2 DEF goto_next_sibling, LaterSiblings, Children
    <3>2. node[m].up \in DOMAIN node /\ node[Root].up = 0
      BY <3>1, UpIs DEF WellFormed, Root
    <3> QED
      BY <3>1, <3>2, TreeIs
  <2>2. SeenAt(cursor', climbing') = SeenAt(cursor, climbing)
    BY <1>1, <1>2, <2>1, SeeSubtree DEF goto_next_sibling
  <2> QED
    BY <2>2, SeenKept
<1>3. CASE goto_parent
  <2>1. SeenAt(cursor', climbing') = SeenAt(cursor, climbing)
    BY <1>1, <1>3, SeeSubtree DEF goto_parent
  <2> QED
    BY <2>1, SeenKept
<1> QED
  BY <1>2, <1>3

LEMMA WalkInitial == XInit => WalkInv
<1> SUFFICES ASSUME XInit PROVE WalkInv
  OBVIOUS
<1>1. pc = "measure" /\ cursor = Root /\ climbing = FALSE /\ named = 0 /\ bad = 0 /\ WellFormed
  BY DEF XInit
<1>2. SeenAt(cursor, climbing) = {}
  BY <1>1, SeeAll
<1>3. NamedIn({}) = {} /\ BadIn({}) = {}
  BY DEF NamedIn, BadIn
<1> QED
  BY <1>1, <1>2, <1>3, FS_EmptySet DEF WalkInv, Counted

LEMMA WalkStep == XInv /\ WalkInv /\ [XNext]_xvars => WalkInv'
<1> SUFFICES ASSUME XInv, WalkInv, [XNext]_xvars PROVE WalkInv'
  OBVIOUS
<1>0. UNCHANGED file
  BY DEF XNext, xvars, Measure, CollectCall, goto_next_sibling, goto_parent, FallBack, TrustTree,
         CollectDefinition, CollectOther, Extracted, Enrich
<1>1. WellFormed /\ Types /\ node' = node
  BY <1>0, FileKept DEF XInv
<1>2. ASSUME UNCHANGED <<named, bad>>, NEW S, Counted(S) PROVE Counted(S)'
  BY <1>0, <1>2, SeenKept DEF Counted
<1>3. ASSUME UNCHANGED calls, NEW S, Gathered(S) PROVE Gathered(S)'
  BY <1>0, <1>3, SeenKept DEF Gathered
<1>4. CASE Measure
  <2>1. /\ pc = "measure" /\ pc' = "measure"
        /\ SeenAt(cursor, climbing)' = SeenAt(cursor, climbing) \cup {cursor}
        /\ cursor \in DOMAIN node /\ cursor \notin SeenAt(cursor, climbing)
        /\ SeenAt(cursor, climbing) \in SUBSET DOMAIN node
    BY <1>0, <1>1, <1>4, WalkOn DEF Measure
  <2> DEFINE S == SeenAt(cursor, climbing)
  <2>2. Counted(S) 
    BY <2>1 DEF WalkInv
  <2> HIDE DEF S
  <2>3. /\ named' = Cardinality(NamedIn(S \cup {cursor}))
        /\ bad' = Cardinality(BadIn(S \cup {cursor}))
    BY <1>1, <1>4, <2>1, <2>2, CountOne DEF Measure, Counted, S
  <2>4. (Counted(SeenAt(cursor, climbing)))'
    BY <1>0, <2>1, <2>3, SeenKept DEF Counted, S
  <2> QED
    BY <2>1, <2>4 DEF WalkInv
<1>5. CASE CollectCall
  <2>1. /\ pc = "calls" /\ pc' = "calls" /\ UNCHANGED <<named, bad>>
        /\ SeenAt(cursor, climbing)' = SeenAt(cursor, climbing) \cup {cursor}
    BY <1>0, <1>1, <1>5, WalkOn DEF CollectCall
  <2>2. Gathered(SeenAt(cursor, climbing)) /\ Counted(DOMAIN node)
    BY <2>1 DEF WalkInv
  <2>3. calls \in Seq({n \in DOMAIN node : node[n].name # None})
    BY <1>1 DEF Types
  <2>4. /\ \A k \in DOMAIN calls : k \in DOMAIN calls' /\ calls'[k] = calls[k]
        /\ IsCall(cursor) => \E k \in DOMAIN calls' : calls'[k] = cursor
    <3> DEFINE T == {n \in DOMAIN node : node[n].name # None}
    <3>1. CASE IsCall(cursor)
      <4>1. calls' = Append(calls, cursor) /\ cursor \in T
        BY <1>1, <1>5, <3>1 DEF CollectCall, IsCall, Types
      <4> HIDE DEF T
      <4>2. calls \in Seq(T)
        BY <2>3 DEF T
      <4>3. /\ \A k \in DOMAIN calls : k \in DOMAIN calls' /\ calls'[k] = calls[k]
            /\ Len(calls) + 1 \in DOMAIN calls' /\ calls'[Len(calls) + 1] = cursor
        BY <4>1, <4>2
      <4> QED
        BY <4>3
    <3>2. CASE ~IsCall(cursor)
      BY <1>5, <3>2 DEF CollectCall, IsCall
    <3> QED
      BY <3>1, <3>2
  <2>5. \A n \in SeenAt(cursor, climbing) \cup {cursor} :
           IsCall(n) => \E k \in DOMAIN calls' : calls'[k] = n
    BY <2>2, <2>4 DEF Gathered
  <2>6. Gathered(SeenAt(cursor, climbing))'
    BY <1>0, <2>1, <2>5, SeenKept DEF Gathered
  <2> QED
    BY <1>1, <1>2, <2>1, <2>2, <2>6 DEF WalkInv
<1>6. CASE goto_next_sibling \/ goto_parent
  <2>1. /\ SeenAt(cursor, climbing)' = SeenAt(cursor, climbing)
        /\ pc \in {"measure", "calls"} /\ pc' = pc /\ UNCHANGED <<named, bad, calls>>
    BY <1>0, <1>1, <1>6, WalkBack DEF goto_next_sibling, goto_parent
  <2> DEFINE S == SeenAt(cursor, climbing)
  <2>2. CASE pc = "measure"
    <3>1. Counted(S)'
      BY <2>1, <2>2, <1>0, SeenKept DEF WalkInv, Counted
    <3> QED
      BY <2>1, <2>2, <3>1 DEF WalkInv
  <2>3. CASE pc = "calls"
    <3>1. Gathered(S)'
      BY <2>1, <2>3, <1>0, SeenKept DEF WalkInv, Gathered
    <3>2. Counted(DOMAIN node)'
      BY <1>1, <1>2, <2>1, <2>3 DEF WalkInv
    <3> QED
      BY <1>1, <2>1, <2>3, <3>1, <3>2 DEF WalkInv
  <2> QED
    BY <2>1, <2>2, <2>3
<1>7. CASE FallBack \/ TrustTree
  <2>1. pc = "measure" /\ WalkDone /\ pc' \in {"extract", "done"} /\ UNCHANGED <<named, bad>>
    BY <1>7 DEF FallBack, TrustTree
  <2>2. SeenAt(cursor, climbing) = DOMAIN node
    BY <1>1, <2>1, SeeAll DEF WalkDone, Types
  <2>3. Counted(DOMAIN node)'
    BY <1>1, <1>2, <2>1, <2>2 DEF WalkInv
  <2>4. pc' = "done" => \A i \in DOMAIN chunks' : chunks'[i].heuristic
    BY <1>7 DEF FallBack, TrustTree, heuristic_chunk
  <2> QED
    BY <1>1, <2>1, <2>3, <2>4 DEF WalkInv
<1>8. CASE CollectDefinition \/ CollectOther
  <2>1. pc = "extract" /\ pc' = "extract" /\ UNCHANGED <<named, bad>>
    BY <1>8 DEF CollectDefinition, CollectOther
  <2> QED
    BY <1>1, <1>2, <2>1 DEF WalkInv
<1>9. CASE Extracted
  <2>1. /\ pc = "extract" /\ pc' = "calls" /\ UNCHANGED <<named, bad>>
        /\ cursor' = Root /\ climbing' = FALSE
    BY <1>9 DEF Extracted
  <2>2. SeenAt(cursor, climbing)' = {}
    BY <1>0, <1>1, <2>1, SeenKept, SeeAll
  <2>3. Gathered(SeenAt(cursor, climbing))'
    BY <2>2 DEF Gathered
  <2> QED
    BY <1>1, <1>2, <2>1, <2>3 DEF WalkInv
<1>10. CASE Enrich
  <2>1. pc = "calls" /\ WalkDone /\ pc' = "done" /\ UNCHANGED <<named, bad>>
        /\ chunks' \in sort_by_start_byte(Enriched)
    BY <1>10 DEF Enrich, Enriched
  <2>2. Gathered(DOMAIN node)
    <3>1. SeenAt(cursor, climbing) = DOMAIN node
      BY <1>1, <2>1, SeeAll DEF WalkDone, Types
    <3> QED
      BY <2>1, <3>1 DEF WalkInv
  <2>3. ASSUME NEW i \in DOMAIN chunks PROVE Referenced(Enriched[i])
    <3>1. SUFFICES ASSUME NEW n \in DOMAIN node, IsCall(n), Encloses(Enriched[i], SpanOf(n))
                   PROVE  node[n].name \in Enriched[i].refs
      BY DEF Referenced
    <3>2. PICK k \in DOMAIN calls : calls[k] = n
      BY <2>2, <3>1 DEF Gathered
    <3>3. /\ Enriched[i].start_byte = chunks[i].start_byte
          /\ Enriched[i].end_byte = chunks[i].end_byte
          /\ Enriched[i].refs = call_names_in_span(chunks[i].start_byte, chunks[i].end_byte)
      BY <1>1, EnrichIs
    <3> QED
      BY <3>1, <3>2, <3>3 DEF Encloses, SpanOf, call_names_in_span
  <2>4. Enriched \in Seq(Chunk) /\ DOMAIN Enriched = DOMAIN chunks
    BY <1>1, EnrichIs
  <2>5. \A i \in DOMAIN chunks' : \E j \in DOMAIN Enriched : chunks'[i] = Enriched[j]
    <3>1. DOMAIN chunks' = DOMAIN Enriched /\ Moved(chunks', Enriched)
      BY <2>1, <2>4, SortIs
    <3> QED
      BY <3>1 DEF Moved
  <2>6. \A i \in DOMAIN chunks' : Referenced(chunks'[i])
    BY <2>3, <2>4, <2>5
  <2>7. (\A i \in DOMAIN chunks : Referenced(chunks[i]))'
    BY <1>0, <1>1, <2>6, SeenKept DEF Referenced, SpanOf, Encloses, IsCall
  <2> QED
    BY <1>1, <1>2, <2>1, <2>7 DEF WalkInv
<1>11. CASE UNCHANGED xvars
  BY <1>0, <1>1, <1>11, FileKept DEF xvars, WalkInv, Counted, Gathered, SeenAt, Referenced, IsCall,
         SpanOf, NamedIn, BadIn, Encloses, Ancestor
<1> QED
  BY <1>4, <1>5, <1>6, <1>7, <1>8, <1>9, <1>10, <1>11 DEF XNext

\* Every definition is that of one chunk, and every chunk of one.
LEMMA CompleteIs ==
    ASSUME WellFormed, chunks \in Seq(Chunk), NEW g, From(g), Complete(g)
    PROVE  Len(chunks) = Cardinality({n \in DOMAIN node \ {Root} : recognize_definition(n)})
<1> DEFINE D == 1 .. Len(chunks)
           S == {n \in DOMAIN node \ {Root} : recognize_definition(n)}
<1>1. Len(chunks) \in Nat /\ DOMAIN chunks = D
  OBVIOUS
<1>2. /\ g \in [D -> DOMAIN node] /\ DOMAIN g = D
      /\ \A i, j \in D : i # j => g[i] # g[j]
      /\ \A i \in D : recognize_definition(g[i])
  BY <1>1 DEF From, Built
<1>3. \A i \in D : g[i] \in S
  BY <1>2, RecognizedIs
<1>4. \A n \in S : \E i \in D : g[i] = n
  BY <1>2 DEF Complete
<1> HIDE DEF S
<1>5. g \in [D -> S]
  BY <1>2, <1>3
<1>6. g \in Bijection(D, S)
  BY <1>2, <1>4, <1>5 DEF Bijection, Injection, Surjection, IsInjective
<1>7. IsFiniteSet(D) /\ Cardinality(D) = Len(chunks)
  BY <1>1, FS_Interval
<1> HIDE DEF D
<1>8. Cardinality(S) = Cardinality(D)
  BY <1>6, <1>7, FS_Bijection DEF ExistsBijection
<1> QED
  BY <1>7, <1>8 DEF S, D

LEMMA SeenImplied == XInv /\ WalkInv => NothingSkipped
<1> SUFFICES ASSUME XInv, WalkInv PROVE NothingSkipped
  OBVIOUS
<1>1. pc # "measure" =>
         /\ named = Cardinality({n \in DOMAIN node : node[n].kind \notin Token})
         /\ bad = Cardinality({n \in DOMAIN node : node[n].kind \in Erroneous})
  BY DEF WalkInv, Counted, NamedIn, BadIn
<1>2. pc = "calls" =>
         Len(chunks) = Cardinality({n \in DOMAIN node \ {Root} : recognize_definition(n)})
  BY CompleteIs DEF XInv, Types
<1>3. pc = "done" =>
         \A i \in DOMAIN chunks, n \in DOMAIN node :
             (~chunks[i].heuristic /\ node[n].kind = "call" /\ node[n].name # None) =>
                 (Encloses(chunks[i], [start_byte |-> node[n].start, end_byte |-> node[n].end])
                     => node[n].name \in chunks[i].refs)
  BY DEF WalkInv, Referenced, IsCall, SpanOf
<1> QED
  BY <1>1, <1>2, <1>3 DEF NothingSkipped

-----------------------------------------------------------------------------
(* The theorems.                                                           *)

\* Every state reached keeps the inductive invariant.
THEOREM Inductive == XSpec => []XInv
BY Initial, Step, PTL DEF XSpec

\* What the invariant says of the chunks: each is of another definition or of
\* another header, so that they nest or lie apart and their lines are right.
LEMMA Implied == XInv => XTypeOK /\ Laminar /\ LinesAgree
<1> SUFFICES ASSUME XInv PROVE XTypeOK /\ Laminar /\ LinesAgree
  OBVIOUS
<1>1. WellFormed /\ Types
  BY DEF XInv
<1>2. chunks = <<>> \/ FromHeaders \/ \E g : From(g)
  BY DEF XInv, Types
<1>3. Laminar /\ LinesAgree
  <2>1. CASE chunks = <<>>
    BY <2>1 DEF Laminar, LinesAgree
  <2> QED
    BY <1>1, <1>2, <2>1, FromLaminar, HeadersLaminar
<1>4. \A i \in DOMAIN chunks :
         chunks[i].start_byte < chunks[i].end_byte /\ chunks[i].end_byte <= Len(source)
  <2>1. CASE FromHeaders
    <3>1. PICK h \in InOrder(Headers) : chunks = [i \in DOMAIN h |-> heuristic_chunk(h[i])]
      BY <2>1 DEF FromHeaders
    <3>2. SUFFICES ASSUME NEW i \in DOMAIN h
                   PROVE  /\ chunks[i].start_byte < chunks[i].end_byte
                          /\ chunks[i].end_byte <= Len(source)
      BY <3>1
    <3>3. h[i] \in Headers /\ HeaderChunk(chunks[i], h[i])
      BY <3>1, HeaderChunkIs DEF InOrder
    <3>4. h[i] \in Nat /\ Len(source) \in Nat /\ HeaderEnd(h[i]) \in h[i] + 1 .. Len(source)
      BY <1>1, <3>3, HeaderIs, TreeIs
    <3> QED
      BY <3>3, <3>4 DEF HeaderChunk
  <2>2. CASE \E g : From(g)
    BY <1>1, <2>2, BuiltIs DEF From
  <2> QED
    BY <1>2, <2>1, <2>2
<1>5. file \in File
  BY <1>1 DEF WellFormed
<1>6. calls \in Seq(DOMAIN node)
  BY <1>1 DEF Types
<1> QED
  BY <1>1, <1>3, <1>4, <1>5, <1>6 DEF XTypeOK, Types

\* Chunks have the shape of the chunks table's rows, and spans in their file.
THEOREM ChunksTyped == XSpec => []XTypeOK
BY Inductive, Implied, PTL

\* Chunks of a file are disjoint or strictly nested, for any tree that nests: what
\* the retriever's dedup takes for granted.
THEOREM ChunksLaminar == XSpec => []Laminar
BY Inductive, Implied, PTL

\* The lines of a chunk are those of its first and of its last byte.
THEOREM ChunkLines == XSpec => []LinesAgree
BY Inductive, Implied, PTL

\* The chunks of the heuristic path tile the file from its first header.
THEOREM FallbackTilesHolds == XSpec => []FallbackTiles
BY Inductive, TilesImplied, PTL

\* The parent handed down the recursion is the definition whose chunk is the
\* smallest one around it, decorators and line ends included.
THEOREM ParentIsInnermostHolds == XSpec => []ParentIsInnermost
BY Inductive, ParentImplied, PTL

\* What the climb of python_parent_is_class and of ts_parent_is_class finds is the
\* class whose chunk is the smallest one around the method's.
THEOREM MethodsAreOfClassesHolds == XSpec => []MethodsAreOfClasses
BY Inductive, MethodsImplied, PTL

\* The cursor's walks leave nothing out and see nothing twice, and the recursion
\* makes a chunk of every definition: error_rate counts each node once, and each
\* call is among the references of every chunk that it is in.
THEOREM NothingSkippedHolds == XSpec => []NothingSkipped
<1>1. XSpec => []WalkInv
  BY Inductive, WalkInitial, WalkStep, PTL DEF XSpec
<1> QED
  BY <1>1, Inductive, SeenImplied, PTL

=============================================================================
