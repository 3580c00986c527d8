------------------------------- MODULE SelfHeal ------------------------------
(***************************************************************************)
(* The MCP server's handlers that write: `codecache_search`, which hash-   *)
(* checks the files its first query surfaced, re-indexes or evicts them    *)
(* and queries again, and `codecache_update`, which forces a re-index by   *)
(* clearing the metadata first.  Both run the indexer of module Indexer.   *)
(***************************************************************************)
EXTENDS Indexer

CONSTANTS
    Matching, \* the contents whose chunks match the query
    Rank,     \* Rank[p]: the place of p's chunks among the matches
    Limit     \* how many files the result cap lets through

ASSUME SelfHealAssumption ==
    /\ Matching \subseteq Content
    /\ Rank \in [Path -> Nat]
    /\ \A p, q \in Path : Rank[p] = Rank[q] => p = q
    /\ Limit \in Nat \ {0}

\* Retriever::query: the best-ranked matches, cut off at the result cap.
Hits(d) == {p \in Path : \E v \in d.symbols[p] : v.content \in Matching}

Surfaced(d) ==
    {p \in Hits(d) : Cardinality({q \in Hits(d) : Rank[q] < Rank[p]}) < Limit}

Answer(d) ==
    {hit \in Hit : /\ hit.file \in Surfaced(d)
                  /\ hit.chunks \in d.symbols[hit.file]
                  /\ hit.chunks.content \in Matching}

-----------------------------------------------------------------------------
(* handle_search                                                           *)

StartSearch(w) ==
    /\ me[w].pc = "idle"
    /\ Becomes(w, [Fresh("search") EXCEPT !.pc = "check", !.found = Surfaced(db)])
    /\ UNCHANGED shared

\* A file without a stored hash is not checked.
CheckStored(w) ==
    LET l == me[w] IN
    /\ l.pc = "check"
    /\ \E p \in l.found :
          LET rest   == [l EXCEPT !.found = l.found \ {p}]
              stored == get_file_hash(db, p)
          IN Becomes(w, IF stored = None
                        THEN rest
                        ELSE [Hashing(rest, p, "checked")
                                 EXCEPT !.stored = stored, !.checked = @ \cup {p}])
    /\ UNCHANGED shared

\* Mutant: a file that has changed is not re-indexed.
Checked_IgnoresChange(w) ==
    LET l    == me[w]
        done == [l EXCEPT !.cur = None, !.stored = None, !.hash = None]
    IN
    /\ l.pc = "checked"
    /\ Becomes(w, IF l.hash = None
                  THEN [done EXCEPT !.pc = "evict", !.todo = {l.cur}]
                  ELSE [done EXCEPT !.pc = "check"])
    /\ UNCHANGED shared

\* is_changed: an error evicts the file, a difference re-indexes it.
Checked(w) ==
    LET l    == me[w]
        done == [l EXCEPT !.cur = None, !.stored = None, !.hash = None]
    IN
    /\ l.pc = "checked"
    /\ Becomes(w, CASE l.hash = None     -> [done EXCEPT !.pc = "evict", !.todo = {l.cur}]
                    [] l.hash = l.stored -> [done EXCEPT !.pc = "check"]
                    [] OTHER             -> [done EXCEPT !.pc = "detect", !.todo = {l.cur}])
    /\ UNCHANGED shared

\* The query is run once more, and this result is the answer.
Requery(w) ==
    LET l == me[w] IN
    /\ l.pc = "check"
    /\ l.found = {}
    /\ Becomes(w, [Over(l) EXCEPT !.answer = Answer(db)])
    /\ UNCHANGED shared

-----------------------------------------------------------------------------
(* handle_update                                                           *)

StartForced(w, files) ==
    /\ me[w].pc = "idle"
    /\ Becomes(w, [Fresh("forced") EXCEPT !.pc = "clear", !.found = files, !.todo = files])
    /\ UNCHANGED shared

ClearMeta(w) ==
    LET l == me[w] IN
    /\ l.pc = "clear"
    /\ \E p \in l.todo :
          /\ Autocommit(delete_file_meta(db, p))
          /\ Becomes(w, [l EXCEPT !.todo = l.todo \ {p}])

ClearDone(w) ==
    LET l == me[w] IN
    /\ l.pc = "clear"
    /\ l.todo = {}
    /\ Becomes(w, [l EXCEPT !.pc = "detect", !.todo = l.found])
    /\ UNCHANGED shared

SearchStep(w) == CheckStored(w) \/ Checked(w) \/ Requery(w)
UpdateStep(w) == ClearMeta(w) \/ ClearDone(w)

=============================================================================
