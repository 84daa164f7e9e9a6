-------------------------- MODULE CompilationCache --------------------------
(***************************************************************************)
(* The cache of checked packages of one language-server thread             *)
(* (src/lsp/compilation.rs), as operators on a record:                     *)
(*   entries, good   the latest and the last successful compilation that   *)
(*                   answers for a document;                               *)
(*   errors          documents whose compilation failed;                   *)
(*   recent          documents visited lately, at most RecentLimit         *)
(*                   (RECENT_DOCUMENT_LIMIT = 8).                          *)
(* A compilation is its package root and the text it saw of each document  *)
(* it contains.  Parsed modules, body caches and symbols are left out.     *)
(***************************************************************************)
EXTENDS Integers, Sequences, FiniteSets, SequencesExt, FiniteSetsExt, Functions

CONSTANTS Docs,          \* URIs of source files
          RecentLimit

RecentLimitAssumption == RecentLimit \in Nat

EmptyCache == [entries |-> <<>>, good |-> <<>>, errors |-> {}, recent |-> <<>>]

Holds(c, u) == u \in DOMAIN c.source

\* What a map retains: the keys k for which Test(k, map[k]) holds.
Retain(map, Test(_, _)) == Restrict(map, {k \in DOMAIN map : Test(k, map[k])})

Without(map, u) == Retain(map, LAMBDA k, c : k # u /\ ~Holds(c, u))
-----------------------------------------------------------------------------
\* A mutant.
InvalidateOwnEntry(cache, u) ==     \* follows the single alias of the URI only
  [cache EXCEPT !.entries = Retain(@, LAMBDA k, c : k # u), !.errors = {}]
-----------------------------------------------------------------------------
\* Documents whose compilation must not be released.
Prune(cache, open) ==
  LET active == open \cup ToSet(cache.recent)
  IN  [cache EXCEPT !.entries = Retain(@, LAMBDA k, c : k \in active),
                    !.good = Retain(@, LAMBDA k, c : k \in active),
                    !.errors = @ \cap active]

Invalidate(cache, u) == [cache EXCEPT !.entries = Without(@, u), !.errors = {}]

CloseUri(cache, u, open) ==
  Prune([Invalidate(cache, u) EXCEPT !.recent = RemoveFirst(@, u),
                                     !.good = Without(@, u)], open)

\* A file changed on disk: every package that contains it goes, fallbacks too.
InvalidateWatched(cache, u) ==
  LET held  == Range(cache.entries) \cup Range(cache.good)
      roots == {c.root : c \in {c \in held : Holds(c, u)}}
      Unaffected(map) == Retain(map, LAMBDA k, c : c.root \notin roots)
  IN  [cache EXCEPT !.entries = Unaffected(@), !.good = Unaffected(@), !.errors = {}]

Touch(cache, u) ==
  LET moved == Append(RemoveFirst(cache.recent, u), u)
  IN  [cache EXCEPT !.recent = IF Len(moved) > RecentLimit THEN Tail(moved) ELSE moved]

\* A successful compilation answers for every document it contains.
Insert(cache, u, c) ==
  LET answers == {u} \cup DOMAIN c.source
      Put(map) == [k \in DOMAIN map \cup answers |-> IF k \in answers THEN c ELSE map[k]]
  IN  [cache EXCEPT !.entries = Put(@), !.good = Put(@), !.errors = @ \ answers]

InsertError(cache, u) == [cache EXCEPT !.errors = @ \cup {u}]

\* What `get` and `last_good` may return in a cache that only holds snapshots:
\* the document's own entry, else any compilation that contains it.
Lookup(map, u) ==
  IF u \in DOMAIN map THEN {map[u]} ELSE {c \in Range(map) : Holds(c, u)}

(***************************************************************************)
(* The query thread adopts a published snapshot: whatever saw another text *)
(* of an open document than the thread's own is invalidated.  The open     *)
(* documents are visited in the order of a hash map: any order.            *)
(***************************************************************************)
Reconcile(held, d, texts) ==
  IF \E c \in Lookup(held.entries, d) : Holds(c, d) => c.source[d] # texts[d]
  THEN Invalidate(held, d) ELSE held

Reconciled(adopted, texts, order) ==
  LET after[i \in 0..Len(order)] ==
        IF i = 0 THEN adopted ELSE Reconcile(after[i - 1], order[i], texts)
  IN  after[Len(order)]

Install(cache, snapshot, texts, order) ==
  LET adopted == [cache EXCEPT !.entries = snapshot.entries, !.good = snapshot.good]
  IN  Prune(Reconciled(adopted, texts, order), ToSet(order))
=============================================================================
