-------------------------- MODULE EffectInference --------------------------
(***************************************************************************)
(* Incremental effect inference: the body cache of an interactive checking *)
(* session (compiler/src/typecheck/incremental.rs), the work queue that    *)
(* derives effect rows over call edges (typecheck/effect_worklist.rs), the *)
(* loop that publishes them until nothing changes (check_bodies) and the   *)
(* recovery driver that replaces failed bodies by stubs                    *)
(* (compiler/mod.rs).                                                      *)
(*                                                                         *)
(* A body is what effect derivation sees of it: the effects it performs    *)
(* itself and the functions it calls.  Types, suspension and result        *)
(* effects, which travel with the row, are left out.                       *)
(***************************************************************************)
EXTENDS Integers, Sequences, FiniteSets, SequencesExt

CONSTANTS
    Order,      \* the functions, in the order of the arena
    Bodies,     \* Bodies[f]: the texts f may have: [own, calls, broken]
    Start,      \* the packages a session may begin with
    Explicit,   \* the functions with declared effects |-> those effects
    MaxEdits    \* bound on the edits of a session

PackageFunctions == Range(Order)
NoEntry == [none |-> TRUE]
NoRow == {"no row"}

VARIABLES
    body,       \* the text of each function
    edits,      \* edits made
    contracts,  \* contracts[f]: [source, row] of the last completed check
    entries,    \* entries[f]: [source, deps, row] of the last body result
    phase,      \* "idle", "prepare", "bodies", "derive" or "done"
    stubs,      \* the functions whose body recovery has replaced
    published,  \* published[f]: the effects in the current HIR
    next,       \* the position of the body checked next
    failed,     \* the bodies that failed in this pass
    seeds,      \* the rows reused by this pass |-> [row, deps]
    rows,       \* the working summaries
    deps,       \* the callees observed by each derivation
    cached,     \* the functions whose seed still stands
    processed,  \* the functions derived in this pass
    queue       \* the work queue

cacheVars == <<contracts, entries>>
passVars == <<published, next, failed, seeds>>
workVars == <<rows, deps, cached, processed, queue>>
effectVars == <<body, edits, cacheVars, phase, stubs, passVars, workVars>>
----------------------------------------------------------------------------
(* Bodies *)

Calls(f) == IF f \in stubs THEN {} ELSE body[f].calls
Own(f) == IF f \in stubs THEN {} ELSE body[f].own

\* What a caller sees of f: its declared bound, or the working summary.
CalleeRow(f) == IF f \in DOMAIN Explicit THEN Explicit[f] ELSE rows[f]
Row(f) == Own(f) \cup UNION {CalleeRow(g): g \in Calls(f)}

\* What the HIR publishes for f is its callers' contract.
Contract(f) == IF f \in DOMAIN Explicit THEN Explicit[f] ELSE published[f]

\* The least rows of the text, with nothing remembered: the reference.
RECURSIVE LeastFrom(_)
LeastFrom(r) ==
    LET step == [f \in PackageFunctions |-> body[f].own \cup
                    UNION {IF g \in DOMAIN Explicit THEN Explicit[g] ELSE r[g]: g \in body[f].calls}]
    IN IF step = r THEN r ELSE LeastFrom(step)
Least == LeastFrom([f \in PackageFunctions |-> {}])
----------------------------------------------------------------------------
(* The session *)

Edit(f) ==
    /\ phase \in {"idle", "done"} /\ edits < MaxEdits
    /\ \E text \in Bodies[f] \ {body[f]}: body' = [body EXCEPT ![f] = text]
    /\ edits' = edits + 1 /\ phase' = "idle"
    /\ UNCHANGED <<cacheVars, stubs, passVars, workVars>>

\* check_recovering_cached begins with the original bodies.
Begin ==
    /\ phase = "idle"
    /\ phase' = "prepare" /\ stubs' = {}
    /\ UNCHANGED <<body, edits, cacheVars, passVars, workVars>>

\* An edit cancels the check at its next probe; what the cache has recorded
\* stays.
Cancel(f) ==
    /\ phase \in {"bodies", "derive"} /\ edits < MaxEdits
    /\ \E text \in Bodies[f] \ {body[f]}: body' = [body EXCEPT ![f] = text]
    /\ edits' = edits + 1 /\ phase' = "idle"
    /\ UNCHANGED <<cacheVars, stubs, passVars, workVars>>
----------------------------------------------------------------------------
(* BodyCache::prepare *)

Changed == {f \in PackageFunctions: contracts[f] = NoEntry \/ contracts[f].source # body[f]}

\* Only the edited functions themselves restart.
DirtyChanged == Changed

\* The edited functions and everything that reaches them by calls.
Dirty ==
    LET grow[n \in 0..Cardinality(PackageFunctions)] ==
            IF n = 0 THEN Changed
            ELSE grow[n - 1] \cup {f \in PackageFunctions: Calls(f) \cap grow[n - 1] # {}}
    IN grow[Cardinality(PackageFunctions)]

Prepare ==
    /\ phase = "prepare"
    /\ published' = [f \in PackageFunctions |-> IF f \in Dirty \/ contracts[f] = NoEntry
                                         THEN {} ELSE contracts[f].row]
    /\ phase' = "bodies" /\ next' = 1 /\ failed' = {} /\ seeds' = <<>>
    /\ UNCHANGED <<body, edits, cacheVars, stubs, workVars>>
----------------------------------------------------------------------------
(* Checker::check, the bodies in order *)

Current(entry, f) ==
    /\ entry # NoEntry /\ entry.source = body[f]
    /\ \A g \in DOMAIN entry.deps: Contract(g) = entry.deps[g]

Reusable(f) == f \notin stubs /\ Current(entries[f], f)

\* record_body; the row is attached once the check has converged.
Recorded(f) ==
    [source |-> body[f], deps |-> [g \in Calls(f) |-> Contract(g)], row |-> NoRow]

CheckBody ==
    /\ phase = "bodies" /\ next <= Len(Order)
    /\ LET f == Order[next]
       IN \/ /\ Reusable(f)
             /\ seeds' = IF entries[f].row = NoRow THEN seeds
                         ELSE (f :> [row |-> entries[f].row, deps |-> DOMAIN entries[f].deps]) @@ seeds
             /\ UNCHANGED <<entries, failed>>
          \/ /\ ~Reusable(f) /\ f \notin stubs /\ body[f].broken
             /\ failed' = failed \cup {f}
             /\ UNCHANGED <<entries, seeds>>
          \/ /\ ~Reusable(f) /\ f \notin stubs /\ ~body[f].broken
             /\ entries' = [entries EXCEPT ![f] = Recorded(f)]
             /\ UNCHANGED <<failed, seeds>>
          \/ f \in stubs /\ UNCHANGED <<entries, failed, seeds>>
    /\ next' = next + 1
    /\ UNCHANGED <<body, edits, contracts, phase, stubs, published, workVars>>

\* The driver replaces every failed body and starts over.
Recover ==
    /\ phase = "bodies" /\ next > Len(Order) /\ failed # {}
    /\ stubs' = stubs \cup failed /\ phase' = "prepare"
    /\ UNCHANGED <<body, edits, cacheVars, passVars, workVars>>
----------------------------------------------------------------------------
(* Checker::derive_effects *)

Unseeded == SelectSeq(Order, LAMBDA f: f \notin DOMAIN seeds)

StartDerivation ==
    /\ phase = "bodies" /\ next > Len(Order) /\ failed = {}
    /\ rows' = [f \in PackageFunctions |-> IF f \in DOMAIN seeds THEN seeds[f].row ELSE {}]
    /\ deps' = [f \in PackageFunctions |-> IF f \in DOMAIN seeds THEN seeds[f].deps ELSE {}]
    /\ cached' = DOMAIN seeds /\ processed' = {}
    /\ queue' = Unseeded /\ phase' = "derive"
    /\ UNCHANGED <<body, edits, cacheVars, stubs, passVars>>

\* A caller that never saw the temporary empty row is left alone when the
\* published contract held.
Affected(f, row) ==
    {g \in PackageFunctions: /\ f \in deps'[g] /\ g \notin Range(Tail(queue))
                      /\ ~(g \in cached' /\ row = published[f])}

\* The summary changed, or a first derivation took something away from what
\* was published.
Notifies(f, row) ==
    \/ rows[f] # row
    \/ /\ f \notin DOMAIN Explicit /\ f \notin processed /\ row # published[f]

Derive ==
    /\ phase = "derive" /\ queue # <<>>
    /\ LET f == Head(queue)
           row == Row(f)
       IN /\ rows' = [rows EXCEPT ![f] = row]
          /\ deps' = [deps EXCEPT ![f] = Calls(f)]
          /\ cached' = cached \ {f} /\ processed' = processed \cup {f}
          /\ queue' = Tail(queue) \o
                (IF Notifies(f, row)
                 THEN SelectSeq(Order, LAMBDA g: g \in Affected(f, row)) ELSE <<>>)
    /\ UNCHANGED <<body, edits, cacheVars, phase, stubs, passVars>>
----------------------------------------------------------------------------
(* check_bodies, after the pass *)

Inferred == {f \in PackageFunctions: f \notin DOMAIN Explicit}

\* The rows are published and every body is checked against them.
PublishRows ==
    /\ phase = "derive" /\ queue = <<>>
    /\ \E f \in Inferred: published[f] # rows[f]
    /\ published' = [f \in PackageFunctions |-> IF f \in Inferred THEN rows[f] ELSE published[f]]
    /\ phase' = "bodies" /\ next' = 1 /\ failed' = {} /\ seeds' = <<>>
    /\ UNCHANGED <<body, edits, cacheVars, stubs, workVars>>

\* The fixed point: the summaries go to the entries that are still current,
\* and BodyCache::complete records the contracts.
Converge ==
    /\ phase = "derive" /\ queue = <<>>
    /\ \A f \in Inferred: published[f] = rows[f]
    /\ entries' = [f \in PackageFunctions |->
            IF Current(entries[f], f) THEN [entries[f] EXCEPT !.row = rows[f]] ELSE entries[f]]
    /\ contracts' = [f \in PackageFunctions |->
            IF f \in stubs THEN contracts[f] ELSE [source |-> body[f], row |-> published[f]]]
    /\ phase' = "done"
    /\ UNCHANGED <<body, edits, stubs, passVars, workVars>>
----------------------------------------------------------------------------
EffectInit ==
    /\ body \in Start /\ edits = 0
    /\ contracts = [f \in PackageFunctions |-> NoEntry] /\ entries = [f \in PackageFunctions |-> NoEntry]
    /\ phase = "idle" /\ stubs = {}
    /\ published = [f \in PackageFunctions |-> {}] /\ next = 1 /\ failed = {} /\ seeds = <<>>
    /\ rows = [f \in PackageFunctions |-> {}] /\ deps = [f \in PackageFunctions |-> {}]
    /\ cached = {} /\ processed = {} /\ queue = <<>>

Check == Begin \/ Prepare \/ CheckBody \/ Recover \/ StartDerivation \/ Derive
            \/ PublishRows \/ Converge
EffectNext == Check \/ \E f \in PackageFunctions: Edit(f) \/ Cancel(f)
EffectSpec == EffectInit /\ [][EffectNext]_effectVars /\ WF_effectVars(Check)
----------------------------------------------------------------------------
(* Properties *)

AllEffects == UNION {UNION {t.own: t \in Bodies[f]}: f \in PackageFunctions}

\* Types; no function is queued twice, and one whose seed stands is never
\* also queued or derived.
EffectTypeOK ==
    /\ published \in [PackageFunctions -> SUBSET AllEffects]
    /\ rows \in [PackageFunctions -> SUBSET AllEffects]
    /\ IsInjective(queue) /\ Range(queue) \subseteq PackageFunctions
    /\ cached \cap processed = {}

\* A finished check of a package without errors publishes exactly the effects
\* a check from nothing derives: nothing a cycle of calls remembers from an
\* earlier text, nothing lost because an unchanged caller was not visited
\* (derive_effects, BodyCache::prepare).  What it derived for a function with
\* declared effects, which validate_derived_effects compares with the
\* declaration, is exact too.
EffectsExact ==
    phase = "done" /\ stubs = {} =>
        /\ \A f \in Inferred: published[f] = Least[f]
        /\ \A f \in DOMAIN Explicit: rows[f] = Least[f]

\* What a finished check promises.
EffectsSound == EffectTypeOK /\ EffectsExact
============================================================================
