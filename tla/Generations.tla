---------------------------- MODULE Generations ----------------------------
(***************************************************************************)
(* The registry of installed generations.  An activation captures the      *)
(* extracted tree of a package file by file, binds it to the registered     *)
(* rows, stores a receipt in its transaction and publishes the capture in   *)
(* a cache once the commit is acknowledged; layouts and the platform ask    *)
(* for the current generation and get the cached capture or a new one.      *)
(* Callers on different packages share one capture lane, one byte budget    *)
(* and the cache.  Trees may be rewritten under a capture: a tree is two    *)
(* files, a file is 0 as it was extracted and 1 once it was rewritten.      *)
(* Budget units: Metadata for a staged receipt, Attempt for a capture in    *)
(* progress, Retained for a finished one, Working while rows are bound.     *)
(***************************************************************************)
EXTENDS Naturals, FiniteSets, Sequences, SequencesExt

CONSTANTS Ops,         \* callers, each with a session and a name operation
          Keys,        \* package generations, each of a name of its own
          Capacity,    \* units of the source budget
          Maximum,     \* entries of the cache, at least one
          Changing     \* bound: keys whose files are rewritten, each once, and
                       \* which are withdrawn

VARIABLES row,      \* state of the package row
          tree,     \* the files on disk
          trees,    \* history: every tree a key has had
          receipt,  \* committed receipt, <<>> for none
          lost,     \* history: keys withdrawn by a COMMIT nobody heard of
          cache,    \* GenerationCache::entries, least recently used first
          used,     \* BudgetState::used
          op

vars == <<row, tree, trees, receipt, lost, cache, used, op>>

Metadata == 1
Attempt == 3
Retained == 1
Working == 1

None == [id |-> 0]
Idle == [pc |-> "idle", kind |-> "none", key |-> CHOOSE k \in Keys : TRUE,
         read |-> <<>>, art |-> None, held |-> 0]
Capturing == {"first", "second", "verify", "reverify"}
Lane == {o \in Ops : op[o].pc \in Capturing}

Init ==
    /\ row = [k \in Keys |-> "activating"]
    /\ tree = [k \in Keys |-> <<0, 0>>]
    /\ trees = [k \in Keys |-> {<<0, 0>>}]
    /\ receipt = [k \in Keys |-> <<>>]
    /\ lost = {}
    /\ cache = <<>>
    /\ used = 0
    /\ op = [o \in Ops |-> Idle]

----------------------------------------------------------------------------
(***************************************************************************)
(* Tickets and shared ownership.  An artifact gives its bytes back when the *)
(* last of its owners lets go: the cache, or a caller.                      *)
(***************************************************************************)

HeldBy(i) == {o \in Ops : op[o].art = i}
Fits(bytes) == bytes <= Capacity - used
Cached(i) == i \in Range(cache)

\* Bytes that come back when the cache lets the entries in "gone" go.
FreedByCache(gone) == Retained * Cardinality({i \in gone : HeldBy(i) = {}})

\* Bytes that come back when a caller lets go of all it has.
FreedBy(o) ==
    op[o].held + (IF op[o].art # None /\ ~Cached(op[o].art) /\ HeldBy(op[o].art) = {o}
                  THEN Retained ELSE 0)

\* The caller leaves: the destructors of its tickets and of its artifact.
Leave(o) ==
    /\ op' = [op EXCEPT ![o] = Idle]
    /\ used' = used - FreedBy(o)

\* A caller takes the name lock of its package: NameOperation, held to the end.
Begin(o, k, kind) ==
    /\ op[o].pc = "idle"
    /\ \A p \in Ops : op[p].pc \notin {"idle", "leased"} => op[p].key # k
    /\ \/ kind = "activate" /\ row[k] \in {"activating", "disabled"}
       \/ kind = "current" /\ row[k] = "active"
       \/ kind = "retire" /\ row[k] = "active" /\ k \in Changing
    /\ op' = [op EXCEPT ![o] = [Idle EXCEPT !.pc = kind, !.kind = kind, !.key = k]]
    /\ UNCHANGED <<row, tree, trees, receipt, lost, cache, used>>

\* The stop token or the deadline of the caller ends the attempt: an
\* activation rolls back, a publication leaves the cache as it is.
Interrupted(o) ==
    /\ op[o].pc \notin {"idle", "served", "leased", "retire", "withdrawn", "staged"}
    /\ Leave(o)
    /\ UNCHANGED <<row, tree, trees, receipt, lost, cache>>

\* BUSY is a clean refusal: an activation goes on without a generation.
Refused(o) ==
    /\ IF op[o].kind = "activate"
       THEN op' = [op EXCEPT ![o] = [@ EXCEPT !.pc = "staged", !.read = <<>>,
                                              !.held = 0, !.art = None]]
       ELSE op' = [op EXCEPT ![o] = Idle]
    /\ used' = used - FreedBy(o)

----------------------------------------------------------------------------
(***************************************************************************)
(* Capture.                                                                 *)
(***************************************************************************)

\* stage_locked up to the capture: state, then the receipt's own ticket.
StageLocked(o) ==
    /\ op[o].pc = "activate"
    /\ \/ /\ Fits(Metadata)
          /\ op' = [op EXCEPT ![o].pc = "lane", ![o].held = Metadata]
          /\ used' = used + Metadata
       \/ ~Fits(Metadata) /\ Refused(o)
    /\ UNCHANGED <<row, tree, trees, receipt, lost, cache>>

\* Mutant: a leased entry is dropped as if that gave its bytes back.
EvictsLeased(i) == TRUE

\* reserve_capture drops entries nobody leases, oldest first, until a whole
\* attempt fits.
Evictable(i) == HeldBy(i) = {}

Evictions == {n \in 0..Len(cache) :
    LET gone == {i \in Range(SubSeq(cache, 1, n)) : Evictable(i)}
    IN  Attempt <= Capacity - (used - Retained * Cardinality(gone))}

ReserveCapture ==
    LET n == CHOOSE m \in Evictions : \A l \in Evictions : m <= l
        gone == {i \in Range(SubSeq(cache, 1, n)) : Evictable(i)}
    IN  /\ Evictions # {}
        /\ cache' = SelectSeq(cache, LAMBDA i : i \notin gone)
        /\ used' = used - Retained * Cardinality(gone) + Attempt

\* One capture at a time; the others are told BUSY.  A failed reservation
\* has dropped every unleased entry.
Capture(o) ==
    /\ op[o].pc = "lane"
    /\ \/ /\ Lane = {}
          /\ ReserveCapture
          /\ op' = [op EXCEPT ![o].pc = "first", ![o].held = @ + Attempt]
       \/ Lane # {} /\ Refused(o) /\ UNCHANGED cache
       \/ /\ Lane = {} /\ Evictions = {}
          /\ cache' = SelectSeq(cache, LAMBDA i : HeldBy(i) # {})
          /\ op' = [op EXCEPT ![o] = IF @.kind = "activate"
                THEN [@ EXCEPT !.pc = "staged", !.held = 0] ELSE Idle]
          /\ used' = used - op[o].held
                     - FreedByCache({i \in Range(cache) : HeldBy(i) = {}})
    /\ UNCHANGED <<row, tree, trees, receipt, lost>>

\* walk: each file is read to its end under its own identity check.
WalkFirst(o) ==
    /\ op[o].pc = "first"
    /\ op' = [op EXCEPT ![o].pc = "second", ![o].read = <<tree[op[o].key][1]>>]
    /\ UNCHANGED <<row, tree, trees, receipt, lost, cache, used>>

WalkSecond(o) ==
    /\ op[o].pc = "second"
    /\ op' = [op EXCEPT ![o].pc = "verify", ![o].read = Append(@, tree[op[o].key][2])]
    /\ UNCHANGED <<row, tree, trees, receipt, lost, cache, used>>

\* A tree outside the profile, too large or with odd files, is refused as
\* cleanly as BUSY.
ProfileUnavailable(o) ==
    /\ op[o].pc \in {"first", "second"}
    /\ Refused(o)
    /\ UNCHANGED <<row, tree, trees, receipt, lost, cache>>

\* Mutant: the capture trusts the checks made while it walked.
TrustsWalk(o, f) == TRUE

\* run: a file is opened again and must still be the one that was read.
SameIdentity(o, f) == op[o].read[f] = tree[op[o].key][f]

\* Artifacts are told apart by a number of their own.
Numbers == {i.id : i \in Range(cache)} \cup {op[o].art.id : o \in Ops}
Fresh == CHOOSE n \in 1..(Cardinality(Numbers) + 1) : n \notin Numbers

\* The ticket shrinks to the bytes the artifact keeps.
Captured(o) ==
    /\ op' = [op EXCEPT ![o] = [@ EXCEPT !.pc = "derive", !.held = @ - Attempt, !.read = <<>>,
              !.art = [id |-> Fresh, key |-> op[o].key, body |-> op[o].read]]]
    /\ used' = used - Attempt + Retained

Verify(o) ==
    /\ \/ op[o].pc = "verify" /\ SameIdentity(o, 1)
          /\ op' = [op EXCEPT ![o].pc = "reverify"] /\ UNCHANGED used
       \/ op[o].pc = "reverify" /\ SameIdentity(o, 2) /\ Captured(o)
       \/ op[o].pc = "verify" /\ ~SameIdentity(o, 1) /\ Leave(o)
       \/ op[o].pc = "reverify" /\ ~SameIdentity(o, 2) /\ Leave(o)
    /\ UNCHANGED <<row, tree, trees, receipt, lost, cache>>

----------------------------------------------------------------------------
(***************************************************************************)
(* Binding, receipts, publication.                                          *)
(***************************************************************************)

Body(o) == op[o].art.body

\* bind_registered_generation holds its own ticket across the statement.
Derive(o) ==
    /\ op[o].pc = "derive"
    /\ \/ /\ Fits(Working)
          /\ op' = [op EXCEPT ![o].pc = "bound", ![o].held = @ + Working]
          /\ used' = used + Working
       \/ ~Fits(Working) /\ Refused(o)
    /\ UNCHANGED <<row, tree, trees, receipt, lost, cache>>

\* The registered rows do not describe the captured manifest.
Unbound(o) ==
    /\ op[o].pc = "bound"
    /\ Leave(o)
    /\ UNCHANGED <<row, tree, trees, receipt, lost, cache>>

\* insert_matching_receipt: a stored receipt is matched, never replaced.
InsertReceipt(o) ==
    /\ op[o].pc = "bound" /\ op[o].kind = "activate"
    /\ \/ /\ receipt[op[o].key] \in {<<>>, Body(o)}
          /\ op' = [op EXCEPT ![o].pc = "staged", ![o].held = Metadata,
                              ![o].read = Body(o)]
          /\ used' = used - Working
       \/ receipt[op[o].key] \notin {<<>>, Body(o)} /\ Leave(o)
    /\ UNCHANGED <<row, tree, trees, receipt, lost, cache>>

\* The transaction of the activation, with or without a staged receipt.
\* A publication follows an acknowledged commit; a commit whose answer is lost
\* is durable and publishes nothing.
Commit(o) ==
    /\ op[o].pc = "staged"
    /\ \/ /\ row' = [row EXCEPT ![op[o].key] = "active"]
          /\ receipt' = [receipt EXCEPT ![op[o].key] =
                            IF op[o].art = None THEN @ ELSE op[o].read]
          /\ lost' = lost \ {op[o].key}
          /\ \/ Leave(o)
             \/ /\ op[o].art # None
                /\ op' = [op EXCEPT ![o].pc = "derive", ![o].kind = "publish", ![o].read = <<>>]
                /\ UNCHANGED used
       \/ Leave(o) /\ UNCHANGED <<row, receipt, lost>>
    /\ UNCHANGED <<tree, trees, cache>>

\* GenerationCache::publish
SameKey(i) == {j \in Range(cache) : j.key = i.key}

Agrees(i) == \A j \in SameKey(i) : j.body = i.body

CacheAfter(i) ==
    LET kept == SelectSeq(cache, LAMBDA j : j \notin SameKey(i))
    IN  Append(IF Len(kept) = Maximum THEN Tail(kept) ELSE kept, i)

PublishEntry(i, bytes) ==
    /\ cache' = CacheAfter(i)
    /\ used' = used - bytes
               - FreedByCache(Range(cache) \ Range(CacheAfter(i)))

\* Mutant: any capture of the right key is published.
AnyDigest(o) == receipt[op[o].key] # <<>>

\* What the receipt read in the same call says of the capture.
MatchesReceipt(o) == receipt[op[o].key] = Body(o)

\* publish_committed_locked after the binding; the caller's share of the
\* artifact ends with the attempt.
PublishCommitted(o) ==
    /\ op[o].pc = "bound" /\ op[o].kind = "publish"
    /\ row[op[o].key] = "active"
    /\ \/ /\ MatchesReceipt(o) /\ Agrees(op[o].art)
          /\ cache' = CacheAfter(op[o].art)
          /\ used' = used - op[o].held
                     - FreedByCache(Range(cache) \ Range(CacheAfter(op[o].art)))
          /\ op' = [op EXCEPT ![o] = Idle]
       \/ ~(MatchesReceipt(o) /\ Agrees(op[o].art)) /\ Leave(o) /\ UNCHANGED cache
    /\ UNCHANGED <<row, tree, trees, receipt, lost>>

----------------------------------------------------------------------------
(***************************************************************************)
(* current_locked, and retirement.                                          *)
(***************************************************************************)

Found(k) == {i \in Range(cache) : i.key = k /\ i.body = receipt[k]}

\* A hit becomes the most recently used entry.  A package that became active
\* without a receipt can be staged by the platform at its start.
CurrentLocked(o) ==
    LET k == op[o].key IN
    /\ op[o].pc = "current"
    /\ \/ /\ receipt[k] = <<>>
          /\ \/ op' = [op EXCEPT ![o].pc = "activate", ![o].kind = "activate"]
             \/ op' = [op EXCEPT ![o] = Idle]
          /\ UNCHANGED cache
       \/ /\ receipt[k] # <<>>
          /\ \/ \E i \in Found(k) :
                  /\ op' = [op EXCEPT ![o].pc = "derive", ![o].art = i]
                  /\ cache' = Append(SelectSeq(cache, LAMBDA j : j # i), i)
             \/ /\ Found(k) = {}
                /\ op' = [op EXCEPT ![o].pc = "lane"]
                /\ UNCHANGED cache
    /\ UNCHANGED <<row, tree, trees, receipt, lost, used>>

\* The artifact is handed out only if it still is what the receipt says.
Serve(o) ==
    /\ op[o].pc = "bound" /\ op[o].kind = "current"
    /\ \/ /\ MatchesReceipt(o) /\ Agrees(op[o].art)
          /\ PublishEntry(op[o].art, Working)
          /\ op' = [op EXCEPT ![o].pc = "served", ![o].held = 0]
       \/ ~(MatchesReceipt(o) /\ Agrees(op[o].art)) /\ Leave(o) /\ UNCHANGED cache
    /\ UNCHANGED <<row, tree, trees, receipt, lost>>

\* The name lock goes, and later the artifact, which a caller may keep past it.
Unlock(o) ==
    /\ op[o].pc = "served"
    /\ op' = [op EXCEPT ![o].pc = "leased"]
    /\ UNCHANGED <<row, tree, trees, receipt, lost, cache, used>>

Release(o) ==
    /\ op[o].pc = "leased"
    /\ Leave(o)
    /\ UNCHANGED <<row, tree, trees, receipt, lost, cache>>

\* A package operation withdraws the row, then the cached captures; when the
\* answer of its COMMIT is lost it returns without the second part.
Withdraw(o) ==
    /\ op[o].pc = "retire"
    /\ \/ /\ row' = [row EXCEPT ![op[o].key] = "disabled"]
          /\ \/ op' = [op EXCEPT ![o].pc = "withdrawn"] /\ UNCHANGED lost
             \/ op' = [op EXCEPT ![o] = Idle] /\ lost' = lost \cup {op[o].key}
       \/ op' = [op EXCEPT ![o] = Idle] /\ UNCHANGED <<row, lost>>
    /\ UNCHANGED <<tree, trees, receipt, cache, used>>

RetireEntries(o) ==
    LET gone == {i \in Range(cache) : i.key = op[o].key} IN
    /\ op[o].pc = "withdrawn"
    /\ cache' = SelectSeq(cache, LAMBDA i : i \notin gone)
    /\ used' = used - FreedByCache(gone)
    /\ op' = [op EXCEPT ![o] = Idle]
    /\ UNCHANGED <<row, tree, trees, receipt, lost>>

\* Something rewrites a file of an extracted tree.
Rewrite(k, f) ==
    /\ tree[k][f] = 0
    /\ tree' = [tree EXCEPT ![k][f] = 1]
    /\ trees' = [trees EXCEPT ![k] = @ \cup {tree'[k]}]
    /\ UNCHANGED <<row, receipt, lost, cache, used, op>>

Next ==
    \/ \E o \in Ops :
        \/ \E k \in Keys, kind \in {"activate", "current", "retire"} : Begin(o, k, kind)
        \/ Interrupted(o) \/ StageLocked(o) \/ Capture(o) \/ WalkFirst(o)
        \/ WalkSecond(o) \/ ProfileUnavailable(o) \/ Verify(o) \/ Derive(o) \/ Unbound(o)
        \/ InsertReceipt(o) \/ Commit(o) \/ PublishCommitted(o)
        \/ CurrentLocked(o) \/ Serve(o) \/ Unlock(o) \/ Release(o)
        \/ Withdraw(o) \/ RetireEntries(o)
    \/ \E k \in Changing, f \in {1, 2} : Rewrite(k, f)

Spec == Init /\ [][Next]_vars

----------------------------------------------------------------------------

\* The types of the rows and the budget; the cache is bounded and lists an
\* artifact once.
TypeOK ==
    /\ row \in [Keys -> {"activating", "active", "disabled"}]
    /\ used \in 0..Capacity
    /\ Len(cache) <= Maximum
    /\ IsInjective(cache)
    /\ lost \subseteq {k \in Keys : row[k] = "disabled"}
    /\ \A o \in Ops : op[o].art.id \in Nat /\ op[o].key \in Keys

\* What the platform and the layouts are given is the generation that was
\* activated: a committed receipt names a tree the package really had at one
\* moment, never a mixture of two, and every artifact served or cached is of
\* the body its committed receipt names.  A capture of a package that is not
\* active stays cached only while its withdrawal is in progress, or when the
\* answer of the withdrawal's COMMIT was lost.
GenerationsAreReceipted ==
    /\ \A k \in Keys : receipt[k] # <<>> => receipt[k] \in trees[k]
    /\ \A o \in Ops : op[o].pc = "served" =>
           Body(o) = receipt[op[o].key] /\ row[op[o].key] = "active"
    /\ \A i \in Range(cache) :
           /\ i.body = receipt[i.key]
           /\ \/ row[i.key] = "active"
              \/ \E o \in Ops : op[o].pc = "withdrawn" /\ op[o].key = i.key
              \/ i.key \in lost

\* The byte budget counts exactly what is alive: the open tickets of the
\* callers, and every artifact with an owner once.  No path of a failed,
\* refused or evicted capture leaks units or gives them back twice.
BudgetIsExact ==
    LET Held[S \in SUBSET Ops] ==
            IF S = {} THEN 0
            ELSE LET o == CHOOSE p \in S : TRUE IN op[o].held + Held[S \ {o}]
        live == (Range(cache) \cup {op[o].art : o \in Ops}) \ {None}
    IN  used = Held[Ops] + Retained * Cardinality(live)
=============================================================================
