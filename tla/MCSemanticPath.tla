--------------------------- MODULE MCSemanticPath ---------------------------
(***************************************************************************)
(* What a semantic lookup goes through: the embedding cache, the creation  *)
(* of the HNSW index, the index, the semantic cache.  Each takes the next  *)
(* for what its module promises, so they share no state here, and their    *)
(* interleavings tell no more than the behaviours of each: one moves while *)
(* the others are in their initial state.                                  *)
(***************************************************************************)
EXTENDS HNSWIndex, FiniteSets, TLC

CONSTANTS
    Callers, Topics, Entries, IndexLimit, MaxRestarts,      \* of SemanticCache
    Adders, Dims, MaxAdds,                                  \* of LazyIndex, with Entries
    Embedders, Texts, MaxCacheSize, MaxEmbeds               \* of EmbeddingCache

ASSUME EmbedderAssumption ==
    /\ IsFiniteSet(Embedders) /\ Embedders # {}
    /\ None \notin Texts /\ MaxCacheSize \in Nat

VARIABLES
    topic, stored, known, searchable, mode, todo, loaded, place, prompt, match,
    orphans, warm, cold, met, before, restarts,
    current, dim, vectors, adding, entry, want, held, adds, sure, settled,
    cache, embedding_at, text, embeds, touched

Manager  == INSTANCE SemanticCache WITH Threads <- Callers, index <- searchable, pc <- place
Metadata == INSTANCE LazyIndex WITH Threads <- Adders, MaxCalls <- MaxAdds, at <- adding, calls <- adds
Embedder == INSTANCE EmbeddingCache WITH
                Threads <- Embedders, MaxCalls <- MaxEmbeds, at <- embedding_at, calls <- embeds

manager  == <<topic, stored, known, searchable, mode, todo, loaded, place, prompt, match,
              orphans, warm, cold, met, before, restarts>>
metadata == <<current, dim, vectors, adding, entry, want, held, adds, sure, settled>>
embedder == <<cache, embedding_at, text, embeds, touched>>

PathInit == Init /\ Manager!Init /\ Metadata!Init /\ Embedder!Init

PathNext ==
    \/ /\ Manager!Init /\ Metadata!Init /\ Embedder!Init
       /\ Next /\ UNCHANGED <<manager, metadata, embedder>>
    \/ /\ Init /\ Metadata!Init /\ Embedder!Init
       /\ Manager!Next /\ UNCHANGED <<vars, metadata, embedder>>
    \/ /\ Init /\ Manager!Init /\ Embedder!Init
       /\ Metadata!Next /\ UNCHANGED <<vars, manager, embedder>>
    \/ /\ Init /\ Manager!Init /\ Metadata!Init
       /\ Embedder!Next /\ UNCHANGED <<vars, manager, metadata>>

PathSpec == PathInit /\ [][PathNext]_<<vars, manager, metadata, embedder>>

Symmetric == Permutations(Callers) \cup Permutations(Topics) \cup Permutations(Entries) \cup Permutations(Objects)

\* The type invariants of the four components; the one of the index creation says that an index
\* holds vectors of its own dimension only, the one of the embedding cache that no text has two
\* entries.
PathTypeOK == TypeOK /\ Manager!TypeOK /\ Metadata!TypeOK /\ Embedder!TypeOK

\* SemanticCache: what is stored is searchable, after a restart too, unless its put raised.
StoredAreSearchable == Manager!StoredAreSearchable

\* SemanticCache: the generator runs again for a cached topic only for a delete, a restart or a
\* dead entry nobody has met before.
GeneratesOnlyUncached == Manager!GeneratesOnlyUncached

\* LazyIndex: only the entries of first calls that overlap are lost with a replaced index.
SettledStaySearchable == Metadata!SettledStaySearchable

\* EmbeddingCache: overlapping calls exceed the limit by no more than one text each, and the cache
\* holds the texts used last, in that order, less one for each other thread that may have
\* evicted at the same time.
CacheKeepsRecent == Embedder!SizeIsBounded /\ Embedder!KeepsTheRecent
=============================================================================
