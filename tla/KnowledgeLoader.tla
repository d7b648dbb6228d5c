---------------------------- MODULE KnowledgeLoader ----------------------------
(***************************************************************************)
(* knowledge/loader.ts for the directory of the knowledge base: what is on *)
(* disk, which the staff edit while the program runs, and the text the     *)
(* program read last, kept in memory for a minute.                         *)
(***************************************************************************)
EXTENDS Integers, FiniteSets

CONSTANTS Contents,  \* the texts the directory holds, in the order of their numbers
          CacheTtl   \* CACHE_TTL_MS

ASSUME LoaderAssumption ==
    /\ Contents = 1..Cardinality(Contents) /\ 1 \in Contents
    /\ CacheTtl \in Nat

VARIABLES files,  \* what is on disk, and since when
          cache   \* caches.get(knowledgeDir)

loaderVars == <<files, cache>>

LoaderTypeOK ==
    /\ files \in [text : Contents, since : Nat]
    /\ cache \in [text : Contents, loadedAt : Nat]

Load(time) == [text |-> files.text, loadedAt |-> time]

LoaderInit ==
    /\ files = [text |-> 1, since |-> 0]
    /\ cache = Load(0)

\* Mutant of CacheHit: the cached text is used for as long as it is there.
CacheHitForEver(time) == TRUE

CacheHit(time) == time - cache.loadedAt < CacheTtl

\* The entry whose text loadKnowledgeBase() returns.
loadKnowledgeBase(time) == IF CacheHit(time) THEN cache ELSE Load(time)

\* A new process: the checks at the start have read the directory.
LoadAtStart(time) == cache' = Load(time) /\ UNCHANGED files

\* The staff change the price list.
Edit(time) ==
    /\ files.text + 1 \in Contents
    /\ files' = [text |-> files.text + 1, since |-> time]
    /\ UNCHANGED cache
================================================================================
