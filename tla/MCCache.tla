------------------------------ MODULE MCCache ------------------------------
(***************************************************************************)
(* Small instances of Cache: a content of two small chunks, one of two     *)
(* larger chunks and one of a single chunk that nearly fills the cache.    *)
(***************************************************************************)
EXTENDS Cache

MCContents == {"small", "large", "huge"}
MCLastChunk == [c \in MCContents |-> IF c = "huge" THEN 1 ELSE 2]
MCBits == [c \in MCContents |-> CASE c = "small" -> 1000
                                  [] c = "large" -> 2000
                                  [] c = "huge"  -> 3000]
=============================================================================
