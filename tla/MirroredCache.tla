--------------------------- MODULE MirroredCache ---------------------------
(***************************************************************************)
(* vllm/v1/engine/mm_input_cache.py: the two caches of processed images,   *)
(* P0 in the front end and P1 in the engine core.  The front end does not  *)
(* send an image it finds in P0, trusting that P1 has it.  A cache is the  *)
(* sequence of its hashes, least recently used first, over LRUCache of     *)
(* vllm/utils; every image has size 1 here and fits.                       *)
(***************************************************************************)
EXTENDS Naturals, Sequences, SequencesExt

CONSTANT MMCacheSize

ASSUME MirrorAssumption == MMCacheSize \in Nat \ {0}

Cached(cache, h) == h \in ToSet(cache)

\* A lookup, or a store of an image that is there, makes it the newest.
Use(cache, h) == Append(Remove(cache, h), h)

Mut_Found(cache, h) == cache

\* The lookup of P0 is a use, as that of P1 is.
Found(cache, h) == Use(cache, h)

\* A store drops the oldest images until the new one fits.
Store(cache, h) ==
    LET drop == Len(cache) + 1 - MMCacheSize
    IN Append(IF drop > 0 THEN SubSeq(cache, drop + 1, Len(cache)) ELSE cache, h)

\* get_and_update_p0: the images to send, whole or only named, and the cache.
UpdateP0(cache, hashes) ==
    FoldLeft(LAMBDA acc, h :
                 IF Cached(acc.cache, h)
                 THEN [sent |-> Append(acc.sent, [hash |-> h, whole |-> FALSE]),
                       cache |-> Found(acc.cache, h)]
                 ELSE [sent |-> Append(acc.sent, [hash |-> h, whole |-> TRUE]),
                       cache |-> Store(acc.cache, h)],
             [sent |-> <<>>, cache |-> cache], hashes)

\* get_and_update_p1: ok is FALSE once an image that was only named is missing,
\* the KeyError that ends the call.
UpdateP1(cache, sent) ==
    FoldLeft(LAMBDA acc, m :
                 IF ~acc.ok THEN acc
                 ELSE IF Cached(acc.cache, m.hash)
                 THEN [acc EXCEPT !.cache = Use(@, m.hash)]
                 ELSE IF m.whole THEN [acc EXCEPT !.cache = Store(@, m.hash)]
                 ELSE [acc EXCEPT !.ok = FALSE],
             [ok |-> TRUE, cache |-> cache], sent)
=============================================================================
