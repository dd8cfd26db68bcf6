---------------------------- MODULE MCOrderTable ----------------------------
EXTENDS OrderTable

MCFrames == 1..3

(***************************************************************************)
(* States that differ only in which page object holds a page, or in a log  *)
(* that is written again before it is read, behave alike.                  *)
(***************************************************************************)
CacheOrder == Dqueue!Contents(table.cache.queue)

MCView ==
  <<[i \in DOMAIN CacheOrder |-> table.cache.frame[CacheOrder[i]]],
    table.cache.num, table.cache.limit,
    [i \in DOMAIN table.dirty |-> table.cache.frame[table.dirty[i]].id],
    table.packages, table.device,
    IF config.flag THEN <<table.log, cfgLog>> ELSE << >>,
    config, IF state = "down" THEN 0 ELSE cur, queue, state,
    peer, torn, faults>>
=============================================================================
