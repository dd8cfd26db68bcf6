---------------------------- MODULE MCPeerTables ----------------------------
EXTENDS PeerTables

MCFrames == 1..3
MCValues == {1, 2}

\* States that differ only in which page object holds a page behave alike.
CacheOrder == Dqueue!Contents(t.cache.queue)
PageOf(f)  == IF f = NULL THEN NULL ELSE t.cache.frame[f].id

MCView ==
  <<kind, phase, committed, expected, changed, faults, t.device,
    [i \in DOMAIN CacheOrder |-> t.cache.frame[CacheOrder[i]]], t.cache.num, t.cache.limit,
    IF kind = "append"
    THEN <<[i \in DOMAIN t.queue |-> PageOf(t.queue[i])], PageOf(t.page), t.last, t.cfg>>
    ELSE <<[i \in DOMAIN t.dirty |-> PageOf(t.dirty[i])], t.log,
           [i \in DOMAIN t.changes |-> <<t.changes[i].id, t.changes[i].old>>]>> >>
=============================================================================
