-------------------------- MODULE MCMasterStartup --------------------------
(* Small instances of MasterStartup: peers and contents are numbers. *)
EXTENDS MasterStartup

\* One block was persisted before.
MCHistories == {<<1>>}

\* Peers differ in what they hold only, so the runs start with the peers in
\* the order of their chains.
Code(c) == FoldLeft(LAMBDA n, d : 3 * n + d, 0, c)
MCInit  == Init /\ \A p, q \in Peers : p <= q => Code(held[p]) <= Code(held[q])
MCSpec  == MCInit /\ [][Next]_vars /\ Fairness
=============================================================================
