----------------------------- MODULE MCBlockNet -----------------------------
(* Prefetch lists for the runs of BlockNet.                                *)
EXTENDS BlockNet

NoPrefetch   == << >>
TwoGroups    == <<0, 1, 0>>
=============================================================================
