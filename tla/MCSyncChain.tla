----------------------------- MODULE MCSyncChain ----------------------------
(***************************************************************************)
(* SyncChain with all its constants given in the configurations: blocks in *)
(* slots 0, 1, 3 and 4 of epochs of two slots, an honest peer `h` and a    *)
(* faulty one `f`.                                                         *)
(***************************************************************************)
EXTENDS SyncChain

=============================================================================
