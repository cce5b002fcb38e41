------------------------------ MODULE MCBridge ------------------------------
(* A lock into the escrow and one that pays another account.               *)
EXTENDS Bridge, TLC

CONSTANTS l1, l2, r1, r2

MCAmount == l1 :> 2 @@ l2 :> 1

Scene(quorum, minted, burns, reorganizations, failures) ==
    [threshold |-> quorum, minted |-> minted, burns |-> burns,
     reorgs |-> reorganizations, crashes |-> failures]

\* A mint under faults; a mint with a burn behind it; two burns of SYN that
\* is there already, with a reorganization or with a crash.
MCScenes == {Scene(1, {}, 0, 1, 2), Scene(2, {}, 0, 1, 2), Scene(2, {}, 1, 0, 0),
             Scene(2, {l1}, 2, 1, 0), Scene(2, {l1}, 2, 0, 1)}

=============================================================================
