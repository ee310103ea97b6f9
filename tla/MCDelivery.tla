----------------------------- MODULE MCDelivery -----------------------------
(***************************************************************************)
(* Delivery for TLC.  No action and no property tells one client, or one   *)
(* rendering, from another, so states that differ by a permutation of      *)
(* either are one; the run checks safety only.  A request that has ended   *)
(* takes no further step and no property of the run asks how it ended, so  *)
(* the view tells neither its end nor the turns of its loop.               *)
(***************************************************************************)
EXTENDS Delivery, TLC

Symmetry == Permutations(Client) \cup Permutations(Rendering)

Ended == {"acked", "failed", "rejected"}
View ==
    <<storeVars, workVars, dlVars, subVars, amount, reqInv,
      [r \in Request |-> IF reqPc[r] \in Ended THEN <<"ended">> ELSE <<reqPc[r], tries[r]>>]>>
=============================================================================
