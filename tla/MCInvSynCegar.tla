--------------------------- MODULE MCInvSynCegar ---------------------------
(***************************************************************************)
(* Designs of three states for the invariant synthesis loop: one for each  *)
(* way, up to renaming, in which the reachable states and those that go    *)
(* wrong can overlap, except that one where every state goes wrong and     *)
(* only one of them is reachable.                                          *)
(***************************************************************************)
EXTENDS InvSynCegar

ThreeStates == 1 .. 3

AllDesigns ==
  {[reach |-> 1 .. k, bad |-> (k - i + 1) .. (k + j)] :
     <<k, i, j>> \in {t \in (1 .. 3) \X (0 .. 3) \X (0 .. 2) :
                        t[2] <= t[1] /\ t[1] + t[3] <= 3 /\ t # <<1, 1, 2>>}}
=============================================================================
