---------------------------- MODULE ExactLedger -----------------------------
(***************************************************************************)
(* What the block chain promises about the database as a whole: the tip    *)
(* moves as TrustedTip says, only ever to a branch whose ledger is sound,  *)
(* and in the same atomic step the transaction index becomes the one that  *)
(* the new branch alone determines.  No state in between, and no trace of  *)
(* the branch left behind, can be seen.                                    *)
(***************************************************************************)
EXTENDS TrustedTip

CONSTANTS
    Sound(_),       \* Sound(b): no double spend on the branch that ends in b...
    Index(_)        \* Index(b): the transaction index of that branch

VARIABLE index

LedgerInit == TipInit /\ index = Index(Genesis)

LedgerNext ==
    /\ TipNext
    /\ Sound(best')
    /\ index' = Index(best')

LedgerSpec == LedgerInit /\ [][LedgerNext]_<<best, index>>
=============================================================================
