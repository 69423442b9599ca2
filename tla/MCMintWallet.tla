--------------------------- MODULE MCMintWallet ---------------------------
(* Small instances of MintWallet for TLC.                                  *)
EXTENDS MintWallet

CONSTANTS k1, k2

FundingCoin(key, amount) == Coin(Genesis, P2Hash(key), amount)

(* Every way an amount can stand to fee + 1, the width's edge included.    *)
MCFunding == {FundingCoin(k1, 0), FundingCoin(k1, 1), FundingCoin(k1, 5), FundingCoin(k2, 7)}
=============================================================================
