-------------------------------- MODULE MCWallet --------------------------------
EXTENDS Wallet, TLC

MovesMC  == {-2, 3}
Symmetry == Permutations(Workers)
=============================================================================
