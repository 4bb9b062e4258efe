--------------------------- MODULE MCBundleAdapter ---------------------------
EXTENDS BundleAdapter, TLC

CONSTANTS a, b

Places == Permutations({a, b})
=============================================================================
