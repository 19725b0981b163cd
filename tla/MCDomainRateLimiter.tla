------------------------ MODULE MCDomainRateLimiter ------------------------
EXTENDS DomainRateLimiter, TLC

MCSymmetry == Permutations(Callers)
=============================================================================
