---------------------------- MODULE MCAuditChain ----------------------------
EXTENDS AuditChain, TLC

WriterSymmetry == Permutations(Writers)
=============================================================================
