---------------------------- MODULE MCLedgerSetup ----------------------------
(* Instances of LedgerSetup for TLC. *)
EXTENDS LedgerSetup

CONSTANTS i1, i2, n1, n2, d1, d2, d3, d4, tag1, tag2

\* Two schemas of one issuer, asked for with and without revocation, and one of another's.
MCScenarios ==
  {[issuer |-> i1, name |-> n1, revocable |-> FALSE],
   [issuer |-> i1, name |-> n1, revocable |-> TRUE],
   [issuer |-> i1, name |-> n2, revocable |-> FALSE],
   [issuer |-> i2, name |-> n1, revocable |-> FALSE]}
=============================================================================
