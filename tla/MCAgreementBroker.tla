-------------------------- MODULE MCAgreementBroker --------------------------
(* Small instance of AgreementBroker for TLC.                              *)
EXTENDS AgreementBroker

(* This node is a member of every committee of rounds 1 to 4, steps 1 to 3 *)
(* but the second step of each round, so both branches of sendAgreement    *)
(* are taken.                                                              *)
MCMembership == {<<r, s>> \in (1 .. 4) \X (1 .. 3) : s /= 2}
=============================================================================
