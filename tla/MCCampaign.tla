----------------------------- MODULE MCCampaign ------------------------------
EXTENDS Campaign

AllCauses == {"canceled", "deadline"}
=============================================================================
