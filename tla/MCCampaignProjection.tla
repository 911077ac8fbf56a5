-------------------------- MODULE MCCampaignProjection --------------------------
EXTENDS CampaignProjection
=============================================================================
