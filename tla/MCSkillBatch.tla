---------------------------- MODULE MCSkillBatch ----------------------------
EXTENDS SkillBatch
=============================================================================
