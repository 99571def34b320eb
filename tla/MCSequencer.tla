------------------------------ MODULE MCSequencer ------------------------------
EXTENDS Sequencer
================================================================================
