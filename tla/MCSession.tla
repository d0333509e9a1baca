------------------------------- MODULE MCSession -------------------------------
EXTENDS Session
================================================================================
