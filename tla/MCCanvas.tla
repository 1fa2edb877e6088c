------------------------------ MODULE MCCanvas -------------------------------
EXTENDS Canvas
CONSTANTS pen, rub
=============================================================================
