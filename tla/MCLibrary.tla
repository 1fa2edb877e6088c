------------------------------ MODULE MCLibrary ------------------------------
EXTENDS Library
CONSTANTS b1, b2, b3, f1, f2

Start(kinds, bs, fs) == [tour |-> kinds, boards |-> bs, folders |-> fs]

Cases == {
  Start({"boards"}, <<b1, b2, b3>>, <<>>),
  Start({"folders"}, <<>>, <<f1>>),
  Start({"folders"}, <<>>, <<>>),
  Start({"boards", "open"}, <<b1>>, <<f1>>),
  Start({"open"}, <<b1>>, <<f1, f2>>),
  Start({"open"}, <<b1, b2>>, <<f1>>)}
=============================================================================
