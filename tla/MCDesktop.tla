------------------------------ MODULE MCDesktop ------------------------------
EXTENDS Desktop
CONSTANTS s1, lesson, pack, scan
MCKind == [f \in File |-> CASE f = lesson -> "pdf" [] f = pack -> "zip" [] OTHER -> "png"]
=============================================================================
