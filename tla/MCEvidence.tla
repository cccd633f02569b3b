----------------------------- MODULE MCEvidence -----------------------------
(***************************************************************************)
(* A small instance of Evidence: two queries whose results share a domain,    *)
(* two long urls that the column cuts to the same value, a blocked url.      *)
(***************************************************************************)
EXTENDS Evidence

CONSTANTS a1, a2, a3, b1, x1, host, other, long

MCUrls == {a1, a2, a3, b1, x1}
MCBlocked == {x1}
MCDomain == [u \in MCUrls |-> IF u \in {a1, a2, a3} THEN host ELSE other]
MCColumn == [u \in MCUrls |-> IF u \in {a2, a3} THEN long ELSE u]

=============================================================================
