-------------------------- MODULE MCEvidenceCalls --------------------------
\* The instance of EvidenceCalls that TLC checks.
EXTENDS EvidenceCalls

\* Two contexts of one claim carry the same doc_id.
Filing == <<"a", "b", "a">>
=============================================================================
