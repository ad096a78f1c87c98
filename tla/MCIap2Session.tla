---------------------------- MODULE MCIap2Session ----------------------------
(* Instances of Iap2Session for TLC.                                          *)
EXTENDS Iap2Session

\* Retransmitting links with a window of 2 and of 1, and the wired link, which
\* neither acknowledges nor retransmits (zero_ack).
MCWindow2 == Lsp(2, 4, 2)
MCWindow1 == Lsp(1, 4, 2)
MCWired   == Lsp(2, 0, 0)
=============================================================================
