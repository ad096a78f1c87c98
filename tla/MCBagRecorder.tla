---------------------------- MODULE MCBagRecorder ----------------------------
(* Instances of BagRecorder for TLC.                                          *)
EXTENDS BagRecorder

MCScenarios == {{"crash", "open", "subscribe"},
                {"crash", "write", "open", "save", "close", "subscribe"},
                {"flush", "close"}}
==============================================================================
