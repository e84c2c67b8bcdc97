----------------------------- MODULE MCBridgeNode -----------------------------
(***************************************************************************)
(* BridgeNode for TLC.  Every kind of entry in every position: the entries *)
(* differ in what the constructor and the callbacks tell apart.            *)
(***************************************************************************)
EXTENDS BridgeNode

Plain == [class |-> "msg", topic |-> "good", interval |-> {}, frames |-> FALSE,
          freq |-> {}, period |-> {}]
MCEntries ==
    { [Plain EXCEPT !.class = ""],
      [Plain EXCEPT !.class = "broken"],
      [Plain EXCEPT !.topic = ""],
      [Plain EXCEPT !.class = "both", !.topic = "bad", !.period = {1}],
      [Plain EXCEPT !.interval = {0}],
      [Plain EXCEPT !.interval = {7}],
      [Plain EXCEPT !.class = "both", !.period = {0}],
      [Plain EXCEPT !.class = "both", !.period = {1}, !.interval = {20}],
      [Plain EXCEPT !.class = "tf", !.frames = TRUE, !.freq = {20}],
      [Plain EXCEPT !.class = "tf", !.period = {0}] }

\* A topic whose entry names no translator.
MCNoTranslator == {[Plain EXCEPT !.class = ""]}

\* The entries that look at the clock, and a topic that is not throttled.
MCClocked ==
    { Plain,
      [Plain EXCEPT !.interval = {0}],
      [Plain EXCEPT !.interval = {4}],
      [Plain EXCEPT !.class = "both", !.period = {1}, !.interval = {3}],
      [Plain EXCEPT !.class = "tf", !.frames = TRUE, !.period = {1}] }
=============================================================================
