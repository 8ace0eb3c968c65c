--------------------------- MODULE MCBrowserMonitor ---------------------------
(* Instances of BrowserMonitor for TLC: two centres, the first with two slots. *)
EXTENDS BrowserMonitor

MCKeys == {<<1, 1>>, <<1, 2>>, <<2, 1>>}
=============================================================================
