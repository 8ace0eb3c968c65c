---------------------------- MODULE MCBrowserScan ----------------------------
(* The instances of BrowserScan are given by their configurations. *)
EXTENDS BrowserScan
=============================================================================
