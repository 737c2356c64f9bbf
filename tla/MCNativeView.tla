---------------------------- MODULE MCNativeView ----------------------------
(* The instances of NativeView that TLC checks.                            *)
EXTENDS NativeView

CONSTANTS ncd, mdir

\* Two plugins that show screens.
MCPlugins == {ncd, mdir}
=============================================================================
